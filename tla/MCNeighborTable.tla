---------------------------- MODULE MCNeighborTable ----------------------------
(***************************************************************************)
(* Model-checking instance of NeighborTable.                               *)
(***************************************************************************)
EXTENDS NeighborTable
=============================================================================
