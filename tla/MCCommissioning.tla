---------------------------- MODULE MCCommissioning ----------------------------
(***************************************************************************)
(* Model-checking instance of Commissioning.                               *)
(***************************************************************************)
EXTENDS Commissioning
=============================================================================
