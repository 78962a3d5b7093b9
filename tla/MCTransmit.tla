------------------------------ MODULE MCTransmit ------------------------------
(***************************************************************************)
(* Model-checking instance of Transmit.                                    *)
(***************************************************************************)
EXTENDS Transmit
=============================================================================
