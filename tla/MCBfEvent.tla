------------------------------ MODULE MCBfEvent ------------------------------
(* Instances of BfEvent for TLC.                                           *)
EXTENDS BfEvent
=============================================================================
