----------------------------- MODULE MCEspNode -----------------------------
(* Instances of EspNode for TLC.                                           *)
EXTENDS EspNode
=============================================================================
