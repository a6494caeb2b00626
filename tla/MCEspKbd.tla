------------------------------ MODULE MCEspKbd ------------------------------
(* Instances of EspKbd for TLC.                                            *)
EXTENDS EspKbd
=============================================================================
