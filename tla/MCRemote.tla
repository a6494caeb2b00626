------------------------------ MODULE MCRemote ------------------------------
(* Instances of Remote for TLC.                                            *)
EXTENDS Remote
=============================================================================
