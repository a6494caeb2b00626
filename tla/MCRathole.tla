----------------------------- MODULE MCRathole -----------------------------
(* Instances of Rathole for TLC.                                           *)
EXTENDS Rathole
=============================================================================
