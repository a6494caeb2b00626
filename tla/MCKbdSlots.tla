----------------------------- MODULE MCKbdSlots -----------------------------
(* Model-checking instance of KbdSlots: two slots, three hosts, so that a  *)
(* host more than the slots can hold competes for the pairing window.      *)
EXTENDS KbdSlots
=============================================================================
