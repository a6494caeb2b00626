--------------------------- MODULE MCKbdPlayback ---------------------------
(* Model-checking instance of KbdPlayback: one BLE slot and USB, one key,  *)
(* queues of two reports and texts of two characters.                      *)
EXTENDS KbdPlayback
=============================================================================
