------------------------------ MODULE MCSerial ------------------------------
(* Model-checking instance of Serial: rings and packets of a few bytes.    *)
EXTENDS Serial
=============================================================================
