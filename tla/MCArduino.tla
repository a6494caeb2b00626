------------------------------ MODULE MCArduino ------------------------------
(* Model-checking instance of Arduino.                                     *)
EXTENDS Arduino
=============================================================================
