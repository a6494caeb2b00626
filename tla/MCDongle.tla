------------------------------ MODULE MCDongle ------------------------------
(* Model-checking instances of Dongle.  Keyboards are interchangeable.     *)
EXTENDS Dongle

Symmetry == Permutations(Devs)
=============================================================================
