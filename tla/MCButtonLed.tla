---------------------------- MODULE MCButtonLed ----------------------------
EXTENDS ButtonLed, TLC

(* Files are interchangeable in every step and property, and so are the    *)
(* other pins.                                                             *)
BoardSymmetry == Permutations(File) \cup Permutations(Other)
=============================================================================
