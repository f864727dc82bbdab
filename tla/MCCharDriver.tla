---------------------------- MODULE MCCharDriver ----------------------------
EXTENDS CharDriver, TLC

(* Users are interchangeable in every step and property. *)
UserSymmetry == Permutations(User)
=============================================================================
