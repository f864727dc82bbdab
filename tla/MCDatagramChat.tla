--------------------------- MODULE MCDatagramChat ---------------------------
EXTENDS DatagramChat, TLC

(* Clients are interchangeable in every step and property. *)
ClientSymmetry == Permutations(Client)
=============================================================================
