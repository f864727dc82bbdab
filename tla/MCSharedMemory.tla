--------------------------- MODULE MCSharedMemory ---------------------------
EXTENDS SharedMemory, TLC

(* Readers, lines and identifiers are interchangeable among themselves. *)
Symmetry == Permutations(Reader) \cup Permutations(Line) \cup Permutations(Segment)
=============================================================================
