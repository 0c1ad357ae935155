--------------------------- MODULE MCClientSession ---------------------------
(* TLC instances of ClientSession. *)
EXTENDS ClientSession, TLC

Symmetry == Permutations(Room) \cup Permutations(Key)
=============================================================================
