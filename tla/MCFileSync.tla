----------------------------- MODULE MCFileSync -----------------------------
(* FileSync for TLC: peers and edits are interchangeable.                  *)
EXTENDS FileSync, TLC

Symmetry == Permutations(Peer) \cup Permutations(Edit)
=============================================================================
