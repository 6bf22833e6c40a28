----------------------------- MODULE MCOwnedData -----------------------------
(* Instances of OwnedData: blocks and Data structures are model values. *)
EXTENDS OwnedData, TLC
Symm == Permutations(Blocks) \cup Permutations(Slots)
=============================================================================
