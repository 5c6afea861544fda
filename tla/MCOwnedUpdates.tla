--------------------------- MODULE MCOwnedUpdates ---------------------------
(* Small instances of OwnedUpdates for TLC.                                *)
EXTENDS OwnedUpdates, TLC

Symmetry == Permutations(Callers)
=============================================================================
