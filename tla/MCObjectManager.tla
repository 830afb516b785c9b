--------------------------- MODULE MCObjectManager ---------------------------
(* ObjectManager for TLC: threads are alike, and so are unused objects.     *)
EXTENDS ObjectManager, TLC

Symmetry == Permutations(Threads) \union Permutations(Objects)
=============================================================================
