---------------------------- MODULE MCMemoryStore ----------------------------
(* Small instances of MemoryStore.  Contents are interchangeable: no       *)
(* action and no invariant tells one fact from another except by equality. *)
EXTENDS MemoryStore, TLC

CONSTANTS g1, g2, c1, f1, f2, f3

FactSymmetry == Permutations(Facts)
=============================================================================
