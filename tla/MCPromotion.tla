----------------------------- MODULE MCPromotion -----------------------------
(* Two statements without a word in common, "a" and "b", the second about  *)
(* today; one that overlaps both, "ab"; and a possible fact that overlaps  *)
(* "a" only.                                                               *)
EXTENDS Promotion, TLC

MCSayings == {"a", "b", "ab", "fact"}
MCWords == [a |-> 1..4, b |-> 5..8, ab |-> {1, 2, 3, 5, 6, 7},
            fact |-> {1, 2, 3, 9, 10, 11}]
MCLength == [a |-> 4, b |-> 4, ab |-> 6, fact |-> 6]
Symmetry == Permutations(Forms) \cup Permutations(Pools)
=============================================================================
