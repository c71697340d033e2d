---------------------------- MODULE MCMaintenance ----------------------------
(* Small instances of Maintenance.  Facts are interchangeable, and so are  *)
(* the processes.                                                          *)
EXTENDS Maintenance, TLC

CONSTANTS w1, w2, f1

Symmetry == Permutations(Facts) \cup Permutations(Runs)
=============================================================================
