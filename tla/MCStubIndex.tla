----------------------------- MODULE MCStubIndex -----------------------------
(* Two threads of the provider and one command-line process.               *)
EXTENDS StubIndex, TLC

CONSTANTS t1, t2, cli

MCProcess == (t1 :> "provider") @@ (t2 :> "provider") @@ (cli :> "cli")
Symmetry == Permutations({t1, t2}) \cup Permutations(New)
=============================================================================
