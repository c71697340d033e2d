----------------------------- MODULE AtomicIndex -----------------------------
(***************************************************************************)
(* What the semantic index promises to the store that calls it: as long as *)
(* it is calm, an operation on it happens at once, whatever steps its file *)
(* goes through, and a rebuild in two, one that empties it and one that    *)
(* puts back what the rebuild was given when it was asked for, and no other*)
(* operation between.  What was put there after a rebuild was asked for,   *)
(* and before it empties the index, is gone.  Once disturbed it promises no*)
(* more than to hold no entry twice, until it is calm again.               *)
(***************************************************************************)
CONSTANTS Workers, Entry

VARIABLES
  index,      \* the entries
  jobs,       \* what each worker has still to do to them
  calm        \* no two processes in each other's way, and nothing cut short

vars == <<index, jobs, calm>>

Without(S, T) == {e \in S : \A d \in T : d.id # e.id}
Contents == {S \in SUBSET Entry : \A d, e \in S : d.id = e.id => d = e}

None == [does |-> "none", rows |-> {}]
Jobs(kinds) == [does : kinds, rows : Contents]
AnyJob == Jobs({"none", "upsert", "remove", "clear", "fill"})

Init ==
  /\ index \in Contents /\ jobs = [w \in Workers |-> None]
  /\ calm = TRUE

(* The store asks for an operation.                                        *)
Ask(w) ==
  /\ jobs[w] = None /\ jobs'[w] \in Jobs({"upsert", "remove", "clear"})
  /\ jobs' = [jobs EXCEPT ![w] = jobs'[w]] /\ index' = index

(* It happens, unless another worker is in the middle of a rebuild.        *)
Undivided(w) == \A x \in Workers \ {w} : jobs[x].does # "fill"

Put(w) ==
  /\ jobs[w].does \in {"upsert", "fill"} /\ Undivided(w)
  /\ index' = Without(index, jobs[w].rows) \cup jobs[w].rows
  /\ jobs' = [jobs EXCEPT ![w] = None]

Remove(w) ==
  /\ jobs[w].does = "remove" /\ Undivided(w)
  /\ index' = Without(index, jobs[w].rows)
  /\ jobs' = [jobs EXCEPT ![w] = None]

Clear(w) ==
  /\ jobs[w].does = "clear" /\ Undivided(w)
  /\ index' = {}
  /\ jobs' = [jobs EXCEPT ![w] = IF @.rows = {} THEN None ELSE [@ EXCEPT !.does = "fill"]]

Operation ==
  /\ calm = TRUE /\ calm' = TRUE
  /\ \E w \in Workers : Ask(w) \/ Put(w) \/ Remove(w) \/ Clear(w)

(* Calm is lost, has been lost, or comes back.                             *)
Disturbed ==
  /\ calm' \in BOOLEAN /\ ~(calm /\ calm')
  /\ index' \in Contents /\ jobs' \in [Workers -> AnyJob]

Next == Operation \/ Disturbed

Spec == Init /\ [][Next]_vars
=============================================================================
