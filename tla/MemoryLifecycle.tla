--------------------------- MODULE MemoryLifecycle ---------------------------
(***************************************************************************)
(* What the canonical store promises about one memory record, whatever     *)
(* threads, commands and failures are involved: a record is written once,  *)
(* it may be replaced or archived, it is never deleted and never becomes   *)
(* active again, and a replacement appears in the same step in which the   *)
(* record it replaces stops being active.                                  *)
(***************************************************************************)
CONSTANT Id

VARIABLE status      \* the status column of every record that may exist

Statuses == {"none", "active", "superseded", "archived"}

Init == status = [i \in Id |-> "none"]

(* A record is written and replaces nothing.                               *)
Write(i) ==
  /\ status[i] = "none"
  /\ status' = [status EXCEPT ![i] = "active"]

(* A record is written as the replacement of an existing one.              *)
Replace(i, old) ==
  /\ status[i] = "none"
  /\ status[old] \in Statuses \ {"none"}
  /\ status' = [status EXCEPT ![i] = "active", ![old] = "superseded"]

(* Some existing records are archived together.                            *)
Archive(S) ==
  /\ \A i \in S : status[i] # "none"
  /\ status' = [i \in Id |-> IF i \in S THEN "archived" ELSE status[i]]

Next ==
  \/ \E i \in Id : Write(i)
  \/ \E i, old \in Id : Replace(i, old)
  \/ \E S \in SUBSET Id : Archive(S)

Spec == Init /\ [][Next]_status
=============================================================================
