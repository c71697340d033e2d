---------------------------- MODULE SessionBinding ----------------------------
(***************************************************************************)
(* What a provider promises about sessions to a host that defers their     *)
(* boundaries and may lose one to a failed task: it follows the host,      *)
(* sometimes behind it and sometimes skipping a session, but never ahead   *)
(* and never back; a turn is written for the session it is bound to or for *)
(* one that it has yet to reach, never for one it has left; only a turn of *)
(* the session it is bound to is promoted; and once it is closed it does   *)
(* nothing any more.                                                       *)
(***************************************************************************)
EXTENDS Naturals

VARIABLES
  current,    \* the session the host is in
  bound,      \* the session the provider is bound to
  filed,      \* the turns in the table: their session, promoted or not
  open        \* the store is open

vars == <<current, bound, filed, open>>

Init == current = 1 /\ bound = 1 /\ filed = {} /\ open = TRUE

Advance ==
  /\ open /\ current' = current + 1
  /\ UNCHANGED <<bound, filed, open>>

Bind(s) ==
  /\ open /\ bound' = s
  /\ UNCHANGED <<current, filed, open>>

File(s) ==
  /\ open /\ filed' = filed \cup {[session |-> s, promoted |-> s = bound]}
  /\ UNCHANGED <<current, bound, open>>

Close ==
  /\ open /\ open' = FALSE
  /\ UNCHANGED <<current, bound, filed>>

Next == Advance \/ Close \/ \E s \in bound..current : Bind(s) \/ File(s)

Spec == Init /\ [][Next]_vars
=============================================================================
