------------------------------ MODULE Promotion ------------------------------
(***************************************************************************)
(* What becomes of the statements of one person: the worker of a provider  *)
(* classifies each turn, compares it with a copy of the live rows of the   *)
(* pool it is for, and reinforces, replaces or adds; meanwhile other       *)
(* threads mirror notes into the same pools and maintenance archives rows. *)
(*                                                                         *)
(* A text is a saying and the form it was written in: letter case and      *)
(* spacing.  The fingerprint and the words are those of the saying.  Which *)
(* pool a turn is for, if any, is Policy's decision.  Rows are numbered as *)
(* they were created.                                                      *)
(***************************************************************************)
EXTENDS Integers, FiniteSets

CONSTANTS
  Sayings,    \* what can be said
  Forms,      \* how it can be written
  Words,      \* the words of each saying
  Length,     \* how many words it has, repetitions counted
  Explicit,   \* the sayings that ask to be remembered
  Transient,  \* the sayings about today, or right now
  Pools,      \* the layers, each with its principal
  MinScores,  \* what promotion_min_score may be, in hundredths
  MaxRows     \* bound: rows ever inserted

ASSUME PromotionAssumption ==
  /\ Words \in [Sayings -> SUBSET Nat] /\ \A s \in Sayings : IsFiniteSet(Words[s])
  /\ Length \in [Sayings -> Nat]
  /\ Explicit \subseteq Sayings /\ Transient \subseteq Sayings
  /\ MinScores \subseteq Nat
  /\ MaxRows \in Nat

Text == [saying : Sayings, form : Forms]
Turn == [text : Text, pool : Pools]
NoTurn == [pool |-> "none"]
Id == 1..MaxRows
None == 0

VARIABLES
  minScore,   \* promotion_min_score
  rows,       \* the durable rows
  born,       \* how many there are
  pc,         \* where consolidate_turn is
  turn,       \* the turn it consolidates
  existing,   \* its copy of the live rows of the pool
  memoryId,   \* the row it has inserted
  overtaken,  \* history: something archived a row of the copy meanwhile
  last        \* history: the turn consolidated last, unless archived since

vars == <<minScore, rows, born, pc, turn, existing, memoryId,
          overtaken, last>>

Blank == [status |-> "none"]
Row == [status : {"active", "superseded", "archived"}, source : {"promotion", "note"},
        turn : Turn, confidence : Nat, supersedes : Id \cup {None}, asOf : Nat]

TypeOK ==
  /\ minScore \in MinScores
  /\ rows \in [Id -> Row \cup {Blank}] /\ born \in 0..MaxRows
  /\ \A i \in Id : rows[i] = Blank <=> i > born
  /\ pc \in {"idle", "fetched", "inserted"}
  /\ turn \in Turn \cup {NoTurn}
  /\ turn = NoTurn <=> pc = "idle"
  /\ existing \subseteq 1..born
  /\ memoryId \in 0..born /\ (memoryId = None <=> pc \in {"idle", "fetched"})
  /\ overtaken \in BOOLEAN
  /\ last \in Turn \cup {NoTurn}

Init ==
  /\ minScore \in MinScores
  /\ rows = [i \in Id |-> Blank] /\ born = 0
  /\ pc = "idle" /\ turn = NoTurn /\ existing = {} /\ memoryId = None
  /\ overtaken = FALSE /\ last = NoTurn
-----------------------------------------------------------------------------
(* governance.                                                             *)
Fingerprint(text) == text.saying

(* classify_turn: how sure it is that the text is worth keeping, or 0.     *)
Confidence(text) ==
  IF text.saying \in Explicit THEN 96
  ELSE IF text.saying \notin Transient /\ Length[text.saying] >= 6 THEN 52
  ELSE 0

Least(m, n) == IF m < n THEN m ELSE n

(* Three quarters of the words of the shorter one are words of the other.  *)
Overlap(t, u) ==
  LET common == Words[t.saying] \cap Words[u.saying]
      least == Least(Cardinality(Words[t.saying]), Cardinality(Words[u.saying]))
  IN common # {} /\ 4 * Cardinality(common) >= 3 * least

(* Mutant: ranked as if it were archived.                                  *)
RankArchived(base) == base \div 4

(* rank_record of a record that is neither reinforced nor read yet.        *)
Rank(base) == base

(* Mutant: fetch_existing_durable without its status.                      *)
FetchAll(pool) == {i \in 1..born : rows[i].turn.pool = pool}

(* fetch_existing_durable                                                  *)
FetchExisting(pool) ==
  {i \in 1..born : rows[i].status = "active" /\ rows[i].turn.pool = pool}

(* Mutant: no fingerprint is compared.                                     *)
ExactForgotten == {}

Exact == {i \in existing : Fingerprint(rows[i].turn.text) = Fingerprint(turn.text)}

Overlapping ==
  {i \in existing : Overlap(rows[i].turn.text, turn.text)
                    /\ rows[i].turn.text # turn.text}

(* The newest of some rows.                                                *)
Newest(S) == IF S = {} THEN None ELSE CHOOSE i \in S : \A j \in S : i >= j

(* Mutant: the rows are read in the order of their creation.               *)
FindSupersededOldest ==
  IF Overlapping = {} THEN None
  ELSE CHOOSE i \in Overlapping : \A j \in Overlapping : i <= j

(* find_superseded takes the first that overlaps, and reads the newest row *)
(* first.                                                                  *)
FindSuperseded == Newest(Overlapping)
-----------------------------------------------------------------------------
(* insert_memory: the row, and the status of the one it supersedes.        *)
InsertMemory(row) ==
  /\ born < MaxRows /\ born' = born + 1
  /\ rows' = [i \in Id |-> IF i = born + 1 THEN row
                           ELSE IF i = row.supersedes
                             THEN [rows[i] EXCEPT !.status = "superseded"]
                           ELSE rows[i]]

(* consolidate_turn fetches the rows that the candidate is compared with.  *)
Candidate(t) ==
  /\ pc = "idle" /\ Confidence(t.text) > 0 /\ Confidence(t.text) >= minScore
  /\ pc' = "fetched" /\ turn' = t
  /\ existing' = FetchExisting(t.pool) /\ overtaken' = FALSE
  /\ UNCHANGED <<minScore, rows, born, memoryId, last>>

(* Mutant: what is reinforced is live again.                               *)
ReinforceRevives ==
  /\ pc = "fetched" /\ Exact # {}
  /\ rows' = [i \in Id |-> IF i \in Exact THEN [rows[i] EXCEPT !.status = "active"]
                           ELSE rows[i]]
  /\ pc' = "idle" /\ turn' = NoTurn /\ existing' = {}
  /\ last' = IF overtaken THEN NoTurn ELSE turn
  /\ overtaken' = FALSE
  /\ UNCHANGED <<minScore, born, memoryId>>

(* The fingerprint is in the copy: the row is reinforced, whatever became  *)
(* of it since.                                                            *)
Reinforce ==
  /\ pc = "fetched" /\ Exact # {}
  /\ pc' = "idle" /\ turn' = NoTurn /\ existing' = {}
  /\ last' = IF overtaken THEN NoTurn ELSE turn
  /\ overtaken' = FALSE
  /\ UNCHANGED <<minScore, rows, born, memoryId>>

Promote ==
  /\ pc = "fetched" /\ Exact = {}
  /\ InsertMemory([status |-> "active", source |-> "promotion", turn |-> turn,
                   confidence |-> Confidence(turn.text),
                   supersedes |-> FindSuperseded, asOf |-> Newest(existing)])
  /\ pc' = "inserted" /\ memoryId' = born + 1 /\ existing' = {} /\ last' = turn
  /\ UNCHANGED <<minScore, turn, overtaken>>

(* A row that is not sure enough is archived again, when its provenance    *)
(* has been recorded.                                                      *)
ArchiveLow ==
  LET sure == rows[memoryId].confidence
  IN /\ pc = "inserted" /\ pc' = "idle" /\ turn' = NoTurn /\ memoryId' = None
     /\ overtaken' = FALSE
     /\ rows' = IF sure < 90 /\ Rank(sure) < minScore
                THEN [rows EXCEPT ![memoryId].status = "archived"] ELSE rows
     /\ UNCHANGED <<minScore, born, existing, last>>

(* The process ends.  The next one goes on with the next turn.             *)
Crash ==
  /\ pc # "idle"
  /\ pc' = "idle" /\ turn' = NoTurn /\ existing' = {} /\ memoryId' = None
  /\ overtaken' = FALSE
  /\ UNCHANGED <<minScore, rows, born, last>>
-----------------------------------------------------------------------------
(* mirror_memory, on a thread of the pool, looks at no other row.          *)
Mirror(t) ==
  /\ InsertMemory([status |-> "active", source |-> "note", turn |-> t,
                   confidence |-> 95, supersedes |-> None, asOf |-> None])
  /\ UNCHANGED <<minScore, pc, turn, existing, memoryId, overtaken, last>>

(* Maintenance, or a purge, archives a row, whatever became of it since it *)
(* was selected.                                                           *)
Archive(i) ==
  /\ rows[i].status \in {"active", "superseded"}
  /\ rows' = [rows EXCEPT ![i].status = "archived"]
  /\ overtaken' = (overtaken \/ i \in existing)
  /\ last' = IF last # NoTurn /\ rows[i].turn.pool = last.pool
                /\ Fingerprint(rows[i].turn.text) = Fingerprint(last.text)
             THEN NoTurn ELSE last
  /\ UNCHANGED <<minScore, born, pc, turn, existing, memoryId>>

Consolidate == Reinforce \/ Promote \/ ArchiveLow

Next ==
  \/ \E t \in Turn : Candidate(t) \/ Mirror(t)
  \/ Consolidate \/ Crash
  \/ \E i \in Id : Archive(i)

Spec == Init /\ [][Next]_vars
-----------------------------------------------------------------------------
Live(i) == rows[i].status = "active"
Promoted(i) == rows[i] # Blank /\ rows[i].source = "promotion"
SamePool(i, j) == rows[i].turn.pool = rows[j].turn.pool

(* However often, in whatever form and in whatever order with others a     *)
(* statement is made, one live row of a pool at most has been promoted     *)
(* from it.                                                                *)
NoRepeats ==
  \A i, j \in 1..born :
    Promoted(i) /\ Live(i) /\ Promoted(j) /\ Live(j) /\ SamePool(i, j)
      /\ Fingerprint(rows[i].turn.text) = Fingerprint(rows[j].turn.text) => i = j

(* What was said last is remembered: the turn has a live row, new or old,  *)
(* unless something else archived it.  That holds of a statement that was  *)
(* made, contradicted and made again, and of one that is promoted below    *)
(* the score that spares a row the second look.                            *)
Remembered ==
  last # NoTurn =>
    \E i \in 1..born :
      /\ Live(i) /\ rows[i].turn.pool = last.pool
      /\ Fingerprint(rows[i].turn.text) = Fingerprint(last.text)

(* A statement replaces the newest one of those it overlaps: one that it   *)
(* was compared with and that is live still, beside it, is older than the  *)
(* one it replaced.                                                        *)
NewestReplaced ==
  \A i, j \in 1..born :
    /\ Promoted(i) /\ j <= rows[i].asOf /\ Live(j) /\ SamePool(i, j)
    /\ Overlap(rows[j].turn.text, rows[i].turn.text)
    => j < rows[i].supersedes

Lifecycle == INSTANCE MemoryLifecycle
             WITH status <- [i \in Id |-> rows[i].status]

(* The worker, the threads that mirror notes, maintenance and a process    *)
(* that ends treat a row as the store promises: nothing deletes one or     *)
(* makes it active again, though the copy it was chosen from may be stale  *)
(* and its second look may come after another archived it, and the row     *)
(* that replaces one is there as soon as that one is not active.           *)
LifecycleKept == Lifecycle!Spec
=============================================================================
