-------------------------- MODULE Promotion_proofs --------------------------
(***************************************************************************)
(* Proofs about Promotion, for any sayings, forms, pools and scores and    *)
(* any number of rows.                                                     *)
(***************************************************************************)
EXTENDS Promotion, TLAPS, WellFoundedInduction

(* A row is compared with, and replaces, older rows only.                  *)
Past == \A i \in 1..born : rows[i].asOf < i /\ rows[i].supersedes < i

(* While the copy is in use, it is of the right pool, no row of it has been*)
(* archived unless one was overtaken, and nothing live is missing from it  *)
(* except notes that are newer than everything in it.                      *)
Copy ==
  pc = "fetched" =>
    /\ Confidence(turn.text) >= minScore
    /\ \A i \in existing : rows[i].turn.pool = turn.pool
    /\ ~overtaken => \A i \in existing : Live(i)
    /\ \A j \in 1..born :
         /\ Live(j) /\ rows[j].turn.pool = turn.pool
         /\ Promoted(j) \/ \E k \in existing : j <= k
         => j \in existing

Sure == pc = "inserted" => rows[memoryId].confidence >= minScore
-----------------------------------------------------------------------------
(* Some row of a set is the newest.                                        *)
LEMMA NewestIs ==
  ASSUME NEW n \in Nat, NEW S \in SUBSET (1..n)
  PROVE  /\ S = {} => Newest(S) = None
         /\ S # {} => Newest(S) \in S /\ \A j \in S : j <= Newest(S)
<1>1. CASE S = {}
  BY <1>1 DEF Newest
<1>2. CASE S # {}
  <2> DEFINE T == {k \in 0..n : n - k \in S}
  <2>1. T \subseteq Nat
    OBVIOUS
  <2>2. T # {}
    <3>1. PICK j \in S : TRUE
      BY <1>2
    <3>2. n - j \in 0..n /\ n - (n - j) = j
      BY <3>1
    <3> QED  BY <3>1, <3>2
  <2>3. PICK k \in T : \A m \in T : ~(<<m, k>> \in OpToRel(<, Nat))
    <3> HIDE DEF T
    <3> QED  BY <2>1, <2>2, WFMin, NatLessThanWellFounded
  <2>4. \A m \in T : ~(m < k)
    BY <2>1, <2>3 DEF OpToRel
  <2>5. \A j \in S : j <= n - k
    <3> SUFFICES ASSUME NEW j \in S PROVE j <= n - k
      OBVIOUS
    <3>1. j \in 1..n /\ n - j \in 0..n /\ n - (n - j) = j
      OBVIOUS
    <3>2. n - j \in T
      BY <3>1
    <3>3. k \in Nat /\ ~(n - j < k)
      BY <2>1, <2>4, <3>2
    <3> QED  BY <3>1, <3>3
  <2>6. n - k \in S
    OBVIOUS
  <2>7. \E i \in S : \A j \in S : i >= j
    BY <2>5, <2>6
  <2> QED  BY <1>2, <2>7 DEF Newest
<1> QED  BY <1>1, <1>2

LEMMA Sureness == ASSUME NEW t \in Text PROVE Confidence(t) \in Nat
BY DEF Confidence
-----------------------------------------------------------------------------
LEMMA TypeInit == Init => TypeOK
<1> SUFFICES ASSUME Init PROVE TypeOK
  OBVIOUS
<1>1. rows \in [Id -> {Blank}] /\ born = 0 /\ \A i \in Id : rows[i] = Blank /\ i > 0
  BY PromotionAssumption DEF Init, Id
<1>2. born \in 0..MaxRows /\ rows \in [Id -> Row \cup {Blank}]
  BY <1>1, PromotionAssumption
<1>3. /\ minScore \in MinScores /\ pc = "idle" /\ turn = NoTurn /\ existing = {}
      /\ memoryId = 0 /\ overtaken = FALSE /\ last = NoTurn
  BY DEF Init, None
<1>4. existing \subseteq 1..born /\ memoryId \in 0..born
  BY <1>1, <1>3
<1>5. \A i \in Id : rows[i] = Blank <=> i > born
  BY <1>1
<1> QED  BY <1>2, <1>3, <1>4, <1>5 DEF TypeOK, None

(* A new row, and what an insertion leaves of the others.                  *)
LEMMA Inserted ==
  ASSUME TypeOK, NEW row \in Row, row.supersedes \in 0..born, InsertMemory(row)
  PROVE  /\ rows' \in [Id -> Row \cup {Blank}]
         /\ born' \in 0..MaxRows /\ born' \in Id /\ born' = born + 1
         /\ rows'[born'] = row
         /\ \A i \in Id : rows'[i] = Blank <=> i > born'
         /\ \A i \in 1..born :
              rows'[i] = IF i = row.supersedes THEN [rows[i] EXCEPT !.status = "superseded"]
                                               ELSE rows[i]
<1>1. born \in Nat /\ born' = born + 1 /\ born' \in Id /\ 1..born \subseteq Id
  BY PromotionAssumption DEF TypeOK, InsertMemory, Id
<1>2. ASSUME NEW r \in Row PROVE r # Blank
  BY <1>2 DEF Row, Blank
<1>3. ASSUME NEW i \in 1..born
      PROVE  rows[i] \in Row /\ [rows[i] EXCEPT !.status = "superseded"] \in Row
  <2>1. rows[i] \in Row
    BY <1>1, <1>3 DEF TypeOK
  <2> QED  BY <2>1 DEF Row
<1>4. ASSUME NEW i \in Id
      PROVE  rows'[i] = IF i = born + 1 THEN row
                        ELSE IF i = row.supersedes
                          THEN [rows[i] EXCEPT !.status = "superseded"] ELSE rows[i]
  BY <1>4 DEF InsertMemory
<1>5. ASSUME NEW i \in Id, i > born + 1 PROVE rows'[i] = Blank
  <2>1. rows[i] = Blank /\ i # row.supersedes /\ i # born + 1
    BY <1>1, <1>5 DEF TypeOK, Id
  <2> QED  BY <1>4, <2>1
<1>6. ASSUME NEW i \in 1..born
      PROVE  /\ rows'[i] = IF i = row.supersedes
                           THEN [rows[i] EXCEPT !.status = "superseded"] ELSE rows[i]
             /\ rows'[i] \in Row
  <2>1. i \in Id /\ i # born + 1
    BY <1>1, <1>6
  <2> QED  BY <1>3, <1>4, <2>1
<1>7. rows'[born'] = row
  BY <1>1, <1>4
<1>8. \A i \in Id : i <= born' => rows'[i] \in Row
  <2> SUFFICES ASSUME NEW i \in Id, i <= born' PROVE rows'[i] \in Row
    OBVIOUS
  <2>1. i \in 1..born \/ i = born'
    BY <1>1 DEF Id
  <2> QED  BY <1>6, <1>7, <2>1
<1>9. DOMAIN rows' = Id /\ rows' = [i \in Id |-> rows'[i]]
  BY DEF InsertMemory
<1>10. rows' \in [Id -> Row \cup {Blank}]
  BY <1>1, <1>5, <1>8, <1>9 DEF Id
<1>11. \A i \in Id : rows'[i] = Blank <=> i > born'
  BY <1>1, <1>2, <1>5, <1>8 DEF Id
<1> QED  BY <1>1, <1>6, <1>7, <1>10, <1>11, PromotionAssumption DEF Id

(* The rows that consolidate_turn and mirror_memory insert.                *)
MirroredRow(t) == [status |-> "active", source |-> "note", turn |-> t,
                   confidence |-> 95, supersedes |-> None, asOf |-> None]
PromotedRow ==
  [status |-> "active", source |-> "promotion", turn |-> turn,
   confidence |-> Confidence(turn.text),
   supersedes |-> FindSuperseded, asOf |-> Newest(existing)]

LEMMA NewRows ==
  ASSUME TypeOK
  PROVE  /\ \A t \in Turn : MirroredRow(t) \in Row /\ MirroredRow(t).supersedes \in 0..born
         /\ pc = "fetched" =>
              /\ turn \in Turn /\ PromotedRow \in Row
              /\ FindSuperseded \in Overlapping \cup {None} /\ FindSuperseded \in 0..born
              /\ Newest(existing) \in 0..born
<1>1. born \in Nat /\ born <= MaxRows /\ MaxRows \in Nat /\ existing \subseteq 1..born
  BY PromotionAssumption DEF TypeOK
<1>2. ASSUME NEW t \in Turn
      PROVE  MirroredRow(t) \in Row /\ MirroredRow(t).supersedes \in 0..born
  BY <1>1 DEF MirroredRow, Row, None
<1>3. ASSUME NEW S \in SUBSET (1..born)
      PROVE  Newest(S) \in S \cup {None} /\ Newest(S) \in 0..born
  <2>1. S = {} => Newest(S) = None
    BY <1>1, NewestIs
  <2>2. S # {} => Newest(S) \in S
    BY <1>1, NewestIs
  <2>3. None \in 0..born /\ S \subseteq 0..born
    BY <1>1 DEF None
  <2> QED  BY <2>1, <2>2, <2>3
<1>4. CASE pc = "fetched"
  <2>1. turn \in Turn
    BY <1>4 DEF TypeOK
  <2>2. Overlapping \in SUBSET (1..born) /\ existing \in SUBSET (1..born)
    BY <1>1 DEF Overlapping
  <2>3. /\ FindSuperseded \in Overlapping \cup {None} /\ FindSuperseded \in 0..born
        /\ Newest(existing) \in 0..born
    BY <1>3, <2>2 DEF FindSuperseded
  <2>4. turn.text \in Text /\ Confidence(turn.text) \in Nat
    BY <2>1, Sureness DEF Turn
  <2>5. FindSuperseded \in Id \cup {None} /\ Newest(existing) \in Nat
    BY <1>1, <2>3 DEF Id, None
  <2>6. PromotedRow \in Row
    BY <2>1, <2>4, <2>5 DEF PromotedRow, Row
  <2> QED  BY <1>2, <2>1, <2>3, <2>6
<1> QED  BY <1>2, <1>4

(* A change of status.                                                     *)
LEMMA Restatused ==
  ASSUME TypeOK, NEW i \in Id, i <= born, NEW s \in {"active", "superseded", "archived"},
         rows' = [rows EXCEPT ![i].status = s], born' = born
  PROVE  /\ rows' \in [Id -> Row \cup {Blank}]
         /\ \A j \in Id : rows'[j] = Blank <=> j > born'
         /\ rows'[i] = [rows[i] EXCEPT !.status = s]
         /\ \A j \in Id \ {i} : rows'[j] = rows[j]
<1>1. born \in Nat /\ rows[i] # Blank /\ rows[i] \in Row
  BY PromotionAssumption DEF TypeOK, Id
<1>2. /\ rows'[i] = [rows[i] EXCEPT !.status = s]
      /\ \A j \in Id \ {i} : rows'[j] = rows[j]
  BY DEF TypeOK
<1>3. rows'[i] \in Row
  BY <1>1, <1>2 DEF Row
<1>4. rows'[i] # Blank
  BY <1>3 DEF Row, Blank
<1> QED  BY <1>1, <1>2, <1>3, <1>4 DEF TypeOK, Id

LEMMA TypeStep == TypeOK /\ [Next]_vars => TypeOK'
<1> SUFFICES ASSUME TypeOK, [Next]_vars PROVE TypeOK'
  OBVIOUS
<1> USE PromotionAssumption DEF None
<1>1. ASSUME NEW t \in Turn, Candidate(t) PROVE TypeOK'
  <2>1. t # NoTurn
    BY DEF Turn, NoTurn
  <2> QED  BY <1>1, <2>1 DEF Candidate, FetchExisting, TypeOK
<1>2. CASE Reinforce
  BY <1>2 DEF Reinforce, TypeOK
<1>3. CASE Promote
  <2>1. pc = "fetched" /\ InsertMemory(PromotedRow) /\ pc' = "inserted"
    BY <1>3 DEF Promote, PromotedRow
  <2>2. PromotedRow \in Row /\ PromotedRow.supersedes \in 0..born /\ turn \in Turn
    BY <2>1, NewRows DEF PromotedRow
  <2>3. /\ rows' \in [Id -> Row \cup {Blank}] /\ born' \in 0..MaxRows
        /\ \A i \in Id : rows'[i] = Blank <=> i > born'
        /\ born' = born + 1
    BY <2>1, <2>2, Inserted
  <2> HIDE DEF None
  <2>4. memoryId' \in 0..born' /\ memoryId' # None /\ existing' \subseteq 1..born'
    BY <1>3, <2>3 DEF Promote, TypeOK, None
  <2> QED  BY <1>3, <2>1, <2>2, <2>3, <2>4 DEF Promote, TypeOK
<1>4. CASE ArchiveLow
  <2>1. /\ pc = "inserted" /\ pc' = "idle" /\ turn' = NoTurn /\ memoryId' = 0
        /\ memoryId \in Id /\ memoryId <= born
        /\ rows' = [rows EXCEPT ![memoryId].status = "archived"] \/ rows' = rows
        /\ UNCHANGED <<minScore, born, existing, last>> /\ overtaken' = FALSE
    BY <1>4 DEF ArchiveLow, TypeOK, Id
  <2>2. rows' \in [Id -> Row \cup {Blank}] /\ \A i \in Id : rows'[i] = Blank <=> i > born'
    BY <2>1, Restatused DEF TypeOK
  <2>3. memoryId' \in 0..born' /\ existing' \subseteq 1..born'
    BY <2>1 DEF TypeOK
  <2> QED  BY <2>1, <2>2, <2>3 DEF TypeOK
<1>5. CASE Crash
  <2>1. memoryId' \in 0..born' /\ existing' \subseteq 1..born'
    BY <1>5 DEF Crash, TypeOK
  <2> QED  BY <1>5, <2>1 DEF Crash, TypeOK
<1>6. ASSUME NEW t \in Turn, Mirror(t) PROVE TypeOK'
  <2>1. InsertMemory(MirroredRow(t))
    BY <1>6 DEF Mirror, MirroredRow
  <2>2. /\ rows' \in [Id -> Row \cup {Blank}] /\ born' \in 0..MaxRows
        /\ \A i \in Id : rows'[i] = Blank <=> i > born'
        /\ born' = born + 1
    BY <2>1, NewRows, Inserted
  <2>3. memoryId' \in 0..born' /\ existing' \subseteq 1..born'
    BY <1>6, <2>2 DEF Mirror, TypeOK
  <2> QED  BY <1>6, <2>2, <2>3 DEF Mirror, TypeOK
<1>7. ASSUME NEW i \in Id, Archive(i) PROVE TypeOK'
  <2>1. i <= born
    <3>1. rows[i] # Blank
      BY <1>7 DEF Archive, Blank
    <3> QED  BY <3>1 DEF TypeOK, Id
  <2>2. rows' = [rows EXCEPT ![i].status = "archived"] /\ born' = born
    BY <1>7 DEF Archive
  <2>3. rows' \in [Id -> Row \cup {Blank}] /\ \A j \in Id : rows'[j] = Blank <=> j > born'
    BY <2>1, <2>2, Restatused
  <2>4. last' \in Turn \cup {NoTurn} /\ overtaken' \in BOOLEAN
    BY <1>7 DEF Archive, TypeOK
  <2> QED  BY <1>7, <2>3, <2>4 DEF Archive, TypeOK
<1>8. CASE UNCHANGED vars
  BY <1>8 DEF vars, TypeOK
<1> QED
  BY <1>1, <1>2, <1>3, <1>4, <1>5, <1>6, <1>7, <1>8 DEF Next, Consolidate

(* Every variable keeps its type, and rows are only ever added (TypeOK).   *)
THEOREM Typed == Spec => []TypeOK
BY TypeInit, TypeStep, PTL DEF Spec
-----------------------------------------------------------------------------
(* What a step leaves of the rows that are there: they only ever stop      *)
(* being live.                                                             *)
Kept ==
  /\ 1..born \subseteq 1..born'
  /\ \A i \in 1..born :
       /\ rows'[i].turn = rows[i].turn /\ rows'[i].source = rows[i].source
       /\ rows'[i].asOf = rows[i].asOf /\ rows'[i].supersedes = rows[i].supersedes
       /\ rows'[i].confidence = rows[i].confidence
       /\ rows'[i].status = "active" => rows[i].status = "active"
       /\ rows[i] \in Row /\ rows'[i] \in Row

LEMMA Restated ==
  ASSUME NEW r \in Row, NEW s \in {"superseded", "archived"},
         NEW q, q = [r EXCEPT !.status = s]
  PROVE  /\ q.turn = r.turn /\ q.source = r.source /\ q.asOf = r.asOf
         /\ q.supersedes = r.supersedes /\ q.confidence = r.confidence
         /\ q.status = s /\ q \in Row
BY DEF Row

LEMMA KeptByInsertion ==
  ASSUME TypeOK, NEW row \in Row, row.supersedes \in 0..born, InsertMemory(row)
  PROVE  Kept
<1>1. born \in Nat /\ born' = born + 1 /\ born <= MaxRows /\ MaxRows \in Nat
  BY Inserted, PromotionAssumption DEF TypeOK
<1>2. ASSUME NEW i \in 1..born
      PROVE  rows[i] \in Row
  BY <1>1 DEF TypeOK, Id
<1>3. \A i \in 1..born :
        rows'[i] = IF i = row.supersedes THEN [rows[i] EXCEPT !.status = "superseded"]
                                         ELSE rows[i]
  BY Inserted
<1>4. ASSUME NEW i \in 1..born
      PROVE  /\ rows'[i].turn = rows[i].turn /\ rows'[i].source = rows[i].source
             /\ rows'[i].asOf = rows[i].asOf /\ rows'[i].supersedes = rows[i].supersedes
             /\ rows'[i].confidence = rows[i].confidence
             /\ rows'[i].status = "active" => rows[i].status = "active"
             /\ rows[i] \in Row /\ rows'[i] \in Row
  <2>1. CASE i = row.supersedes
    <3>1. rows'[i] = [rows[i] EXCEPT !.status = "superseded"] /\ rows[i] \in Row
      BY <1>2, <1>3, <2>1
    <3> QED  BY <3>1, Restated
  <2>2. CASE i # row.supersedes
    BY <1>2, <1>3, <2>2
  <2> QED  BY <2>1, <2>2
<1>5. 1..born \subseteq 1..born'
  BY <1>1
<1> QED  BY <1>4, <1>5 DEF Kept

LEMMA KeptByArchive ==
  ASSUME TypeOK, NEW i \in Id, i <= born, born' = born,
         rows' = [rows EXCEPT ![i].status = "archived"]
  PROVE  Kept /\ rows'[i].status = "archived" /\ \A j \in Id \ {i} : rows'[j] = rows[j]
<1>1. born \in Nat /\ born <= MaxRows /\ MaxRows \in Nat
  BY PromotionAssumption DEF TypeOK
<1>2. ASSUME NEW j \in 1..born
      PROVE  rows[j] \in Row /\ j \in Id
  BY <1>1 DEF TypeOK, Id
<1>3. /\ rows'[i] = [rows[i] EXCEPT !.status = "archived"]
      /\ \A j \in Id \ {i} : rows'[j] = rows[j]
  BY Restatused
<1>4. i \in 1..born /\ rows[i] \in Row
  BY <1>1, <1>2 DEF Id
<1>5. rows'[i].status = "archived"
  BY <1>3, <1>4, Restated
<1> QED  BY <1>2, <1>3, <1>4, <1>5, Restated DEF Kept

LEMMA KeptStill ==
  ASSUME TypeOK, UNCHANGED <<rows, born>>
  PROVE  Kept
BY PromotionAssumption DEF TypeOK, Kept, Id

LEMMA ArchivedIsBorn ==
  ASSUME TypeOK, NEW i \in Id, Archive(i)
  PROVE  i <= born
<1>1. rows[i] # Blank
  BY DEF Archive, Blank
<1> QED  BY <1>1 DEF TypeOK, Id

(* The two steps that insert, and what they insert.                        *)
LEMMA Inserting ==
  ASSUME TypeOK
  PROVE  /\ \A t \in Turn : Mirror(t) =>
              Kept /\ born' = born + 1 /\ rows'[born'] = MirroredRow(t)
         /\ Promote =>
              /\ Kept /\ born' = born + 1 /\ rows'[born'] = PromotedRow
              /\ FindSuperseded # None => rows'[FindSuperseded].status = "superseded"
<1>1. ASSUME NEW t \in Turn, Mirror(t)
      PROVE  Kept /\ born' = born + 1 /\ rows'[born'] = MirroredRow(t)
  <2>1. InsertMemory(MirroredRow(t)) /\ MirroredRow(t) \in Row
        /\ MirroredRow(t).supersedes \in 0..born
    BY <1>1, NewRows DEF Mirror, MirroredRow
  <2> QED  BY <2>1, Inserted, KeptByInsertion
<1>2. CASE Promote
  <2>1. pc = "fetched" /\ InsertMemory(PromotedRow)
    BY <1>2 DEF Promote, PromotedRow
  <2>2. PromotedRow \in Row /\ PromotedRow.supersedes = FindSuperseded
        /\ FindSuperseded \in 0..born
    BY <2>1, NewRows DEF PromotedRow
  <2>3. Kept /\ born' = born + 1 /\ rows'[born'] = PromotedRow
    BY <2>1, <2>2, Inserted, KeptByInsertion
  <2>4. ASSUME FindSuperseded # None
        PROVE  rows'[FindSuperseded].status = "superseded"
    <3>1. born \in Nat /\ FindSuperseded \in 1..born
      BY <2>2, <2>4, PromotionAssumption DEF TypeOK, None
    <3>2. rows'[FindSuperseded] = [rows[FindSuperseded] EXCEPT !.status = "superseded"]
      BY <2>1, <2>2, <3>1, Inserted
    <3>3. rows[FindSuperseded] \in Row
      BY <2>3, <3>1 DEF Kept
    <3> QED  BY <3>2, <3>3, Restated
  <2> QED  BY <1>1, <2>3, <2>4
<1> QED  BY <1>1, <1>2
-----------------------------------------------------------------------------
LEMMA PastInit == Init => Past
BY DEF Init, Past

LEMMA StepKeeps ==
  TypeOK /\ [Next]_vars =>
    /\ Kept
    /\ \/ born' = born
       \/ \E t \in Turn : Mirror(t) /\ born' = born + 1 /\ rows'[born'] = MirroredRow(t)
       \/ Promote /\ born' = born + 1 /\ rows'[born'] = PromotedRow
<1> SUFFICES ASSUME TypeOK, [Next]_vars
             PROVE  /\ Kept
                    /\ \/ born' = born
                       \/ \E t \in Turn : /\ Mirror(t) /\ born' = born + 1
                                           /\ rows'[born'] = MirroredRow(t)
                       \/ Promote /\ born' = born + 1 /\ rows'[born'] = PromotedRow
  OBVIOUS
<1>1. CASE (\E t \in Turn : Candidate(t)) \/ Reinforce \/ Crash \/ UNCHANGED vars
  <2>1. UNCHANGED <<rows, born>>
    BY <1>1 DEF Candidate, Reinforce, Crash, vars
  <2> QED  BY <2>1, KeptStill
<1>2. ASSUME NEW t \in Turn, Mirror(t)
      PROVE  Kept /\ born' = born + 1 /\ rows'[born'] = MirroredRow(t)
  BY <1>2, Inserting
<1>3. CASE Promote
  BY <1>3, Inserting
<1>4. CASE ArchiveLow
  <2>1. CASE rows' = rows
    BY <1>4, <2>1, KeptStill DEF ArchiveLow
  <2>2. CASE rows' = [rows EXCEPT ![memoryId].status = "archived"]
    <3>1. memoryId \in Id /\ memoryId <= born /\ born' = born
      BY <1>4, PromotionAssumption DEF ArchiveLow, TypeOK, Id, None
    <3> QED  BY <2>2, <3>1, KeptByArchive
  <2> QED  BY <1>4, <2>1, <2>2 DEF ArchiveLow
<1>5. ASSUME NEW i \in Id, Archive(i) PROVE Kept /\ born' = born
  BY <1>5, ArchivedIsBorn, KeptByArchive DEF Archive
<1> QED
  BY <1>1, <1>2, <1>3, <1>4, <1>5 DEF Next, Consolidate

LEMMA PastStep == TypeOK /\ Past /\ [Next]_vars => Past'
<1> SUFFICES ASSUME TypeOK, Past, [Next]_vars PROVE Past'
  OBVIOUS
<1>1. born \in Nat /\ Kept
  BY StepKeeps, PromotionAssumption DEF TypeOK
<1>2. \A i \in 1..born : rows'[i].asOf < i /\ rows'[i].supersedes < i
  BY <1>1 DEF Past, Kept
<1>3. CASE born' = born
  BY <1>2, <1>3 DEF Past
<1>4. ASSUME NEW t \in Turn, born' = born + 1, rows'[born'] = MirroredRow(t)
      PROVE  Past'
  <2>1. rows'[born'].asOf = 0 /\ rows'[born'].supersedes = 0
    BY <1>4 DEF MirroredRow, None
  <2> QED  BY <1>1, <1>2, <1>4, <2>1 DEF Past
<1>5. CASE Promote /\ born' = born + 1 /\ rows'[born'] = PromotedRow
  <2>1. rows'[born'].asOf \in 0..born /\ rows'[born'].supersedes \in 0..born
    BY <1>5, NewRows DEF Promote, PromotedRow
  <2> QED  BY <1>1, <1>2, <1>5, <2>1 DEF Past
<1> QED  BY <1>3, <1>4, <1>5, StepKeeps
-----------------------------------------------------------------------------
LEMMA SureStep == TypeOK /\ Copy /\ Sure /\ [Next]_vars => Sure'
<1> SUFFICES ASSUME TypeOK, Copy, Sure, [Next]_vars, pc' = "inserted"
             PROVE  rows'[memoryId'].confidence >= minScore'
  BY DEF Sure
<1>1. CASE Promote
  <2>1. memoryId' = born' /\ rows'[born'] = PromotedRow /\ minScore' = minScore
    BY <1>1, Inserting DEF Promote
  <2> QED  BY <1>1, <2>1 DEF Promote, Copy, PromotedRow
<1>2. CASE ~Promote
  <2>1. pc = "inserted" /\ memoryId' = memoryId /\ minScore' = minScore
    BY <1>2 DEF Next, Consolidate, Candidate, Reinforce, ArchiveLow, Crash, Mirror, Archive,
                vars
  <2>2. memoryId \in 1..born
    BY <2>1, PromotionAssumption DEF TypeOK, None
  <2> QED  BY <2>1, <2>2, StepKeeps DEF Kept, Sure
<1> QED  BY <1>1, <1>2
-----------------------------------------------------------------------------
LEMMA CopyStep == TypeOK /\ Copy /\ [Next]_vars => Copy'
<1> SUFFICES ASSUME TypeOK, Copy, [Next]_vars, pc' = "fetched"
             PROVE  /\ Confidence(turn'.text) >= minScore'
                    /\ \A i \in existing' : rows'[i].turn.pool = turn'.pool
                    /\ ~overtaken' => \A i \in existing' : rows'[i].status = "active"
                    /\ \A j \in 1..born' :
                         /\ rows'[j].status = "active" /\ rows'[j].turn.pool = turn'.pool
                         /\ Promoted(j)' \/ \E k \in existing' : j <= k
                         => j \in existing'
  BY DEF Copy, Live
<1>1. ASSUME NEW t \in Turn, Candidate(t)
      PROVE  /\ turn' = t /\ UNCHANGED <<minScore, rows, born>> /\ ~overtaken'
             /\ existing' = FetchExisting(t.pool) /\ Confidence(t.text) >= minScore
  BY <1>1 DEF Candidate
<1>2. CASE \E t \in Turn : Candidate(t)
  BY <1>1, <1>2 DEF FetchExisting
<1>3. CASE \E t \in Turn : Mirror(t)
  <2>1. PICK t \in Turn : Mirror(t)
    BY <1>3
  <2>2. Kept /\ born' = born + 1 /\ rows'[born'] = MirroredRow(t)
    BY <2>1, Inserting
  <2>3. /\ pc = "fetched" /\ UNCHANGED <<minScore, turn, existing, overtaken>>
        /\ born \in Nat /\ existing \subseteq 1..born
    BY <2>1, PromotionAssumption DEF Mirror, TypeOK
  <2>4. ASSUME NEW i \in existing, ~overtaken PROVE rows'[i].status = "active"
    <3>1. rows[i].status = "active" /\ i \in 1..born
      BY <2>3, <2>4 DEF Copy, Live
    <3>2. i \in Id /\ i # born + 1 /\ InsertMemory(MirroredRow(t)) /\ i # None
      BY <2>1, <2>3, <3>1, PromotionAssumption DEF Mirror, MirroredRow, TypeOK, Id, None
    <3>3. rows'[i] = rows[i]
      BY <3>2 DEF InsertMemory, MirroredRow
    <3> QED  BY <3>1, <3>3
  <2>5. ASSUME NEW j \in 1..born', rows'[j].status = "active",
               rows'[j].turn.pool = turn.pool,
               Promoted(j)' \/ \E k \in existing : j <= k
        PROVE  j \in existing
    <3>1. j # born'
      BY <2>2, <2>3, <2>5 DEF MirroredRow, Promoted
    <3>2. j \in 1..born
      BY <2>2, <2>3, <3>1
    <3>3. Live(j) /\ rows[j].turn.pool = turn.pool /\ rows[j].source = rows'[j].source
          /\ rows[j] # Blank
      BY <2>2, <2>5, <3>2 DEF Kept, Live, Row, Blank
    <3> QED  BY <2>3, <2>5, <3>2, <3>3 DEF Copy, Promoted
  <2> QED  BY <2>2, <2>3, <2>4, <2>5 DEF Copy, Kept
<1>4. CASE \E i \in Id : Archive(i)
  <2>1. PICK i \in Id : Archive(i)
    BY <1>4
  <2>2. /\ Kept /\ born' = born
        /\ \A j \in Id \ {i} : rows'[j] = rows[j]
    BY <2>1, ArchivedIsBorn, KeptByArchive DEF Archive
  <2>3. /\ pc = "fetched" /\ UNCHANGED <<minScore, turn, existing>>
        /\ overtaken' = (overtaken \/ i \in existing)
        /\ born \in Nat /\ existing \subseteq 1..born /\ existing \subseteq Id
    BY <2>1, PromotionAssumption DEF Archive, TypeOK, Id
  <2>4. ASSUME NEW k \in existing, ~overtaken' PROVE rows'[k].status = "active"
    BY <2>2, <2>3, <2>4 DEF Copy, Live
  <2>5. ASSUME NEW j \in 1..born, rows'[j].status = "active",
               rows'[j].turn.pool = turn.pool,
               Promoted(j)' \/ \E k \in existing : j <= k
        PROVE  j \in existing
    <3>1. Live(j) /\ rows[j].turn.pool = turn.pool /\ rows[j].source = rows'[j].source
          /\ rows[j] # Blank
      BY <2>2, <2>5 DEF Kept, Live, Row, Blank
    <3> QED  BY <2>3, <2>5, <3>1 DEF Copy, Promoted
  <2> QED  BY <2>2, <2>3, <2>4, <2>5 DEF Copy, Kept
<1>5. CASE UNCHANGED vars
  BY <1>5 DEF vars, Copy, Live, Promoted
<1> QED
  BY <1>2, <1>3, <1>4, <1>5 DEF Next, Consolidate, Reinforce, Promote, ArchiveLow, Crash
-----------------------------------------------------------------------------
LEMMA NoRepeatsStep == TypeOK /\ Copy /\ NoRepeats /\ [Next]_vars => NoRepeats'
<1> DEFINE Is(i) == rows'[i] # Blank /\ rows'[i].source = "promotion"
                      /\ rows'[i].status = "active"
           Same(i, j) ==
             /\ rows'[i].turn.pool = rows'[j].turn.pool
             /\ Fingerprint(rows'[i].turn.text) = Fingerprint(rows'[j].turn.text)
<1> SUFFICES ASSUME TypeOK, Copy, NoRepeats, [Next]_vars,
                    NEW i \in 1..born', NEW j \in 1..born', Is(i), Is(j), Same(i, j)
             PROVE  i = j
  BY DEF NoRepeats, Promoted, Live, SamePool
<1>1. Kept /\ born \in Nat
  BY StepKeeps, PromotionAssumption DEF TypeOK
<1>2. ASSUME NEW k \in 1..born, Is(k)
      PROVE  Promoted(k) /\ Live(k) /\ rows'[k].turn = rows[k].turn
  BY <1>1, <1>2 DEF Kept, Promoted, Live, Row, Blank
<1>3. CASE i \in 1..born /\ j \in 1..born
  BY <1>2, <1>3 DEF NoRepeats, SamePool
<1>4. CASE born' = born
  BY <1>3, <1>4
<1>5. ASSUME NEW t \in Turn, born' = born + 1, rows'[born'] = MirroredRow(t)
      PROVE  i = j
  <2>1. ~Is(born')
    BY <1>5 DEF MirroredRow
  <2>2. i \in 1..born /\ j \in 1..born
    BY <1>1, <1>5, <2>1
  <2> QED  BY <1>3, <2>2
<1>6. CASE Promote /\ born' = born + 1 /\ rows'[born'] = PromotedRow
  <2>1. pc = "fetched" /\ Exact = {} /\ rows'[born'].turn = turn
    BY <1>6 DEF Promote, PromotedRow
  <2>2. ASSUME NEW k \in 1..born, Is(k), Same(k, born') PROVE FALSE
    <3>1. Promoted(k) /\ Live(k) /\ rows'[k].turn = rows[k].turn
      BY <1>2, <2>2
    <3>2. /\ rows[k].turn.pool = turn.pool
          /\ Fingerprint(rows[k].turn.text) = Fingerprint(turn.text)
      BY <2>1, <2>2, <3>1
    <3>3. k \in existing
      BY <2>1, <3>1, <3>2 DEF Copy
    <3> QED  BY <2>1, <3>2, <3>3 DEF Exact
  <2>3. (i \in 1..born \/ i = born') /\ (j \in 1..born \/ j = born')
    BY <1>1, <1>6
  <2> QED  BY <1>3, <2>2, <2>3
<1> QED  BY <1>4, <1>5, <1>6, StepKeeps
-----------------------------------------------------------------------------
LEMMA NewestStep ==
  TypeOK /\ Past /\ Copy /\ NewestReplaced /\ [Next]_vars => NewestReplaced'
<1> SUFFICES ASSUME TypeOK, Past, Copy, NewestReplaced, [Next]_vars,
                    NEW i \in 1..born', NEW j \in 1..born',
                    rows'[i] # Blank, rows'[i].source = "promotion",
                    j <= rows'[i].asOf, rows'[j].status = "active",
                    rows'[i].turn.pool = rows'[j].turn.pool,
                    Overlap(rows'[j].turn.text, rows'[i].turn.text)
             PROVE  j < rows'[i].supersedes
  BY DEF NewestReplaced, Promoted, Live, SamePool
<1>1. Kept /\ born \in Nat /\ existing \in SUBSET (1..born)
  BY StepKeeps, PromotionAssumption DEF TypeOK
<1>2. CASE i \in 1..born
  <2>1. /\ rows[i] # Blank /\ rows'[i].turn = rows[i].turn
        /\ rows'[i].source = rows[i].source /\ rows'[i].asOf = rows[i].asOf
        /\ rows'[i].supersedes = rows[i].supersedes /\ rows[i].asOf < i
        /\ rows[i].asOf \in Nat
    BY <1>1, <1>2 DEF Kept, Past, Row, Blank
  <2>2. j \in 1..born
    BY <1>1, <1>2, <2>1
  <2>3. Live(j) /\ rows'[j].turn = rows[j].turn
    BY <1>1, <2>2 DEF Kept, Live
  <2> QED  BY <1>2, <2>1, <2>2, <2>3 DEF NewestReplaced, Promoted, SamePool
<1>3. CASE born' = born
  BY <1>2, <1>3
<1>4. ASSUME NEW t \in Turn, born' = born + 1, rows'[born'] = MirroredRow(t)
      PROVE  j < rows'[i].supersedes
  <2>1. i # born'
    BY <1>4 DEF MirroredRow
  <2> QED  BY <1>1, <1>2, <1>4, <2>1
<1>5. CASE Promote /\ born' = born + 1 /\ rows'[born'] = PromotedRow /\ i = born'
  <2>1. /\ pc = "fetched" /\ Exact = {} /\ rows'[i].turn = turn
        /\ rows'[i].asOf = Newest(existing) /\ rows'[i].supersedes = FindSuperseded
        /\ FindSuperseded \in Overlapping \cup {None} /\ FindSuperseded \in 0..born
        /\ FindSuperseded # None => rows'[FindSuperseded].status = "superseded"
    BY <1>5, NewRows, Inserting DEF Promote, PromotedRow
  <2>2. existing # {}
    BY <1>1, <2>1, NewestIs DEF None
  <2>3. Newest(existing) \in existing /\ j <= Newest(existing)
    BY <1>1, <2>1, <2>2, NewestIs
  <2>4. j \in 1..born
    <3>1. Newest(existing) \in 1..born /\ j \in 1..(born + 1)
      BY <1>1, <1>5, <2>3
    <3> QED  BY <1>1, <2>3, <3>1
  <2>5. Live(j) /\ rows'[j].turn = rows[j].turn
    BY <1>1, <2>4 DEF Kept, Live
  <2>6. j \in existing
    BY <2>1, <2>3, <2>4, <2>5 DEF Copy
  <2>7. rows[j].turn.text # turn.text
    BY <2>1, <2>6 DEF Exact
  <2>8. j \in Overlapping /\ Overlapping \in SUBSET (1..born)
    BY <1>1, <2>1, <2>5, <2>6, <2>7 DEF Overlapping
  <2>9. FindSuperseded \in Overlapping /\ j <= FindSuperseded
    BY <1>1, <2>8, NewestIs DEF FindSuperseded
  <2>10. j # FindSuperseded
    BY <1>1, <2>1, <2>8, <2>9 DEF None
  <2> QED  BY <1>1, <2>1, <2>4, <2>9, <2>10
<1>6. CASE Promote /\ born' = born + 1 /\ rows'[born'] = PromotedRow
  <2>1. i \in 1..born \/ i = born'
    BY <1>1, <1>6
  <2> QED  BY <1>2, <1>5, <1>6, <2>1
<1> QED  BY <1>3, <1>4, <1>6, StepKeeps
-----------------------------------------------------------------------------
(* A live row that says what a turn said.                                  *)
Says(i, t) ==
  Live(i) /\ rows[i].turn.pool = t.pool /\ Fingerprint(rows[i].turn.text) = Fingerprint(t.text)

LEMMA RememberedStep ==
  TypeOK /\ Copy /\ Sure /\ Remembered /\ [Next]_vars => Remembered'
<1> SUFFICES ASSUME TypeOK, Copy, Sure, Remembered, [Next]_vars, last' # NoTurn
             PROVE  \E i \in 1..born' : Says(i, last)'
  BY DEF Remembered, Says
<1>1. Kept /\ born \in Nat
  BY StepKeeps, PromotionAssumption DEF TypeOK
<1>2. last # NoTurn => \E i \in 1..born : Says(i, last)
  BY DEF Remembered, Says
<1>3. CASE UNCHANGED <<rows, born, last>>
  BY <1>2, <1>3 DEF Says, Live
<1>4. CASE Reinforce
  <2>1. pc = "fetched" /\ ~overtaken /\ last' = turn /\ UNCHANGED <<rows, born>>
    BY <1>4 DEF Reinforce
  <2>2. PICK i \in existing : Fingerprint(rows[i].turn.text) = Fingerprint(turn.text)
    BY <1>4 DEF Reinforce, Exact
  <2>3. Live(i) /\ rows[i].turn.pool = turn.pool /\ i \in 1..born
    BY <2>1 DEF Copy, TypeOK
  <2> QED  BY <2>1, <2>2, <2>3 DEF Says, Live
<1>5. CASE Promote
  <2>1. born' = born + 1 /\ rows'[born'] = PromotedRow /\ last' = turn
    BY <1>5, Inserting DEF Promote
  <2>2. rows'[born'].status = "active" /\ rows'[born'].turn = last'
    BY <2>1 DEF PromotedRow
  <2>3. born' \in 1..born'
    BY <1>1, <2>1
  <2> QED  BY <2>2, <2>3 DEF Says, Live
<1>6. CASE ArchiveLow
  <2>1. rows[memoryId].confidence >= minScore /\ memoryId \in 1..born
    BY <1>6, PromotionAssumption DEF ArchiveLow, Sure, TypeOK, None
  <2>2. rows[memoryId].confidence \in Nat /\ minScore \in Nat
    BY <1>1, <2>1, PromotionAssumption DEF Kept, Row, TypeOK
  <2>3. UNCHANGED <<rows, born, last>>
    BY <1>6, <2>1, <2>2 DEF ArchiveLow, Rank
  <2> QED  BY <1>3, <2>3
<1>7. CASE \E t \in Turn : Mirror(t)
  <2>1. PICK t \in Turn : Mirror(t)
    BY <1>7
  <2>2. born' = born + 1 /\ last' = last
    BY <2>1, Inserting DEF Mirror
  <2>3. PICK i \in 1..born : Says(i, last)
    BY <1>2, <2>2
  <2>4. i \in Id /\ i # born + 1 /\ i # None /\ InsertMemory(MirroredRow(t))
    BY <1>1, <2>1, PromotionAssumption DEF Mirror, MirroredRow, TypeOK, Id, None
  <2>5. rows'[i] = rows[i] /\ i \in 1..born'
    BY <1>1, <2>2, <2>4 DEF InsertMemory, MirroredRow
  <2> QED  BY <2>2, <2>3, <2>5 DEF Says, Live
<1>8. CASE \E i \in Id : Archive(i)
  <2>1. PICK i \in Id : Archive(i)
    BY <1>8
  <2>2. born' = born /\ last' = last /\ ~(/\ rows[i].turn.pool = last.pool
                                         /\ Fingerprint(rows[i].turn.text) = Fingerprint(last.text))
    BY <2>1 DEF Archive
  <2>3. PICK k \in 1..born : Says(k, last)
    BY <1>2, <2>2
  <2>4. k # i /\ k \in Id
    BY <1>1, <2>2, <2>3, PromotionAssumption DEF Says, TypeOK, Id
  <2>5. rows'[k] = rows[k]
    BY <2>1, <2>4, ArchivedIsBorn, KeptByArchive DEF Archive
  <2> QED  BY <2>2, <2>3, <2>5 DEF Says, Live
<1> QED
  BY <1>3, <1>4, <1>5, <1>6, <1>7, <1>8 DEF Next, Consolidate, Candidate, Crash, vars
-----------------------------------------------------------------------------
IInv == TypeOK /\ Past /\ Copy /\ Sure

LEMMA Invariant == Spec => []IInv
<1>1. Init => IInv
  BY TypeInit, PastInit DEF Init, IInv, Copy, Sure
<1>2. IInv /\ [Next]_vars => IInv'
  BY TypeStep, PastStep, CopyStep, SureStep DEF IInv
<1> QED  BY <1>1, <1>2, PTL DEF Spec

(* A statement has one live promoted row in a pool at most, however often  *)
(* it is made (NoRepeats).                                                 *)
THEOREM PromotedOnce == Spec => []NoRepeats
<1>1. Init => NoRepeats
  BY DEF Init, NoRepeats
<1>2. IInv /\ NoRepeats /\ [Next]_vars => NoRepeats'
  BY NoRepeatsStep DEF IInv
<1> QED  BY <1>1, <1>2, Invariant, PTL DEF Spec

(* What was said last has a live row, unless something else archived it    *)
(* (Remembered).                                                           *)
THEOREM LastIsRemembered == Spec => []Remembered
<1>1. Init => Remembered
  BY DEF Init, Remembered
<1>2. IInv /\ Remembered /\ [Next]_vars => Remembered'
  BY RememberedStep DEF IInv
<1> QED  BY <1>1, <1>2, Invariant, PTL DEF Spec

(* A statement replaces the newest of the live rows it overlaps            *)
(* (NewestReplaced).                                                       *)
THEOREM ReplacesNewest == Spec => []NewestReplaced
<1>1. Init => NewestReplaced
  BY DEF Init, NewestReplaced
<1>2. IInv /\ NewestReplaced /\ [Next]_vars => NewestReplaced'
  BY NewestStep DEF IInv
<1> QED  BY <1>1, <1>2, Invariant, PTL DEF Spec
-----------------------------------------------------------------------------
(* A new row is a step of the life cycle: the row appears, and the one it  *)
(* names, if any, is superseded.                                           *)
LEMMA InsertionIsAStep ==
  ASSUME TypeOK, NEW row \in Row, row.supersedes \in 0..born, row.status = "active",
         InsertMemory(row)
  PROVE  Lifecycle!Next
<1> DEFINE st == [i \in Id |-> rows[i].status]
           old == row.supersedes
<1>1. /\ born' \in Id /\ born' = born + 1 /\ born \in Nat /\ 1..born \subseteq Id
      /\ rows'[born'] = row
      /\ \A i \in Id : rows'[i] = Blank <=> i > born'
      /\ \A i \in 1..born :
           rows'[i] = IF i = old THEN [rows[i] EXCEPT !.status = "superseded"] ELSE rows[i]
  <2>1. born \in Nat /\ 1..born \subseteq Id
    BY PromotionAssumption DEF TypeOK, Id
  <2> QED  BY <2>1, Inserted
<1>2. st[born'] = "none"
  BY <1>1 DEF TypeOK, Blank
<1>3. ASSUME NEW i \in Id
      PROVE  rows'[i].status = IF i = born' THEN "active"
                               ELSE IF i = old THEN "superseded" ELSE st[i]
  <2>1. CASE i = born'
    BY <1>1, <2>1
  <2>2. CASE i \in 1..born
    <3>1. rows[i] \in Row /\ i # born'
      BY <1>1, <2>2 DEF TypeOK
    <3> QED  BY <1>1, <2>2, <3>1 DEF Row
  <2>3. CASE i > born'
    <3>1. rows[i] = Blank /\ rows'[i] = Blank /\ i # old /\ i # born'
      BY <1>1, <2>3 DEF TypeOK, Id
    <3> QED  BY <3>1
  <2> QED  BY <1>1, <2>1, <2>2, <2>3 DEF Id
<1>4. CASE old = None
  <2>1. None \notin Id
    BY DEF None, Id
  <2>2. st' = [st EXCEPT ![born'] = "active"]
    BY <1>1, <1>3, <1>4, <2>1
  <2> QED  BY <1>1, <1>2, <2>2 DEF Lifecycle!Next, Lifecycle!Write
<1>5. CASE old # None
  <2>1. old \in 1..born /\ old # born'
    BY <1>1, <1>5 DEF None
  <2>2. st[old] \in {"active", "superseded", "archived"}
    BY <1>1, <2>1 DEF TypeOK, Row
  <2>3. st' = [st EXCEPT ![born'] = "active", ![old] = "superseded"]
    BY <1>1, <1>3, <2>1
  <2>4. Lifecycle!Replace(born', old)
    BY <1>2, <2>2, <2>3 DEF Lifecycle!Replace, Lifecycle!Statuses
  <2> QED  BY <1>1, <2>1, <2>4 DEF Lifecycle!Next
<1> QED  BY <1>4, <1>5

(* So is archiving one row, whatever it was.                               *)
LEMMA ArchivingIsAStep ==
  ASSUME TypeOK, NEW i \in Id, rows[i].status # "none",
         rows' = [rows EXCEPT ![i].status = "archived"]
  PROVE  Lifecycle!Next
<1> DEFINE st == [j \in Id |-> rows[j].status]
<1>1. rows[i] \in Row
  BY DEF TypeOK, Blank
<1>2. rows'[i].status = "archived"
  BY <1>1 DEF TypeOK, Row
<1>3. \A j \in Id \ {i} : rows'[j] = rows[j]
  BY DEF TypeOK
<1>4. st' = [j \in Id |-> IF j \in {i} THEN "archived" ELSE st[j]]
  BY <1>2, <1>3
<1>5. Lifecycle!Archive({i})
  BY <1>4 DEF Lifecycle!Archive
<1> QED  BY <1>5 DEF Lifecycle!Next

(* The rows of the pools live as the store promises, whoever changes them  *)
(* and however stale the copy is that a change was decided on              *)
(* (LifecycleKept).                                                        *)
THEOREM PromotionImplementsLifecycle == Spec => LifecycleKept
<1> DEFINE st == [i \in Id |-> rows[i].status]
<1>1. Init => Lifecycle!Init
  BY DEF Init, Blank, Lifecycle!Init
<1>2. TypeOK /\ [Next]_vars => [Lifecycle!Next]_st
  <2> SUFFICES ASSUME TypeOK, [Next]_vars PROVE Lifecycle!Next \/ st' = st
    OBVIOUS
  <2>1. CASE UNCHANGED rows
    BY <2>1
  <2>2. CASE Promote
    <3>1. pc = "fetched" /\ InsertMemory(PromotedRow)
      BY <2>2 DEF Promote, PromotedRow
    <3>2. PromotedRow \in Row /\ PromotedRow.supersedes \in 0..born
          /\ PromotedRow.status = "active"
      BY <3>1, NewRows DEF PromotedRow
    <3> QED  BY <3>1, <3>2, InsertionIsAStep
  <2>3. ASSUME NEW t \in Turn, Mirror(t) PROVE Lifecycle!Next
    <3>1. InsertMemory(MirroredRow(t)) /\ MirroredRow(t).status = "active"
      BY <2>3 DEF Mirror, MirroredRow
    <3> QED  BY <3>1, NewRows, InsertionIsAStep
  <2>4. CASE ArchiveLow
    <3>1. memoryId \in 1..born /\ memoryId \in Id
      BY <2>4, PromotionAssumption DEF ArchiveLow, TypeOK, Id, None
    <3>2. rows[memoryId].status # "none"
      BY <3>1 DEF TypeOK, Row
    <3>3. UNCHANGED rows \/ rows' = [rows EXCEPT ![memoryId].status = "archived"]
      BY <2>4 DEF ArchiveLow
    <3> QED  BY <2>1, <3>1, <3>2, <3>3, ArchivingIsAStep
  <2>5. ASSUME NEW i \in Id, Archive(i) PROVE Lifecycle!Next
    BY <2>5, ArchivingIsAStep DEF Archive
  <2> QED
    BY <2>1, <2>2, <2>3, <2>4, <2>5
    DEF Next, Consolidate, Candidate, Reinforce, Crash, vars
<1> QED
  BY <1>1, <1>2, Typed, PTL DEF Spec, LifecycleKept, Lifecycle!Spec
=============================================================================
