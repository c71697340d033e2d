------------------------- MODULE MemoryStore_proofs -------------------------
(***************************************************************************)
(* What holds of MemoryStore for every number of rows, provider threads,   *)
(* command-line runs and facts, and for both backends.                     *)
(***************************************************************************)
EXTENDS MemoryStore, TLAPS

(* Ending a row leaves a row.                                              *)
LEMMA SupersededRow ==
  ASSUME NEW row \in Row, NEW new \in Id PROVE Superseded(row, new) \in Row
<1>1. "superseded" \in Statuses /\ new \in Id \cup {None}
  BY DEF Statuses
<1> QED  BY <1>1 DEF Superseded, Row

(* The type of every variable is kept by every step of the store.          *)
THEOREM StoreTyped == Spec => []TypeOK
<1>1. Init => TypeOK
  <2>1. Blank \in Row
    BY DEF Blank, Row, Statuses, None
  <2>2. 0 \in 0 .. MaxRows /\ "idle" \in Places
    BY StoreAssumption DEF StoreAssumption, Places
  <2>3. ASSUME Init
        PROVE  /\ rows \in [Id -> Row]
               /\ born \in 0 .. MaxRows
               /\ index \in [Id -> Nat]
               /\ pc \in [Workers -> Places]
    BY <2>1, <2>2, <2>3 DEF Init
  <2>4. ASSUME Init
        PROVE  /\ ids \in [Workers -> SUBSET Id]
               /\ seen \in [Workers -> SUBSET Id]
               /\ embedded \in BOOLEAN
               /\ outdated \in SUBSET Id
               /\ undropped \in BOOLEAN
               /\ fresh \in [Workers -> BOOLEAN]
               /\ intact \in BOOLEAN
    BY <2>4 DEF Init
  <2>5. QED BY <2>3, <2>4 DEF TypeOK
<1>2. TypeOK /\ [Next]_vars => TypeOK'
  <2> SUFFICES ASSUME TypeOK, [Next]_vars PROVE TypeOK'
    OBVIOUS
  <2> USE DEF TypeOK, Goto, Keep
  <2>a. Eligible \subseteq Id /\ Indexed \subseteq Id
    BY DEF Eligible, Indexed
  <2>b. Places = {"idle", "fetched", "upsert", "remove", "purge",
                  "clear", "fill", "persist", "hits"}
    BY DEF Places
  <2>c. \A S \in SUBSET Id : AddTo(S) \in [Id -> Nat]
    BY DEF AddTo
  <2>1. ASSUME NEW i \in Id, Tick(i) PROVE TypeOK'
    BY <2>1 DEF Tick, Row
  <2>2. ASSUME NEW w \in Workers, Fetch(w) PROVE TypeOK'
    BY <2>2, <2>a, <2>b DEF Fetch
  <2>3. ASSUME NEW w \in Workers, NEW layer \in {"episodic", "semantic"},
               NEW fact \in Facts \cup {NoFact}, NEW e \in {"never", "later"},
               NEW old \in Id \cup {None}, InsertRow(w, layer, fact, e, old)
        PROVE TypeOK'
    <3>1. born + 1 \in Id /\ born + 1 \in 0 .. MaxRows
      <4>1. born + 1 <= MaxRows
        BY <2>3 DEF InsertRow
      <4>2. QED BY <4>1, StoreAssumption DEF StoreAssumption, Id
    <3>2. rows' \in [Id -> Row]
      <4>1. \A i \in Id : rows[i] \in Row
        OBVIOUS
      <4>2. [status |-> "active", layer |-> layer, fact |-> fact, supersedes |-> old,
             supersededBy |-> None, expiry |-> e] \in Row
        BY DEF Row, Statuses
      <4>3. \A i \in Id : Superseded(rows[i], born + 1) \in Row
        BY <3>1, <4>1, SupersededRow
      <4>4. QED BY <2>3, <4>1, <4>2, <4>3 DEF InsertRow
    <3>3. born' \in 0 .. MaxRows
      BY <2>3, <3>1 DEF InsertRow
    <3>4. pc' \in [Workers -> Places] /\ ids' \in [Workers -> SUBSET Id]
      BY <2>3, <3>1, <2>b DEF InsertRow
    <3>5. QED BY <2>3, <3>2, <3>3, <3>4 DEF InsertRow
  <2>4. ASSUME NEW w \in Workers, ReinforceExact(w) PROVE TypeOK'
    BY <2>4, <2>b DEF ReinforceExact
  <2>5. ASSUME NEW w \in Workers, Upsert(w) PROVE TypeOK'
    BY <2>5, <2>b, <2>c DEF Upsert
  <2>6. ASSUME NEW w \in Workers, NEW i \in Id, ArchiveDuplicate(w, i) PROVE TypeOK'
    BY <2>6, <2>b DEF ArchiveDuplicate, Row, Statuses
  <2>7. ASSUME NEW w \in Workers, NoSummary(w) PROVE TypeOK'
    BY <2>7, <2>b DEF NoSummary
  <2>8. ASSUME NEW w \in Workers, Purge(w) PROVE TypeOK'
    BY <2>8, <2>b DEF Purge, Row, Statuses
  <2>9. ASSUME NEW w \in Workers, PurgeSelect(w) PROVE TypeOK'
    BY <2>9, <2>b DEF PurgeSelect
  <2>10. ASSUME NEW w \in Workers, NEW i \in Id, Remove(w, i) PROVE TypeOK'
    BY <2>10, <2>b DEF Remove
  <2>11. ASSUME NEW w \in Workers, RebuildRead(w) PROVE TypeOK'
    BY <2>11, <2>a, <2>b DEF RebuildRead
  <2>12. ASSUME NEW w \in Workers, RebuildClear(w) PROVE TypeOK'
    <3>1. index' \in [Id -> Nat] /\ outdated' \in SUBSET Id
      BY <2>12 DEF RebuildClear
    <3>2. undropped' \in BOOLEAN
      BY <2>12 DEF RebuildClear
    <3>3. intact' \in BOOLEAN
      BY <2>12 DEF RebuildClear
    <3>4. QED BY <2>12, <3>1, <3>2, <3>3, <2>b DEF RebuildClear
  <2>13. ASSUME NEW w \in Workers, RebuildFill(w) PROVE TypeOK'
    BY <2>13, <2>b, <2>c DEF RebuildFill
  <2>14. ASSUME NEW w \in Workers, RebuildPersist(w) PROVE TypeOK'
    BY <2>14, <2>b DEF RebuildPersist
  <2>15. ASSUME Upgrade PROVE TypeOK'
    BY <2>15, <2>a DEF Upgrade
  <2>16. ASSUME NEW w \in Workers, Search(w) PROVE TypeOK'
    BY <2>16, <2>a, <2>b DEF Search
  <2>17. ASSUME NEW w \in Workers, NEW i \in Id, ReadHit(w, i) PROVE TypeOK'
    BY <2>17 DEF ReadHit
  <2>18. ASSUME NEW w \in Workers, Recall(w) PROVE TypeOK'
    BY <2>18, <2>b DEF Recall
  <2>19. ASSUME NEW w \in Workers, Interrupt(w) PROVE TypeOK'
    BY <2>19, <2>b DEF Interrupt
  <2>20. CASE UNCHANGED vars
    BY <2>20 DEF vars
  <2>21. ASSUME NEW w \in Workers, Start(w) PROVE TypeOK'
    <3>1. ASSUME NEW f \in Facts, Mirror(w, f) PROVE TypeOK'
      BY <3>1, <2>3 DEF Mirror
    <3>2. CASE RecordTurn(w)
      BY <3>2, <2>3 DEF RecordTurn
    <3>4. ASSUME NEW f \in Facts, NEW e \in TTLs, InsertExpiring(w, f, e) PROVE TypeOK'
      BY <3>4, <2>3, StoreAssumption DEF InsertExpiring
    <3>3. QED
      BY <2>21, <3>1, <3>2, <3>4, <2>2, <2>8, <2>11, <2>16
      DEF Start, Rebuild, EnsureIndexCurrent
  <2>22. ASSUME NEW w \in Workers, Continue(w) PROVE TypeOK'
    <3>1. ASSUME NEW f \in Facts, NEW old \in Id \cup {None}, Promote(w, f, old)
          PROVE TypeOK'
      BY <3>1, <2>3 DEF Promote
    <3>2. ASSUME NEW f \in Facts, Summarize(w, f) PROVE TypeOK'
      BY <3>2, <2>3 DEF Summarize
    <3>3. QED
      BY <2>22, <3>1, <3>2, <2>4, <2>5, <2>6, <2>7, <2>9, <2>10, <2>12, <2>13,
         <2>14, <2>17, <2>18
      DEF Continue
  <2>23. QED
    BY <2>1, <2>15, <2>19, <2>20, <2>21, <2>22 DEF Next
<1>3. QED
  BY <1>1, <1>2, PTL DEF Spec
-----------------------------------------------------------------------------
(* Every insert, whichever call it belongs to: it replaces nothing or a    *)
(* row of the copy the worker holds.                                       *)
Inserted(w) ==
  pc[w] \in {"idle", "fetched"} /\ \E layer \in {"episodic", "semantic"}, fact \in Facts \cup {NoFact},
     e \in {"never", "later"}, old \in seen[w] \cup {None} :
       /\ old # None => w \in Consolidators /\ pc[w] = "fetched"
       /\ InsertRow(w, layer, fact, e, old)

(* The steps of the store, one disjunct for each effect.                   *)
Stepped(w) ==
  \/ Fetch(w) \/ Inserted(w) \/ ReinforceExact(w) \/ Upsert(w)
  \/ (\E i \in Id : ArchiveDuplicate(w, i)) \/ NoSummary(w) \/ Purge(w)
  \/ PurgeSelect(w) \/ (\E i \in Id : Remove(w, i)) \/ RebuildRead(w)
  \/ RebuildClear(w) \/ RebuildFill(w) \/ RebuildPersist(w) \/ Search(w)
  \/ (\E i \in Id : ReadHit(w, i)) \/ Recall(w) \/ Interrupt(w)

(* No step of the specification has an effect of another kind.             *)
LEMMA StepCases ==
  ASSUME Next
  PROVE  Upgrade \/ (\E i \in Id : Tick(i)) \/ \E w \in Workers : Stepped(w)
<1>1. ASSUME NEW w \in Workers, Start(w) PROVE Stepped(w)
  <2>1. ASSUME NEW f \in Facts, Mirror(w, f) PROVE Inserted(w)
    BY <2>1 DEF Mirror, Inserted
  <2>2. ASSUME RecordTurn(w) PROVE Inserted(w)
    BY <2>2 DEF RecordTurn, Inserted
  <2>4. ASSUME NEW f \in Facts, NEW e \in TTLs, InsertExpiring(w, f, e) PROVE Inserted(w)
    BY <2>4, StoreAssumption DEF StoreAssumption, InsertExpiring, Inserted
  <2>3. QED
    BY <1>1, <2>1, <2>2, <2>4 DEF Start, Rebuild, EnsureIndexCurrent, Stepped
<1>2. ASSUME NEW w \in Workers, Continue(w) PROVE Stepped(w)
  <2>1. ASSUME NEW f \in Facts, NEW old \in Id \cup {None}, Promote(w, f, old)
        PROVE Inserted(w)
    BY <2>1 DEF Promote, Inserted
  <2>2. ASSUME NEW f \in Facts, Summarize(w, f) PROVE Inserted(w)
    BY <2>2 DEF Summarize, Inserted
  <2>3. QED
    BY <1>2, <2>1, <2>2 DEF Continue, Stepped
<1>3. QED
  BY <1>1, <1>2 DEF Next, Stepped
-----------------------------------------------------------------------------
(* Which rows exist, which ids a worker may hold in which place, and that  *)
(* the index names durable rows only: one induction, since each of the     *)
(* three needs the others.                                                 *)
THEOREM StoreAccounted == Spec => []Accounted
<1> USE DEF Accounted, Counted, Held, Routed, NoPhantoms, Goto, Keep
<1>1. Init => Accounted
  <2> SUFFICES ASSUME Init PROVE Accounted
    OBVIOUS
  <2>1. Counted
    BY DEF Init, Id
  <2>2. Held /\ Routed
    BY DEF Init
  <2>3. NoPhantoms
    BY DEF Init, Indexed
  <2>4. QED BY <2>1, <2>2, <2>3
<1>2. TypeOK /\ Accounted /\ [Next]_vars => Accounted'
  <2> SUFFICES ASSUME TypeOK, Accounted, [Next]_vars PROVE Accounted'
    OBVIOUS
  <2>a. /\ rows \in [Id -> Row]
        /\ born \in Nat /\ \A i \in Id : i \in Nat
        /\ index \in [Id -> Nat]
        /\ pc \in [Workers -> Places]
        /\ ids \in [Workers -> SUBSET Id]
        /\ seen \in [Workers -> SUBSET Id]
    BY DEF TypeOK, Id
  <2>b. \A w \in Workers : \A i \in ids[w] \cup seen[w] : i \in Id
    BY <2>a
  <2>1. ASSUME NEW i \in Id, Tick(i) PROVE Accounted'
    <3>1. \A j \in Id : rows'[j].status = rows[j].status /\ rows'[j].layer = rows[j].layer
      BY <2>1, <2>a DEF Tick, Row
    <3>2. \A j \in Id : rows[j] = Blank => rows'[j] = rows[j]
      BY <2>1, <2>a DEF Tick, Blank
    <3>3. QED BY <2>1, <2>a, <2>b, <3>1, <3>2 DEF Tick, Indexed
  <2>2. ASSUME NEW w \in Workers, Fetch(w) PROVE Accounted'
    BY <2>2, <2>a, <2>b DEF Fetch, Eligible, Live, Indexed
  <2>3. ASSUME NEW w \in Workers, Inserted(w) PROVE Accounted'
    <3>1. PICK layer \in {"episodic", "semantic"}, fact \in Facts \cup {NoFact},
               e \in {"never", "later"}, old \in seen[w] \cup {None} :
                 InsertRow(w, layer, fact, e, old)
      BY <2>3 DEF Inserted
    <3> DEFINE new == born + 1
    <3>2. new \in Id /\ new \notin ids[w] /\ new # None
      <4>1. new <= MaxRows
        BY <3>1 DEF InsertRow
      <4>2. new \in Id
        BY <4>1, <2>a, StoreAssumption DEF StoreAssumption, Id
      <4>3. rows[new].status = "none"
        BY <4>2, <2>a DEF Blank
      <4>4. QED BY <4>2, <4>3, <2>a DEF None
    <3>3. /\ rows'[new].status = "active" /\ rows'[new].layer = layer
          /\ born' = new /\ index' = index
      BY <3>1, <3>2 DEF InsertRow
    <3>4. \A i \in Id \ {new} :
            /\ rows'[i].layer = rows[i].layer
            /\ i # old => rows'[i] = rows[i]
            /\ i = old => rows'[i].status = "superseded" /\ rows[i].status # "none"
      <4>1. \A i \in Id : /\ Superseded(rows[i], new).layer = rows[i].layer
                          /\ Superseded(rows[i], new).status = "superseded"
        BY <2>a DEF Superseded, Row
      <4>2. \A i \in Id \ {new} : i = old => i \in seen[w]
        BY <2>a DEF None, Id
      <4>3. QED BY <3>1, <4>1, <4>2, <2>a DEF InsertRow
    <3>5. Counted'
      <4> SUFFICES ASSUME NEW i \in Id
                   PROVE IF i <= new THEN rows'[i].status # "none" ELSE rows'[i] = Blank
        BY <3>3
      <4>1. CASE i = new
        BY <4>1, <3>3
      <4>2. CASE i # new /\ i <= born
        BY <4>2, <3>4, <2>a
      <4>3. CASE i > new
        BY <4>3, <3>4, <2>a DEF Blank
      <4>4. QED BY <4>1, <4>2, <4>3, <2>a
    <3>6. /\ \A x \in Workers \ {w} : pc'[x] = pc[x] /\ ids'[x] = ids[x]
          /\ \A x \in Workers \ {w} : seen'[x] = seen[x]
          /\ ids'[w] \subseteq {new} /\ seen'[w] = {}
          /\ layer = "episodic" => ids'[w] = {}
          /\ pc'[w] # "remove"
      BY <3>1, <2>a DEF InsertRow
    <3>b. pc'[w] \in {"upsert", "idle"}
      BY <3>1, <2>a DEF InsertRow
    <3>a. Held'
      <4> SUFFICES ASSUME NEW x \in Workers, NEW i \in ids'[x] \cup seen'[x]
                   PROVE  rows'[i].status # "none"
        OBVIOUS
      <4>1. CASE x = w
        BY <4>1, <3>3, <3>6
      <4>2. CASE x # w
        <5>1. i \in ids[x] \cup seen[x] /\ i \in Id /\ rows[i].status # "none"
          BY <4>2, <3>6, <2>b
        <5>2. i # new
          BY <5>1, <3>2, <2>a DEF Blank
        <5>3. QED BY <5>1, <5>2, <3>4
      <4>3. QED BY <4>1, <4>2
    <3>7. Routed'
      <4>a. \A x \in Workers : pc'[x] \in {"purge", "remove"} => x \in Cli
        BY <3>6, <3>b
      <4> SUFFICES ASSUME NEW x \in Workers, NEW i \in ids'[x]
                   PROVE  /\ pc'[x] \in {"upsert", "clear", "fill"}
                               => rows'[i].layer = "semantic"
                          /\ pc'[x] = "remove" => rows'[i].status # "active"
        BY <4>a
      <4>1. CASE x = w
        BY <4>1, <3>3, <3>6
      <4>2. CASE x # w
        <5>1. i \in ids[x] /\ pc'[x] = pc[x] /\ i \in Id /\ rows[i].status # "none"
          BY <4>2, <3>6, <2>b
        <5>2. i # new
          BY <5>1, <4>2, <3>2, <2>a DEF Blank
        <5>3. QED BY <5>1, <5>2, <3>4
      <4>3. QED BY <4>1, <4>2
    <3>8. NoPhantoms'
      <4> SUFFICES ASSUME NEW i \in Id, index'[i] > 0
                   PROVE rows'[i].status # "none" /\ rows'[i].layer = "semantic"
        BY DEF Indexed
      <4>1. rows[i].status # "none" /\ rows[i].layer = "semantic"
        BY <3>3 DEF Indexed
      <4>2. i # new
        BY <4>1, <3>2, <2>a DEF Blank
      <4>3. QED BY <4>1, <4>2, <3>4
    <3>9. QED BY <3>5, <3>a, <3>7, <3>8
  <2>4. ASSUME NEW w \in Workers, ReinforceExact(w) PROVE Accounted'
    BY <2>4, <2>a, <2>b DEF ReinforceExact, Indexed
  <2>5. ASSUME NEW w \in Workers, Upsert(w) PROVE Accounted'
    BY <2>5, <2>a, <2>b DEF Upsert, AddTo, Indexed
  <2>6. ASSUME NEW w \in Workers, NEW i \in Id, ArchiveDuplicate(w, i) PROVE Accounted'
    <3>1. /\ \A j \in Id : rows'[j].layer = rows[j].layer
          /\ \A j \in Id \ {i} : rows'[j] = rows[j]
          /\ rows'[i].status = "archived" /\ rows[i].status # "none"
      BY <2>6, <2>a DEF ArchiveDuplicate, Row
    <3>2. QED BY <2>6, <2>a, <2>b, <3>1 DEF ArchiveDuplicate, Indexed, Blank
  <2>7. ASSUME NEW w \in Workers, NoSummary(w) PROVE Accounted'
    BY <2>7, <2>a, <2>b DEF NoSummary, Indexed
  <2>8. ASSUME NEW w \in Workers, Purge(w) PROVE Accounted'
    <3>1. \A j \in Id :
            /\ rows'[j].layer = rows[j].layer
            /\ rows'[j] # rows[j] => rows'[j].status = "archived" /\ rows[j].status = "active"
      BY <2>8, <2>a DEF Purge, Row
    <3>2. QED BY <2>8, <2>a, <2>b, <3>1 DEF Purge, Indexed, Blank
  <2>9. ASSUME NEW w \in Workers, PurgeSelect(w) PROVE Accounted'
    BY <2>9, <2>a, <2>b DEF PurgeSelect, Indexed
  <2>10. ASSUME NEW w \in Workers, NEW i \in Id, Remove(w, i) PROVE Accounted'
    BY <2>10, <2>a, <2>b DEF Remove, Indexed
  <2>11. ASSUME NEW w \in Workers, RebuildRead(w) PROVE Accounted'
    BY <2>11, <2>a, <2>b DEF RebuildRead, Eligible, Live, Indexed
  <2>12. ASSUME NEW w \in Workers, RebuildClear(w) PROVE Accounted'
    BY <2>12, <2>a, <2>b DEF RebuildClear, Indexed
  <2>13. ASSUME NEW w \in Workers, RebuildFill(w) PROVE Accounted'
    BY <2>13, <2>a, <2>b DEF RebuildFill, AddTo, Indexed
  <2>14. ASSUME NEW w \in Workers, RebuildPersist(w) PROVE Accounted'
    BY <2>14, <2>a, <2>b DEF RebuildPersist, Indexed
  <2>15. ASSUME Upgrade PROVE Accounted'
    BY <2>15, <2>a, <2>b DEF Upgrade, Indexed
  <2>16. ASSUME NEW w \in Workers, Search(w) PROVE Accounted'
    BY <2>16, <2>a, <2>b DEF Search, Indexed
  <2>17. ASSUME NEW w \in Workers, NEW i \in Id, ReadHit(w, i) PROVE Accounted'
    BY <2>17, <2>a, <2>b DEF ReadHit, Indexed
  <2>18. ASSUME NEW w \in Workers, Recall(w) PROVE Accounted'
    BY <2>18, <2>a, <2>b DEF Recall, Indexed
  <2>19. ASSUME NEW w \in Workers, Interrupt(w) PROVE Accounted'
    BY <2>19, <2>a, <2>b DEF Interrupt, Indexed
  <2>20. CASE UNCHANGED vars
    BY <2>20, <2>a, <2>b DEF vars, Indexed
  <2>21. QED
    BY <2>1, <2>2, <2>3, <2>4, <2>5, <2>6, <2>7, <2>8, <2>9, <2>10, <2>11, <2>12,
       <2>13, <2>14, <2>15, <2>16, <2>17, <2>18, <2>19, <2>20, StepCases DEF Stepped
<1>3. QED
  BY <1>1, <1>2, StoreTyped, PTL DEF Spec
-----------------------------------------------------------------------------
(* Index updates that are not lost reach every live durable row, however   *)
(* inserts, archivals, purges, searches and any number of rebuilds of      *)
(* several processes interleave: a rebuild wipes entries it does not hold  *)
(* only when another update overtook it, and that is recorded in fresh.    *)
THEOREM StoreSearchable == Spec => []Searchable
<1> DEFINE Inv == FreshCovers /\ Searchable
<1> USE DEF FreshCovers, Searchable, Indexing, Goto, Keep
<1>1. Init => Inv
  <2> SUFFICES ASSUME Init PROVE Inv
    OBVIOUS
  <2>1. \A i \in Id : ~Live(i)
    BY DEF Init, Live, Blank
  <2>2. \A w \in Workers : ~fresh[w]
    BY DEF Init
  <2>3. QED BY <2>1, <2>2
<1>2. TypeOK /\ Accounted /\ Inv /\ [Next]_vars => Inv'
  <2> SUFFICES ASSUME TypeOK, Accounted, Inv, [Next]_vars PROVE Inv'
    OBVIOUS
  <2>a. /\ rows \in [Id -> Row]
        /\ born \in Nat /\ \A i \in Id : i \in Nat
        /\ index \in [Id -> Nat]
        /\ pc \in [Workers -> Places]
        /\ ids \in [Workers -> SUBSET Id]
        /\ seen \in [Workers -> SUBSET Id]
        /\ fresh \in [Workers -> BOOLEAN]
        /\ intact \in BOOLEAN
    BY DEF TypeOK, Id
  <2>1. ASSUME NEW i \in Id, Tick(i) PROVE Inv'
    <3>1. \A j \in Id : Live(j)' => Live(j)
      BY <2>1, <2>a DEF Tick, Live, Row
    <3>2. QED BY <2>1, <3>1 DEF Tick
  <2>2. ASSUME NEW w \in Workers, Fetch(w) PROVE Inv'
    <3>1. \A j \in Id : Live(j)' <=> Live(j)
      BY <2>2 DEF Fetch, Live
    <3>2. QED BY <2>2, <2>a, <3>1 DEF Fetch
  <2>3. ASSUME NEW w \in Workers, Inserted(w) PROVE Inv'
    <3>1. PICK layer \in {"episodic", "semantic"}, fact \in Facts \cup {NoFact},
               e \in {"never", "later"}, old \in seen[w] \cup {None} :
                 InsertRow(w, layer, fact, e, old)
      BY <2>3 DEF Inserted
    <3> DEFINE new == born + 1
    <3>2. \A i \in Id \ {new} : Live(i)' => Live(i)
      <4>1. \A i \in Id : Superseded(rows[i], new).status = "superseded"
        BY <2>a DEF Superseded, Row
      <4>2. QED BY <3>1, <4>1, <2>a DEF InsertRow, Live
    <3>3. \A i \in Id : i = new /\ Live(i)' => layer = "semantic"
      <4>1. \A i \in Id : i = new => rows'[i].layer = layer
        BY <3>1 DEF InsertRow
      <4>2. QED BY <4>1 DEF Live
    <3>4. layer = "semantic" => pc'[w] = "upsert" /\ ids'[w] = {new}
      BY <3>1, <2>a DEF InsertRow
    <3>5. /\ \A x \in Workers \ {w} : pc'[x] = pc[x] /\ ids'[x] = ids[x]
          /\ fresh' = fresh /\ intact' = intact /\ index' = index
      BY <3>1, <2>a DEF InsertRow
    <3>6. pc[w] \in {"idle", "fetched"} /\ ~fresh[w]
      BY <2>3 DEF Inserted
    <3>7. \A i \in Id : Live(i)' => Live(i) \/ (pc'[w] = "upsert" /\ i \in ids'[w])
      BY <3>2, <3>3, <3>4
    <3>8. \A i \in Id, x \in Workers, p \in {"upsert", "clear", "fill"} :
            pc[x] = p /\ i \in ids[x] => pc'[x] = p /\ i \in ids'[x]
      BY <3>5, <3>6
    <3>9. FreshCovers'
      <4> SUFFICES ASSUME NEW x \in Workers, fresh[x]
                   PROVE  /\ pc'[x] \in {"clear", "fill"}
                          /\ \A i \in Id : Live(i)' =>
                               \/ i \in ids'[x]
                               \/ \E v \in Workers : pc'[v] = "upsert" /\ i \in ids'[v]
        BY <3>5
      <4>1. x # w /\ pc'[x] = pc[x] /\ ids'[x] = ids[x] /\ pc[x] \in {"clear", "fill"}
        BY <3>5, <3>6
      <4>2. QED BY <4>1, <3>7, <3>8
    <3>10. Searchable'
      BY <3>5, <3>7, <3>8
    <3>11. QED BY <3>9, <3>10
  <2>4. ASSUME NEW w \in Workers, ReinforceExact(w) PROVE Inv'
    <3>1. \A j \in Id : Live(j)' <=> Live(j)
      BY <2>4 DEF ReinforceExact, Live
    <3>2. QED BY <2>4, <2>a, <3>1 DEF ReinforceExact
  <2>5. ASSUME NEW w \in Workers, Upsert(w) PROVE Inv'
    <3>1. \A j \in Id : Live(j)' <=> Live(j)
      BY <2>5 DEF Upsert, Live
    <3>2. \A j \in Id : index[j] > 0 \/ j \in ids[w] => index'[j] > 0
      BY <2>5, <2>a DEF Upsert, AddTo
    <3>3. QED BY <2>5, <2>a, <3>1, <3>2 DEF Upsert
  <2>6. ASSUME NEW w \in Workers, NEW i \in Id, ArchiveDuplicate(w, i) PROVE Inv'
    <3>1. \A j \in Id : Live(j)' => Live(j)
      BY <2>6, <2>a DEF ArchiveDuplicate, Live, Row
    <3>2. QED BY <2>6, <2>a, <3>1 DEF ArchiveDuplicate
  <2>7. ASSUME NEW w \in Workers, NoSummary(w) PROVE Inv'
    <3>1. \A j \in Id : Live(j)' <=> Live(j)
      BY <2>7 DEF NoSummary, Live
    <3>2. QED BY <2>7, <2>a, <3>1 DEF NoSummary
  <2>8. ASSUME NEW w \in Workers, Purge(w) PROVE Inv'
    <3>1. \A j \in Id : Live(j)' => Live(j)
      BY <2>8, <2>a DEF Purge, Live, Row
    <3>2. QED BY <2>8, <2>a, <3>1 DEF Purge
  <2>9. ASSUME NEW w \in Workers, PurgeSelect(w) PROVE Inv'
    <3>1. \A j \in Id : Live(j)' <=> Live(j)
      BY <2>9 DEF PurgeSelect, Live
    <3>2. QED BY <2>9, <2>a, <3>1 DEF PurgeSelect
  <2>10. ASSUME NEW w \in Workers, NEW i \in Id, Remove(w, i) PROVE Inv'
    <3>1. \A j \in Id : Live(j)' <=> Live(j)
      BY <2>10 DEF Remove, Live
    <3>2. ~Live(i)
      BY <2>10 DEF Remove, Live, Accounted, Routed
    <3>3. QED BY <2>10, <2>a, <3>1, <3>2 DEF Remove
  <2>11. ASSUME NEW w \in Workers, RebuildRead(w) PROVE Inv'
    <3>1. \A j \in Id : Live(j)' <=> Live(j)
      BY <2>11 DEF RebuildRead, Live
    <3>2. \A j \in Id : Live(j) => j \in ids'[w]
      BY <2>11, <2>a DEF RebuildRead, Eligible
    <3>3. QED BY <2>11, <2>a, <3>1, <3>2 DEF RebuildRead
  <2>12. ASSUME NEW w \in Workers, RebuildClear(w) PROVE Inv'
    <3>1. \A j \in Id : Live(j)' <=> Live(j)
      BY <2>12 DEF RebuildClear, Live
    <3>2. QED BY <2>12, <2>a, <3>1 DEF RebuildClear
  <2>13. ASSUME NEW w \in Workers, RebuildFill(w) PROVE Inv'
    <3>1. \A j \in Id : Live(j)' <=> Live(j)
      BY <2>13 DEF RebuildFill, Live
    <3>2. \A j \in Id : index[j] > 0 \/ j \in ids[w] => index'[j] > 0
      BY <2>13, <2>a DEF RebuildFill, AddTo
    <3>3. QED BY <2>13, <2>a, <3>1, <3>2 DEF RebuildFill
  <2>14. ASSUME NEW w \in Workers, RebuildPersist(w) PROVE Inv'
    <3>1. \A j \in Id : Live(j)' <=> Live(j)
      BY <2>14 DEF RebuildPersist, Live
    <3>2. QED BY <2>14, <2>a, <3>1 DEF RebuildPersist
  <2>15. ASSUME Upgrade PROVE Inv'
    BY <2>15 DEF Upgrade, Live
  <2>16. ASSUME NEW w \in Workers, Search(w) PROVE Inv'
    <3>1. \A j \in Id : Live(j)' <=> Live(j)
      BY <2>16 DEF Search, Live
    <3>2. QED BY <2>16, <2>a, <3>1 DEF Search
  <2>17. ASSUME NEW w \in Workers, NEW i \in Id, ReadHit(w, i) PROVE Inv'
    <3>1. \A j \in Id : Live(j)' <=> Live(j)
      BY <2>17 DEF ReadHit, Live
    <3>2. QED BY <2>17, <2>a, <3>1 DEF ReadHit
  <2>18. ASSUME NEW w \in Workers, Recall(w) PROVE Inv'
    <3>1. \A j \in Id : Live(j)' <=> Live(j)
      BY <2>18 DEF Recall, Live
    <3>2. QED BY <2>18, <2>a, <3>1 DEF Recall
  <2>19. ASSUME NEW w \in Workers, Interrupt(w) PROVE Inv'
    <3>1. \A j \in Id : Live(j)' <=> Live(j)
      BY <2>19 DEF Interrupt, Live
    <3>2. QED BY <2>19, <2>a, <3>1 DEF Interrupt
  <2>20. CASE UNCHANGED vars
    BY <2>20 DEF vars, Live
  <2>21. QED
    BY <2>1, <2>2, <2>3, <2>4, <2>5, <2>6, <2>7, <2>8, <2>9, <2>10, <2>11, <2>12,
       <2>13, <2>14, <2>15, <2>16, <2>17, <2>18, <2>19, <2>20, StepCases DEF Stepped
<1>3. QED
  BY <1>1, <1>2, StoreTyped, StoreAccounted, PTL DEF Spec
-----------------------------------------------------------------------------
(* Nothing but durable rows of the table is ever in the index.             *)
THEOREM StoreNoPhantoms == Spec => []NoPhantoms
<1>1. Accounted => NoPhantoms
  BY DEF Accounted
<1>2. QED
  BY <1>1, StoreAccounted, PTL

(* The stored embedder state never runs ahead of the index, unless a drop  *)
(* that failed was ignored.                                                *)
THEOREM StoreEmbedderHonest == Spec => []EmbedderStateHonest
<1> USE DEF OutdatedGone, Goto, Keep
<1>1. Init => OutdatedGone
  BY DEF Init
<1>2. TypeOK /\ OutdatedGone /\ [Next]_vars => OutdatedGone'
  <2> SUFFICES ASSUME TypeOK, OutdatedGone, [Next]_vars PROVE OutdatedGone'
    OBVIOUS
  <2>a. /\ pc \in [Workers -> Places]
        /\ ids \in [Workers -> SUBSET Id]
        /\ seen \in [Workers -> SUBSET Id]
        /\ embedded \in BOOLEAN
    BY DEF TypeOK
  <2>1. ASSUME NEW i \in Id, Tick(i) PROVE OutdatedGone'
    BY <2>1 DEF Tick
  <2>2. ASSUME Upgrade PROVE OutdatedGone'
    BY <2>2, <2>a DEF Upgrade
  <2>3. CASE UNCHANGED vars
    BY <2>3 DEF vars
  <2>4. ASSUME NEW w \in Workers, Stepped(w) PROVE OutdatedGone'
    <3>1. \A x \in Workers \ {w} : pc'[x] = pc[x]
      BY <2>4, <2>a DEF Stepped, Fetch, Inserted, InsertRow, ReinforceExact, Upsert,
         ArchiveDuplicate, NoSummary, Purge, PurgeSelect, Remove, RebuildRead,
         RebuildClear, RebuildFill, RebuildPersist, Search, ReadHit, Recall, Interrupt
    <3>2. outdated' \subseteq outdated
      BY <2>4 DEF Stepped, Fetch, Inserted, InsertRow, ReinforceExact, Upsert,
         ArchiveDuplicate, NoSummary, Purge, PurgeSelect, Remove, RebuildRead,
         RebuildClear, RebuildFill, RebuildPersist, Search, ReadHit, Recall, Interrupt
    <3>3. CASE RebuildClear(w)
      BY <3>3 DEF RebuildClear
    <3>4. CASE RebuildFill(w) \/ RebuildPersist(w)
      <4>1. pc[w] \in {"fill", "persist"} /\ undropped' = undropped
        BY <3>4 DEF RebuildFill, RebuildPersist
      <4>2. outdated = {} \/ undropped
        BY <4>1
      <4>3. QED BY <3>2, <4>1, <4>2
    <3>5. CASE ~(RebuildClear(w) \/ RebuildFill(w) \/ RebuildPersist(w))
      <4>1. embedded' = embedded /\ undropped' = undropped
        BY <2>4, <3>5 DEF Stepped, Fetch, Inserted, InsertRow, ReinforceExact, Upsert,
           ArchiveDuplicate, NoSummary, Purge, PurgeSelect, Remove, RebuildRead,
           Search, ReadHit, Recall, Interrupt
      <4>2. pc'[w] = pc[w] \/ pc'[w] \notin {"fill", "persist"}
        BY <2>4, <3>5, <2>a DEF Stepped, Fetch, Inserted, InsertRow, ReinforceExact, Upsert,
           ArchiveDuplicate, NoSummary, Purge, PurgeSelect, Remove, RebuildRead,
           Search, ReadHit, Recall, Interrupt
      <4>3. QED BY <3>1, <3>2, <4>1, <4>2
    <3>6. QED BY <3>3, <3>4, <3>5
  <2>5. QED
    BY <2>1, <2>2, <2>3, <2>4, StepCases
<1>3. OutdatedGone => EmbedderStateHonest
  BY DEF EmbedderStateHonest
<1>4. QED
  BY <1>1, <1>2, <1>3, StoreTyped, PTL DEF Spec
-----------------------------------------------------------------------------
(* What one step does to the table: nothing, the passing of an expiry, one *)
(* new row with or without the replacement of a row a worker held, or the  *)
(* archiving of existing rows.                                             *)
LEMMA TableSteps ==
  ASSUME TypeOK, Accounted, [Next]_vars
  PROVE  \/ \A i \in Id : rows'[i].status = rows[i].status
                         /\ rows'[i].supersedes = rows[i].supersedes
                         /\ rows'[i].supersededBy = rows[i].supersededBy
         \/ \E w \in Workers : Inserted(w)
         \/ /\ \A i \in Id : /\ rows'[i].supersedes = rows[i].supersedes
                             /\ rows'[i].supersededBy = rows[i].supersededBy
            /\ \A i \in Id : rows'[i].status # rows[i].status =>
                  rows'[i].status = "archived" /\ rows[i].status # "none"
<1> USE DEF Goto, Keep
<1>a. rows \in [Id -> Row] /\ seen \in [Workers -> SUBSET Id]
  BY DEF TypeOK
<1>1. ASSUME NEW i \in Id, Tick(i)
      PROVE \A j \in Id : /\ rows'[j].status = rows[j].status
                          /\ rows'[j].supersedes = rows[j].supersedes
                          /\ rows'[j].supersededBy = rows[j].supersededBy
  BY <1>1, <1>a DEF Tick, Row
<1>2. ASSUME NEW w \in Workers, NEW i \in Id, ArchiveDuplicate(w, i)
      PROVE \A j \in Id : /\ rows'[j].supersedes = rows[j].supersedes
                          /\ rows'[j].supersededBy = rows[j].supersededBy
                          /\ rows'[j].status # rows[j].status =>
                               rows'[j].status = "archived" /\ rows[j].status # "none"
  BY <1>2, <1>a DEF ArchiveDuplicate, Row, Accounted, Held
<1>3. ASSUME NEW w \in Workers, Purge(w)
      PROVE \A j \in Id : /\ rows'[j].supersedes = rows[j].supersedes
                          /\ rows'[j].supersededBy = rows[j].supersededBy
                          /\ rows'[j].status # rows[j].status =>
                               rows'[j].status = "archived" /\ rows[j].status # "none"
  BY <1>3, <1>a DEF Purge, Row
<1>4. CASE UNCHANGED vars
  BY <1>4 DEF vars
<1>5. CASE Upgrade
  BY <1>5 DEF Upgrade
<1>6. ASSUME NEW w \in Workers, Stepped(w), ~Inserted(w), ~Purge(w),
             ~\E i \in Id : ArchiveDuplicate(w, i)
      PROVE rows' = rows
  BY <1>6 DEF Stepped, Fetch, ReinforceExact, Upsert, NoSummary, PurgeSelect, Remove,
     RebuildRead, RebuildClear, RebuildFill, RebuildPersist, Search, ReadHit, Recall,
     Interrupt
<1>7. QED
  BY <1>1, <1>2, <1>3, <1>4, <1>5, <1>6, StepCases
-----------------------------------------------------------------------------
(* An insert uses an id that was blank and replaces nothing or an older,   *)
(* existing row that its worker holds.                                     *)
LEMMA InsertSteps ==
  ASSUME TypeOK, Accounted, NEW w \in Workers, Inserted(w)
  PROVE  \E new \in Id, old \in seen[w] \cup {None} :
           /\ rows[new] = Blank
           /\ old # None => w \in Consolidators /\ pc[w] = "fetched"
           /\ old # None => old \in Id /\ old < new /\ rows[old].status # "none"
           /\ \A i \in Id : rows[i].status # "none" => i < new
           /\ rows'[new].status = "active"
           /\ rows'[new].supersedes = old /\ rows'[new].supersededBy = None
           /\ old # None => /\ rows'[old].status = "superseded"
                           /\ rows'[old].supersededBy = new
                           /\ rows'[old].supersedes = rows[old].supersedes
           /\ \A i \in Id \ {new, old} : rows'[i] = rows[i]
<1> USE DEF Accounted, Counted
<1>a. /\ rows \in [Id -> Row] /\ seen \in [Workers -> SUBSET Id] /\ born \in Nat
      /\ \A i \in Id : i \in Nat /\ i # None
  BY DEF TypeOK, Id, None
<1>1. PICK layer \in {"episodic", "semantic"}, fact \in Facts \cup {NoFact},
           e \in {"never", "later"}, old \in seen[w] \cup {None} :
             /\ old # None => w \in Consolidators /\ pc[w] = "fetched"
             /\ InsertRow(w, layer, fact, e, old)
  BY DEF Inserted
<1> DEFINE new == born + 1
<1>2. new \in Id
  <2>1. new <= MaxRows
    BY <1>1 DEF InsertRow
  <2>2. QED BY <2>1, <1>a, StoreAssumption DEF StoreAssumption, Id
<1>3. rows[new] = Blank
  BY <1>2, <1>a
<1>4. \A i \in Id : rows[i].status # "none" => i < new
  BY <1>a DEF Blank
<1>5. old # None => old \in Id /\ old < new /\ rows[old].status # "none"
  BY <1>4, <1>a DEF Held
<1>6. /\ rows'[new].status = "active"
      /\ rows'[new].supersedes = old /\ rows'[new].supersededBy = None
  BY <1>1, <1>2 DEF InsertRow
<1>7. old # None => /\ rows'[old].status = "superseded"
                    /\ rows'[old].supersededBy = new
                    /\ rows'[old].supersedes = rows[old].supersedes
  <2>1. \A r \in Row : /\ Superseded(r, new).status = "superseded"
                       /\ Superseded(r, new).supersededBy = new
                       /\ Superseded(r, new).supersedes = r.supersedes
    BY DEF Superseded, Row
  <2>2. old # None => rows'[old] = Superseded(rows[old], new)
    BY <1>1, <1>2, <1>5, <1>a DEF InsertRow
  <2>3. QED BY <2>1, <2>2, <1>5, <1>a
<1>8. \A i \in Id \ {new, old} : rows'[i] = rows[i]
  BY <1>1 DEF InsertRow
<1>9. QED
  BY <1>1, <1>2, <1>3, <1>4, <1>5, <1>6, <1>7, <1>8

(* Supersession is recorded on both sides and for good.                    *)
THEOREM StoreHistoryKept == Spec => []HistoryKept
<1>1. Init => HistoryKept
  BY DEF Init, HistoryKept, Blank, None
<1>2. TypeOK /\ Accounted /\ HistoryKept /\ [Next]_vars => HistoryKept'
  <2> SUFFICES ASSUME TypeOK, Accounted, HistoryKept, [Next]_vars PROVE HistoryKept'
    OBVIOUS
  <2>a. /\ \A i \in Id : rows[i] \in Row /\ i \in Nat /\ i # None
        /\ \A i \in Id : rows[i].status = "none" => rows[i] = Blank
    BY DEF TypeOK, Id, None, Accounted, Counted
  <2>b. \A i \in Id : /\ rows[i].supersedes \in Id \cup {None}
                      /\ rows[i].supersededBy \in Id \cup {None}
    BY <2>a DEF Row
  <2>1. ASSUME \A i \in Id : /\ rows'[i].supersedes = rows[i].supersedes
                             /\ rows'[i].supersededBy = rows[i].supersededBy,
               \A i \in Id : rows'[i].status = "active" => rows[i].status = "active"
        PROVE HistoryKept'
    BY <2>1, <2>b DEF HistoryKept
  <2>2. ASSUME NEW w \in Workers, Inserted(w) PROVE HistoryKept'
    <3>1. PICK new \in Id, old \in seen[w] \cup {None} :
           /\ rows[new] = Blank
           /\ old # None => old \in Id /\ old < new /\ rows[old].status # "none"
           /\ \A i \in Id : rows[i].status # "none" => i < new
           /\ rows'[new].status = "active"
           /\ rows'[new].supersedes = old /\ rows'[new].supersededBy = None
           /\ old # None => /\ rows'[old].status = "superseded"
                           /\ rows'[old].supersededBy = new
                           /\ rows'[old].supersedes = rows[old].supersedes
           /\ \A i \in Id \ {new, old} : rows'[i] = rows[i]
      BY <2>2, InsertSteps
    <3> SUFFICES ASSUME NEW i \in Id
                 PROVE  /\ rows'[i].supersededBy # None =>
                             /\ rows'[i].supersededBy > i
                             /\ rows'[rows'[i].supersededBy].supersedes = i
                             /\ rows'[i].status # "active"
                        /\ rows'[i].supersedes # None =>
                             /\ rows'[i].supersedes < i
                             /\ rows'[rows'[i].supersedes].supersededBy >= i
      BY DEF HistoryKept
    <3>2. \A j \in Id : /\ rows[j].supersededBy # new
                        /\ rows[j].supersedes # new
      <4>1. rows[new].supersedes = None /\ rows[new].supersededBy = None
        BY <3>1 DEF Blank
      <4>2. \A j \in Id : rows[j].supersededBy # new
        BY <4>1, <2>a, <3>1 DEF HistoryKept
      <4>3. \A j \in Id : rows[j].supersedes # new
        BY <4>1, <2>a, <3>1 DEF HistoryKept, None
      <4>4. QED BY <4>2, <4>3
    <3>3. CASE i = new
      BY <3>1, <3>3, <2>a
    <3>4. CASE i # new /\ i = old
      <4>1. rows[i].supersedes # None => rows[i].supersedes < i /\ rows[i].supersedes \in Id
        BY <2>b DEF HistoryKept
      <4>2. rows[i].supersedes # None =>
              rows'[rows[i].supersedes] = rows[rows[i].supersedes]
        BY <4>1, <3>1, <3>2, <3>4, <2>a
      <4>3. QED BY <3>1, <3>4, <4>1, <4>2, <2>a DEF HistoryKept
    <3>5. CASE i # new /\ i # old
      <4>1. rows'[i] = rows[i]
        BY <3>1, <3>5
      <4>2. rows[i].supersededBy # None =>
              rows'[rows[i].supersededBy].supersedes = rows[rows[i].supersededBy].supersedes
        BY <3>1, <3>2, <2>a, <2>b
      <4>3. rows[i].supersedes # None => rows[i].supersedes < i
        BY DEF HistoryKept
      <4>4. rows[i].supersedes # None => rows'[rows[i].supersedes].supersededBy >= i
        <5>1. CASE rows[i].supersedes = old /\ rows[i].supersedes # None
          <6>1. rows[i].status # "none"
            BY <5>1, <2>a DEF Blank
          <6>2. QED BY <5>1, <6>1, <3>1, <2>a
        <5>2. CASE rows[i].supersedes # old
          BY <5>2, <3>1, <3>2, <2>b DEF HistoryKept
        <5>3. QED BY <5>1, <5>2
      <4>5. QED BY <4>1, <4>2, <4>3, <4>4 DEF HistoryKept
    <3>6. QED BY <3>3, <3>4, <3>5
  <2>3. QED
    BY <2>1, <2>2, TableSteps
<1>3. QED
  BY <1>1, <1>2, StoreTyped, StoreAccounted, PTL DEF Spec
-----------------------------------------------------------------------------
(* The table implements the life cycle of a record.                        *)
THEOREM StoreImplementsLifecycle == Spec => LifecycleKept
<1> DEFINE st == [i \in Id |-> rows[i].status]
<1>1. Init => Lifecycle!Init
  BY DEF Init, Blank, Lifecycle!Init
<1>2. TypeOK /\ Accounted /\ [Next]_vars => [Lifecycle!Next]_st
  <2> SUFFICES ASSUME TypeOK, Accounted, [Next]_vars
               PROVE Lifecycle!Next \/ st' = st
    OBVIOUS
  <2>1. ASSUME \A i \in Id : rows'[i].status = rows[i].status
        PROVE st' = st
    BY <2>1
  <2>2. ASSUME NEW w \in Workers, Inserted(w) PROVE Lifecycle!Next
    <3>1. PICK new \in Id, old \in seen[w] \cup {None} :
           /\ rows[new] = Blank
           /\ old # None => old \in Id /\ old < new /\ rows[old].status # "none"
           /\ rows'[new].status = "active"
           /\ old # None => rows'[old].status = "superseded"
           /\ \A i \in Id \ {new, old} : rows'[i] = rows[i]
      BY <2>2, InsertSteps
    <3>2. rows[new].status = "none"
      BY <3>1 DEF Blank
    <3>3. CASE old = None
      <4>1. None \notin Id
        BY DEF None, Id
      <4>2. st' = [st EXCEPT ![new] = "active"]
        BY <3>1, <3>3, <4>1
      <4>3. Lifecycle!Write(new)
        BY <3>2, <4>2 DEF Lifecycle!Write
      <4>4. QED BY <4>3 DEF Lifecycle!Next
    <3>4. CASE old # None
      <4>1. rows[old].status \in Statuses \ {"none"} /\ old # new
        BY <3>1, <3>2, <3>4 DEF TypeOK, Row
      <4>2. st' = [st EXCEPT ![new] = "active", ![old] = "superseded"]
        BY <3>1, <3>4, <4>1
      <4>3. Lifecycle!Replace(new, old)
        BY <3>1, <3>2, <3>4, <4>1, <4>2 DEF Lifecycle!Replace, Lifecycle!Statuses, Statuses
      <4>4. new \in Id /\ old \in Id
        BY <3>1, <3>4
      <4>5. QED BY <4>3, <4>4 DEF Lifecycle!Next
    <3>5. QED BY <3>3, <3>4
  <2>3. ASSUME \A i \in Id : rows'[i].status # rows[i].status =>
                 rows'[i].status = "archived" /\ rows[i].status # "none"
        PROVE Lifecycle!Next
    <3>1. PICK S \in SUBSET Id : S = {i \in Id : rows'[i].status # rows[i].status}
      OBVIOUS
    <3>2. \A i \in S : st[i] # "none"
      BY <2>3, <3>1
    <3>3. st' = [i \in Id |-> IF i \in S THEN "archived" ELSE st[i]]
      BY <2>3, <3>1
    <3>4. Lifecycle!Archive(S)
      BY <3>2, <3>3 DEF Lifecycle!Archive
    <3>5. QED BY <3>4 DEF Lifecycle!Next
  <2>4. QED
    BY <2>1, <2>2, <2>3, TableSteps
<1>3. QED
  BY <1>1, <1>2, StoreTyped, StoreAccounted, PTL DEF Spec, LifecycleKept, Lifecycle!Spec
-----------------------------------------------------------------------------
(* While only one thread promotes turns, every row it holds to decide on   *)
(* is one nobody has replaced: commands archive rows behind its back, but  *)
(* nobody else replaces them.                                              *)
Unreplaced ==
  (\A v, w \in Consolidators : v = w) =>
    \A w \in Consolidators : pc[w] = "fetched" =>
      \A i \in seen[w], j \in Id : rows[j].supersedes # i

(* No row is replaced twice while one thread promotes turns.               *)
THEOREM StoreSingleReplacement == Spec => []SingleReplacement
<1> DEFINE Inv == SingleReplacement /\ Unreplaced
<1> USE DEF SingleReplacement, Unreplaced, Goto, Keep
<1>1. Init => Inv
  <2> SUFFICES ASSUME Init PROVE Inv
    OBVIOUS
  <2>1. \A i \in Id : rows[i].supersedes = None
    BY DEF Init, Blank
  <2>2. \A w \in Consolidators : pc[w] # "fetched"
    BY StoreAssumption DEF StoreAssumption, Init, Workers
  <2>3. QED BY <2>1, <2>2
<1>2. TypeOK /\ Accounted /\ HistoryKept /\ Inv /\ [Next]_vars => Inv'
  <2> SUFFICES ASSUME TypeOK, Accounted, HistoryKept, Inv, [Next]_vars,
                      \A v, w \in Consolidators : v = w
               PROVE  /\ \A i, j \in Id : rows'[i].supersedes = rows'[j].supersedes
                                          /\ i # j => rows'[i].supersedes = None
                      /\ \A w \in Consolidators : pc'[w] = "fetched" =>
                           \A i \in seen'[w], j \in Id : rows'[j].supersedes # i
    OBVIOUS
  <2>a. /\ rows \in [Id -> Row]
        /\ pc \in [Workers -> Places]
        /\ ids \in [Workers -> SUBSET Id]
        /\ seen \in [Workers -> SUBSET Id]
        /\ \A i \in Id : i \in Nat /\ i # None
        /\ Consolidators \subseteq Workers
    BY StoreAssumption DEF StoreAssumption, TypeOK, Id, None, Workers
  <2>1. ASSUME NEW w \in Workers, Inserted(w)
        PROVE  /\ \A i, j \in Id : rows'[i].supersedes = rows'[j].supersedes
                                   /\ i # j => rows'[i].supersedes = None
               /\ \A x \in Consolidators : pc'[x] = "fetched" =>
                    \A i \in seen'[x], j \in Id : rows'[j].supersedes # i
    <3>1. PICK new \in Id, old \in seen[w] \cup {None} :
           /\ rows[new] = Blank
           /\ old # None => w \in Consolidators /\ pc[w] = "fetched"
           /\ old # None => old \in Id /\ rows[old].status # "none"
           /\ rows'[new].supersedes = old
           /\ old # None => rows'[old].supersedes = rows[old].supersedes
           /\ \A i \in Id \ {new, old} : rows'[i] = rows[i]
      BY <2>1, InsertSteps
    <3>2. \A i \in Id \ {new} : rows'[i].supersedes = rows[i].supersedes
      BY <3>1, <2>a
    <3>3. old # None => \A i \in Id : rows[i].supersedes # old
      <4>1. \A x \in Consolidators : pc[x] = "fetched" =>
              \A i \in seen[x], j \in Id : rows[j].supersedes # i
        OBVIOUS
      <4>2. old # None => w \in Consolidators /\ pc[w] = "fetched" /\ old \in seen[w]
        BY <3>1
      <4>3. QED BY <4>1, <4>2
    <3>4. /\ \A x \in Workers \ {w} : pc'[x] = pc[x] /\ seen'[x] = seen[x]
          /\ pc'[w] # "fetched"
      BY <2>1, <2>a DEF Inserted, InsertRow
    <3>5. \A i, j \in Id : rows'[i].supersedes = rows'[j].supersedes /\ i # j
                           => rows'[i].supersedes = None
      BY <3>1, <3>2, <3>3
    <3>6. ASSUME NEW x \in Consolidators, pc'[x] = "fetched",
                 NEW i \in seen'[x], NEW j \in Id
          PROVE rows'[j].supersedes # i
      <4>1. x # w /\ pc[x] = "fetched" /\ i \in seen[x] /\ i \in Id
        BY <3>4, <3>6, <2>a
      <4>2. old = None
        BY <3>1, <4>1
      <4>3. QED BY <4>1, <4>2, <3>1, <3>2, <2>a
    <3>7. QED BY <3>5, <3>6
  <2>2. ASSUME \A i \in Id : rows'[i].supersedes = rows[i].supersedes,
               ~\E w \in Workers : Inserted(w)
        PROVE  \A w \in Consolidators : pc'[w] = "fetched" =>
                 \A i \in seen'[w], j \in Id : rows'[j].supersedes # i
    <3>1. ASSUME NEW w \in Workers, Fetch(w)
          PROVE \A i \in seen'[w], j \in Id : rows[j].supersedes # i
      <4>1. \A i \in seen'[w] : i \in Id /\ rows[i].status = "active"
        BY <3>1, <2>a DEF Fetch, Eligible, Live
      <4>2. \A i, j \in Id : rows[j].supersedes = i => rows[i].supersededBy >= j
        BY <2>a DEF HistoryKept
      <4>3. \A i \in Id : rows[i].status = "active" => rows[i].supersededBy = None
        BY DEF HistoryKept
      <4>4. QED BY <4>1, <4>2, <4>3, <2>a DEF None
    <3>2. \A x \in Consolidators : pc'[x] = "fetched" =>
            Fetch(x) \/ (pc[x] = "fetched" /\ seen'[x] = seen[x])
      <4>1. ASSUME NEW w \in Workers, Stepped(w), ~Inserted(w), NEW x \in Consolidators,
                   pc'[x] = "fetched"
            PROVE Fetch(x) \/ (pc[x] = "fetched" /\ seen'[x] = seen[x])
        <5>a. pc[x] # "remove" /\ x \notin Cli /\ x \in Workers
          BY <2>a, StoreAssumption DEF StoreAssumption, Accounted, Routed
        <5>1. CASE x = w
          BY <4>1, <5>1, <5>a, <2>a
          DEF Stepped, ReinforceExact, Upsert, ArchiveDuplicate, NoSummary, Purge,
              PurgeSelect, Remove, RebuildRead, RebuildClear, RebuildFill, RebuildPersist,
              Search, ReadHit, Recall, Interrupt
        <5>2. CASE x # w
          BY <4>1, <5>2, <2>a
          DEF Stepped, Fetch, ReinforceExact, Upsert, ArchiveDuplicate, NoSummary, Purge,
              PurgeSelect, Remove, RebuildRead, RebuildClear, RebuildFill, RebuildPersist,
              Search, ReadHit, Recall, Interrupt
        <5>3. QED BY <5>1, <5>2
      <4>2. CASE UNCHANGED vars
        BY <4>2 DEF vars
      <4>3. CASE Upgrade \/ \E i \in Id : Tick(i)
        BY <4>3 DEF Upgrade, Tick
      <4>4. QED
        BY <2>2, <4>1, <4>2, <4>3, StepCases
    <3>3. QED
      BY <2>2, <2>a, <3>1, <3>2
  <2>3. QED
    BY <2>1, <2>2, TableSteps
<1>3. QED
  BY <1>1, <1>2, StoreTyped, StoreAccounted, StoreHistoryKept, PTL DEF Spec
=============================================================================
