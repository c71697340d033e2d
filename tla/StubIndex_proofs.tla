-------------------------- MODULE StubIndex_proofs --------------------------
(***************************************************************************)
(* Proofs about StubIndex, for any threads, processes, rows and crashes.   *)
(***************************************************************************)
EXTENDS StubIndex, TLAPS

(* At most one entry for an id.                                            *)
Keyed(S) == \A d, e \in S : d.id = e.id => d = e

(* What a worker holds is keyed, belongs to its place, and agrees with the *)
(* table: what it adds is new and as in the table, if it is still there,   *)
(* and what it removes is in the table no more.                            *)
Holds(w) ==
  /\ Keyed(entries[w]) /\ Keyed(out[w])
  /\ pc[w] = "wait" => work[w] \in {"upsert", "remove"}
  /\ pc[w] = "clear" => work[w] = "clear"
  /\ pc[w] = "load" => work[w] = "fill"
  /\ Ids(entries[w]) \subseteq born
  /\ work[w] = "upsert" =>
       \A d \in entries[w] : d.id \in New /\ \A e \in table : d.id = e.id => d = e
  /\ work[w] = "remove" => Ids(entries[w]) \cap Ids(table) = {}

Consistent ==
  /\ Ids(table) \subseteq born
  /\ \A e \in table : e.platform = "" => e.id \in Legacy
  /\ \A w \in Workers : Holds(w)

IInv == TypeOK /\ Consistent
-----------------------------------------------------------------------------
LEMMA IdOf == ASSUME NEW S, NEW i PROVE i \in Ids(S) <=> \E e \in S : e.id = i
BY DEF Ids

LEMMA RowsWith ==
  ASSUME NEW S, NEW v, NEW e
  PROVE  e \in [id : S, platform : {v}] <=> e.id \in S /\ e = [id |-> e.id, platform |-> v]
<1>1. ASSUME e \in [id : S, platform : {v}]
      PROVE  e.id \in S /\ e = [id |-> e.id, platform |-> v]
  BY <1>1
<1>2. ASSUME e.id \in S, e = [id |-> e.id, platform |-> v]
      PROVE  e \in [id : S, platform : {v}]
  <2>1. [id |-> e.id, platform |-> v] \in [id : S, platform : {v}]
    BY <1>2
  <2> QED  BY <1>2, <2>1
<1> QED  BY <1>1, <1>2

LEMMA FileRows == TypeOK => file.rows \subseteq Entry /\ Keyed(file.rows)
<1> SUFFICES ASSUME TypeOK PROVE file.rows \subseteq Entry /\ Keyed(file.rows)
  OBVIOUS
<1>1. CASE file \in {Blank, Torn}
  BY <1>1 DEF Blank, Torn, Keyed
<1>2. ASSUME NEW S \in SUBSET Entry, file = Json(S) PROVE file.rows \subseteq Entry
  BY <1>2 DEF Json
<1> QED  BY <1>1, <1>2 DEF TypeOK, Keyed

(* A step that leaves the table and the ids alone, and gives one worker    *)
(* something consistent to hold.                                           *)
LEMMA OneHolds ==
  ASSUME IInv, NEW w \in Workers, UNCHANGED <<table, born>>, Holds(w)',
         \A x \in Workers \ {w} : /\ pc'[x] = pc[x] /\ work'[x] = work[x]
                                  /\ entries'[x] = entries[x] /\ out'[x] = out[x]
  PROVE  Consistent'
<1>1. ASSUME NEW x \in Workers \ {w} PROVE Holds(x)'
  BY <1>1 DEF IInv, Consistent, Holds
<1> QED  BY <1>1 DEF IInv, Consistent

(* What a load leaves in the hands of a worker.                            *)
LEMMA MergedKeyed ==
  ASSUME IInv, NEW w \in Workers
  PROVE  Merged(w) \subseteq Entry /\ Keyed(Merged(w))
<1>1. /\ entries[w] \subseteq Entry /\ Keyed(entries[w])
      /\ file.rows \subseteq Entry /\ Keyed(file.rows)
  BY FileRows DEF IInv, TypeOK, Consistent, Holds
<1>2. ASSUME NEW d \in Merged(w), NEW e \in Merged(w), d.id = e.id PROVE d = e
  BY <1>1, <1>2, IdOf DEF Merged, Keyed
<1> QED  BY <1>1, <1>2 DEF Merged, Keyed

LEMMA InitConsistent == Init => IInv
<1> SUFFICES ASSUME Init PROVE IInv
  OBVIOUS
<1>1. table = [id : Legacy, platform : {""}]
  BY DEF Init
<1>2. \A e \in table : e.id \in Legacy /\ e = [id |-> e.id, platform |-> ""]
  BY <1>1, RowsWith
<1>3. Ids(table) \subseteq Legacy /\ Keyed(table) /\ table \subseteq Entry
  <2>1. Keyed(table)
    BY <1>2 DEF Keyed
  <2>2. \A i \in Legacy : [id |-> i, platform |-> ""] \in Entry
    BY DEF Entry
  <2>3. table \subseteq Entry
    BY <1>2, <2>2
  <2>4. ASSUME NEW i \in Ids(table) PROVE i \in Legacy
    BY <1>2, <2>4, IdOf
  <2> QED  BY <2>1, <2>3, <2>4
<1>4. file = Json(table) /\ file.rows = table
  BY DEF Init, Json
<1>5. TypeOK
  <2>1. /\ file \in {Blank, Torn} \cup {Json(S) : S \in SUBSET Entry}
        /\ \A d, e \in file.rows : d.id = e.id => d = e
    BY <1>3, <1>4 DEF Keyed
  <2>2. table \subseteq Entry /\ \A d, e \in table : d.id = e.id => d = e
    BY <1>3 DEF Keyed
  <2>3. /\ born \subseteq Legacy \cup New /\ crashes \in 0..MaxCrashes
        /\ pc \in [Workers -> Places] /\ mixed \subseteq Workers /\ met \subseteq Workers
        /\ work \in [Workers -> {"none", "upsert", "remove", "clear", "fill"}]
        /\ entries \in [Workers -> SUBSET Entry] /\ out \in [Workers -> SUBSET Entry]
        /\ disturbed \in BOOLEAN /\ overtaken \in BOOLEAN
    <3>1. /\ born = Legacy /\ crashes = 0 /\ mixed = {} /\ met = {} /\ disturbed = FALSE
          /\ overtaken = FALSE
          /\ pc = [w \in Workers |-> "idle"] /\ work = [w \in Workers |-> "none"]
          /\ entries = [w \in Workers |-> {}] /\ out = [w \in Workers |-> {}]
      BY DEF Init
    <3>2. 0 \in 0..MaxCrashes
      BY StubAssumption
    <3>3. "idle" \in Places
      BY DEF Places
    <3>4. /\ pc \in [Workers -> Places]
          /\ work \in [Workers -> {"none", "upsert", "remove", "clear", "fill"}]
          /\ entries \in [Workers -> SUBSET Entry] /\ out \in [Workers -> SUBSET Entry]
      BY <3>1, <3>3
    <3> QED  BY <3>1, <3>2, <3>4
  <2> QED  BY <2>1, <2>2, <2>3 DEF TypeOK
<1>6. Consistent
  <2>1. Keyed({}) /\ Ids({}) = {}
    BY DEF Keyed, Ids
  <2>2. \A w \in Workers : Holds(w)
    BY <2>1 DEF Init, Holds
  <2> QED  BY <1>2, <1>3, <2>2 DEF Init, Consistent
<1> QED  BY <1>5, <1>6 DEF IInv

LEMMA IInvStep == IInv /\ [Next]_vars => IInv'
<1> SUFFICES ASSUME IInv, [Next]_vars PROVE IInv'
  OBVIOUS
<1> USE DEF Goto, Does, Becomes, history
<1>1. ASSUME NEW w \in Workers, NEW i \in New, Insert(w, i) PROVE IInv'
  <2> DEFINE new == [id |-> i, platform |-> "known"]
  <2>1. /\ new \in Entry /\ i \notin born /\ born' = born \cup {i}
        /\ table' = table \cup {new} /\ i \notin Ids(table)
        /\ pc' = [pc EXCEPT ![w] = "wait"] /\ work' = [work EXCEPT ![w] = "upsert"]
        /\ entries' = [entries EXCEPT ![w] = {new}]
        /\ UNCHANGED <<file, out, mixed, crashes, met, disturbed, overtaken>>
    BY <1>1 DEF Insert, Entry, IInv, Consistent
  <2>2. \A e \in table : e.id # i
    BY <2>1 DEF Ids
  <2>3. Keyed(table')
    BY <2>1, <2>2 DEF IInv, TypeOK, Keyed
  <2>4. TypeOK'
    BY <2>1, <2>3 DEF IInv, TypeOK, Keyed, Places, Entry
  <2>5. Ids(table') = Ids(table) \cup {i}
    BY <2>1 DEF Ids
  <2>6. Holds(w)'
    <3>1. /\ entries'[w] = {new} /\ pc'[w] = "wait" /\ work'[w] = "upsert"
          /\ out'[w] = out[w] /\ Keyed(out[w])
      BY <2>1 DEF IInv, TypeOK, Consistent, Holds
    <3>2. Keyed({new}) /\ Ids({new}) = {i}
      BY DEF Keyed, Ids
    <3>3. \A d \in entries'[w] : d.id \in New /\ \A e \in table' : d.id = e.id => d = e
      BY <1>1, <2>1, <2>2, <3>1
    <3>4. Ids(entries'[w]) \subseteq born'
      BY <2>1, <3>1, <3>2
    <3> QED  BY <3>1, <3>2, <3>3, <3>4 DEF Holds
  <2>7. ASSUME NEW x \in Workers \ {w} PROVE Holds(x)'
    <3>1. /\ Holds(x) /\ i \notin Ids(entries[x])
          /\ \A d \in entries[x] : d.id # i
      <4>1. Holds(x)
        BY <2>7 DEF IInv, Consistent
      <4>2. Ids(entries[x]) \subseteq born
        BY <4>1 DEF Holds
      <4>3. \A d \in entries[x] : d.id \in Ids(entries[x])
        BY IdOf
      <4> QED  BY <2>1, <4>1, <4>2, <4>3
    <3>2. /\ pc'[x] = pc[x] /\ work'[x] = work[x] /\ entries'[x] = entries[x]
          /\ out'[x] = out[x]
      BY <2>1, <2>7 DEF IInv, TypeOK
    <3>3. \A d \in entries[x], e \in table' : d.id = e.id => e \in table
      BY <2>1, <3>1
    <3>4. Ids(entries[x]) \cap Ids(table') = Ids(entries[x]) \cap Ids(table)
      BY <2>5, <3>1
    <3> QED  BY <2>1, <3>1, <3>2, <3>3, <3>4 DEF Holds
  <2>8. Consistent'
    <3>1. Ids(table') \subseteq born' /\ \A x \in Workers : Holds(x)'
      BY <2>1, <2>5, <2>6, <2>7 DEF IInv, Consistent
    <3>2. ASSUME NEW e \in table', e.platform = "" PROVE e.id \in Legacy
      <4>1. new.platform # ""
        OBVIOUS
      <4> HIDE DEF new
      <4>2. e \in table
        BY <2>1, <3>2, <4>1
      <4> QED  BY <3>2, <4>2 DEF IInv, Consistent
    <3> QED  BY <3>1, <3>2 DEF Consistent
  <2> QED  BY <2>4, <2>8 DEF IInv
<1>2. ASSUME NEW w \in Workers, NEW e \in Entry, Archive(w, e) PROVE IInv'
  <2>1. /\ e \in table /\ table' = table \ {e} /\ born' = born
        /\ pc' = [pc EXCEPT ![w] = "wait"] /\ work' = [work EXCEPT ![w] = "remove"]
        /\ entries' = [entries EXCEPT ![w] = {e}]
        /\ UNCHANGED <<file, out, mixed, crashes, met, disturbed, overtaken>>
    BY <1>2 DEF Archive
  <2>2. TypeOK'
    BY <2>1 DEF IInv, TypeOK, Places
  <2>3. Ids(table') \subseteq Ids(table) /\ e.id \in Ids(table) /\ e.id \notin Ids(table')
    BY <2>1 DEF Ids, IInv, TypeOK
  <2>4. Holds(w)'
    <3>1. /\ entries'[w] = {e} /\ pc'[w] = "wait" /\ work'[w] = "remove"
          /\ out'[w] = out[w] /\ Keyed(out[w])
      BY <2>1 DEF IInv, TypeOK, Consistent, Holds
    <3>2. Keyed({e}) /\ Ids({e}) = {e.id}
      BY DEF Keyed, Ids
    <3>3. Ids(entries'[w]) \subseteq born' /\ Ids(entries'[w]) \cap Ids(table') = {}
      BY <2>1, <2>3, <3>1, <3>2 DEF IInv, Consistent
    <3> QED  BY <3>1, <3>2, <3>3 DEF Holds
  <2>5. ASSUME NEW x \in Workers \ {w} PROVE Holds(x)'
    <3>1. /\ Holds(x) /\ pc'[x] = pc[x] /\ work'[x] = work[x]
          /\ entries'[x] = entries[x] /\ out'[x] = out[x]
      BY <2>1, <2>5 DEF IInv, TypeOK, Consistent
    <3> QED  BY <2>1, <2>3, <3>1 DEF Holds
  <2>6. Consistent'
    BY <2>1, <2>3, <2>4, <2>5 DEF IInv, Consistent
  <2> QED  BY <2>2, <2>6 DEF IInv
<1>3. ASSUME NEW w \in Workers, Backfill(w) PROVE IInv'
  <2>1. /\ table' = (table \ Unplaced) \cup [id : Ids(Unplaced), platform : {"known"}]
        /\ pc' = [pc EXCEPT ![w] = "read"] /\ pc[w] = "idle"
        /\ UNCHANGED <<born, file, work, entries, out, mixed, crashes, met, disturbed, overtaken>>
    BY <1>3 DEF Backfill
  <2>2. \A e \in table' : \/ e \in table /\ e.platform # ""
                          \/ /\ e = [id |-> e.id, platform |-> "known"]
                             /\ \E d \in table : d.id = e.id /\ d.platform = ""
    <3>1. ASSUME NEW e \in [id : Ids(Unplaced), platform : {"known"}]
          PROVE  /\ e = [id |-> e.id, platform |-> "known"]
                 /\ \E d \in table : d.id = e.id /\ d.platform = ""
      <4>1. e.id \in Ids(Unplaced) /\ e = [id |-> e.id, platform |-> "known"]
        BY <3>1, RowsWith
      <4>2. PICK d \in Unplaced : d.id = e.id
        BY <4>1, IdOf
      <4>3. d \in table /\ d.platform = ""
        BY DEF Unplaced
      <4> QED  BY <4>1, <4>2, <4>3
    <3>2. \A e \in table \ Unplaced : e.platform # ""
      BY DEF Unplaced
    <3> QED  BY <2>1, <3>1, <3>2
  <2>3. table' \subseteq Entry
    <3>1. ASSUME NEW e \in table', e \notin table PROVE e \in Entry
      <4>1. PICK d \in table : d.id = e.id
        BY <2>2, <3>1
      <4>2. e.id \in Legacy \cup New
        BY <4>1 DEF IInv, TypeOK, Entry
      <4>3. [id |-> e.id, platform |-> "known"] \in Entry
        BY <4>2 DEF Entry
      <4> QED  BY <2>2, <3>1, <4>3
    <3> QED  BY <3>1 DEF IInv, TypeOK
  <2>4. ASSUME NEW d \in table', NEW e \in table', d.id = e.id PROVE d = e
    BY <2>2, <2>4 DEF IInv, TypeOK
  <2>5. TypeOK'
    BY <2>1, <2>3, <2>4 DEF IInv, TypeOK, Places
  <2>6. Ids(table') \subseteq Ids(table) /\ \A e \in table' : e.platform # ""
    <3>1. ASSUME NEW e \in table' PROVE e.platform # ""
      <4>1. [id |-> e.id, platform |-> "known"].platform # ""
        OBVIOUS
      <4> QED  BY <2>2, <4>1
    <3>2. ASSUME NEW i \in Ids(table') PROVE i \in Ids(table)
      <4>1. PICK e \in table' : e.id = i
        BY <3>2, IdOf
      <4>2. PICK d \in table : d.id = i
        BY <2>2, <4>1
      <4> QED  BY <4>2, IdOf
    <3> QED  BY <3>1, <3>2
  <2>7. ASSUME NEW x \in Workers PROVE Holds(x)'
    <3>1. /\ Holds(x) /\ work'[x] = work[x] /\ entries'[x] = entries[x]
          /\ out'[x] = out[x] /\ (pc'[x] = pc[x] \/ pc'[x] = "read")
      BY <2>1 DEF IInv, TypeOK, Consistent
    <3>2. \A d \in table : d.platform = "" => d.id \notin New
      BY StubAssumption DEF IInv, Consistent
    <3>3. work[x] = "upsert" =>
            \A d \in entries[x] : d.id \in New /\ \A e \in table' : d.id = e.id => d = e
      BY <2>2, <3>1, <3>2 DEF Holds
    <3> QED  BY <2>1, <2>6, <3>1, <3>3 DEF Holds
  <2>8. Consistent'
    BY <2>1, <2>6, <2>7 DEF IInv, Consistent
  <2> QED  BY <2>5, <2>8 DEF IInv
<1>4. ASSUME NEW w \in Workers, RebuildIndex(w) PROVE IInv'
  <2>1. /\ pc' = [pc EXCEPT ![w] = "clear"] /\ work' = [work EXCEPT ![w] = "clear"]
        /\ entries' = [entries EXCEPT ![w] = table]
        /\ UNCHANGED <<table, born, file, out, mixed, crashes>>
        /\ met' \subseteq Workers
        /\ disturbed' \in BOOLEAN /\ overtaken' \in BOOLEAN
    BY <1>4 DEF RebuildIndex, Meets, Beside, Open, IInv, TypeOK
  <2>2. TypeOK'
    BY <2>1 DEF IInv, TypeOK, Places
  <2>3. Holds(w)'
    BY <2>1 DEF Holds, IInv, TypeOK, Consistent, Keyed
  <2> QED  BY <2>1, <2>2, <2>3, OneHolds DEF IInv, TypeOK
<1>5. ASSUME NEW w \in Workers, Clear(w) PROVE IInv'
  <2>1. /\ pc' = [pc EXCEPT ![w] = "save"] /\ out' = [out EXCEPT ![w] = {}]
        /\ UNCHANGED <<table, born, file, work, entries, mixed, crashes, met, disturbed, overtaken>>
    BY <1>5 DEF Clear
  <2>2. TypeOK'
    BY <2>1 DEF IInv, TypeOK, Places, Locked
  <2>3. Holds(w)'
    BY <2>1 DEF Holds, IInv, TypeOK, Consistent, Keyed
  <2> QED  BY <2>1, <2>2, <2>3, OneHolds DEF IInv, TypeOK
<1>6. ASSUME NEW w \in Workers, Load(w) PROVE IInv'
  <2>1. /\ pc' = [pc EXCEPT ![w] = "save"] /\ out' = [out EXCEPT ![w] = Merged(w)]
        /\ UNCHANGED <<table, born, file, work, entries, mixed, crashes>>
        /\ met' \subseteq Workers
        /\ disturbed' \in BOOLEAN /\ overtaken' \in BOOLEAN
    BY <1>6 DEF Load, Meets, Beside, Open, IInv, TypeOK
  <2>2. TypeOK'
    BY <2>1, MergedKeyed DEF IInv, TypeOK, Places, Locked
  <2>3. Holds(w)'
    BY <2>1, MergedKeyed DEF Holds, IInv, TypeOK, Consistent
  <2> QED  BY <2>1, <2>2, <2>3, OneHolds DEF IInv, TypeOK
<1>7. ASSUME NEW w \in Workers, LoadRaises(w) PROVE IInv'
  <2>1. /\ pc' = [pc EXCEPT ![w] = "idle"] /\ work' = [work EXCEPT ![w] = "none"]
        /\ entries' = [entries EXCEPT ![w] = {}]
        /\ UNCHANGED <<table, born, file, out, mixed, crashes>>
        /\ met' \subseteq Workers
        /\ disturbed' \in BOOLEAN /\ overtaken' \in BOOLEAN
    BY <1>7 DEF LoadRaises, Open, IInv, TypeOK
  <2>2. TypeOK'
    BY <2>1 DEF IInv, TypeOK, Places
  <2>3. Holds(w)'
    BY <2>1 DEF Holds, IInv, TypeOK, Consistent, Keyed, Ids
  <2> QED  BY <2>1, <2>2, <2>3, OneHolds DEF IInv, TypeOK
<1>8. ASSUME NEW w \in Workers, Truncate(w) \/ WritePart(w) PROVE IInv'
  <2>1. /\ pc' = [pc EXCEPT ![w] = "write"] /\ file' \in {Blank, Torn}
        /\ UNCHANGED <<table, born, work, entries, out, crashes, met, disturbed, overtaken>>
        /\ mixed' \subseteq Workers
    BY <1>8 DEF Truncate, WritePart, Others, IInv, TypeOK
  <2>2. file'.rows = {}
    BY <2>1 DEF Blank, Torn
  <2>3. TypeOK'
    BY <2>1, <2>2 DEF IInv, TypeOK, Places, Locked
  <2>4. Holds(w)'
    BY <2>1 DEF Holds, IInv, TypeOK, Consistent
  <2> QED  BY <2>1, <2>3, <2>4, OneHolds DEF IInv, TypeOK
<1>9. ASSUME NEW w \in Workers, WriteCleared(w) \/ WriteRest(w) PROVE IInv'
  <2>1. /\ UNCHANGED <<table, born, crashes>>
        /\ file' \in {Json(out[w]), Torn} /\ out' = [out EXCEPT ![w] = {}]
        /\ mixed' \subseteq Workers /\ met' \subseteq Workers
        /\ disturbed' \in BOOLEAN /\ overtaken' \in BOOLEAN
    BY <1>9 DEF WriteCleared, WriteRest, Written, Others, Mends, IInv, TypeOK
  <2>2. \/ /\ pc' = [pc EXCEPT ![w] = "load"] /\ work' = [work EXCEPT ![w] = "fill"]
           /\ entries' = entries
        \/ /\ pc' = [pc EXCEPT ![w] = "idle"] /\ work' = [work EXCEPT ![w] = "none"]
           /\ entries' = [entries EXCEPT ![w] = {}]
    BY <1>9 DEF WriteCleared, WriteRest
  <2>3. file' \in {Blank, Torn} \cup {Json(S) : S \in SUBSET Entry} /\ Keyed(file'.rows)
    <3>1. out[w] \in SUBSET Entry /\ Keyed(out[w])
      BY DEF IInv, TypeOK, Consistent, Holds
    <3>2. Json(out[w]).rows = out[w] /\ Torn.rows = {}
      BY DEF Json, Torn
    <3>3. CASE file' = Torn
      BY <3>2, <3>3 DEF Keyed
    <3>4. CASE file' = Json(out[w])
      BY <3>1, <3>2, <3>4
    <3> QED  BY <2>1, <3>3, <3>4
  <2>4. TypeOK'
    BY <2>1, <2>2, <2>3 DEF IInv, TypeOK, Places, Locked, Keyed
  <2>5. Holds(w)'
    BY <2>1, <2>2 DEF Holds, IInv, TypeOK, Consistent, Keyed, Ids
  <2> QED  BY <2>1, <2>2, <2>4, <2>5, OneHolds DEF IInv, TypeOK
<1>10. ASSUME NEW p, Crash(p) PROVE IInv'
  <2> DEFINE gone == {w \in Workers : Process[w] = p}
  <2>1. /\ pc' = [w \in Workers |-> IF w \in gone THEN "idle" ELSE pc[w]]
        /\ work' = [w \in Workers |-> IF w \in gone THEN "none" ELSE work[w]]
        /\ entries' = [w \in Workers |-> IF w \in gone THEN {} ELSE entries[w]]
        /\ out' = [w \in Workers |-> IF w \in gone THEN {} ELSE out[w]]
        /\ UNCHANGED <<table, born, file>>
        /\ mixed' \subseteq Workers /\ met' \subseteq Workers
        /\ disturbed' \in BOOLEAN /\ overtaken' \in BOOLEAN
    BY <1>10 DEF Crash, Open, IInv, TypeOK
  <2>2. crashes' \in 0..MaxCrashes
    BY <1>10, StubAssumption DEF Crash, IInv, TypeOK
  <2>3. TypeOK'
    BY <2>1, <2>2 DEF IInv, TypeOK, Places
  <2>4. ASSUME NEW x \in Workers PROVE Holds(x)'
    BY <2>1 DEF Holds, IInv, Consistent, Keyed, Ids
  <2> QED  BY <2>1, <2>3, <2>4 DEF IInv, Consistent
<1>11. CASE UNCHANGED vars
  BY <1>11 DEF vars, IInv, TypeOK, Consistent, Holds
<1> QED
  BY <1>1, <1>2, <1>3, <1>4, <1>5, <1>6, <1>7, <1>8, <1>9, <1>10, <1>11 DEF Next, Step

(* The state of the workers, the table and the file has its type: no id is *)
(* twice in the file, which is what keying by memory_id is for.            *)
THEOREM IndexTyped == Spec => []TypeOK
<1>1. Spec => []IInv
  BY InitConsistent, IInvStep, PTL DEF Spec
<1>2. IInv => TypeOK
  BY DEF IInv
<1> QED  BY <1>1, <1>2, PTL
-----------------------------------------------------------------------------
(* Who is at the file with whom.  The lock of a process lets one of its    *)
(* workers at the file.  Of two that are there or about to rebuild, in two *)
(* processes or both about to rebuild, each has met another, and that is   *)
(* recorded; and only those of two processes mix up what they write.       *)
Upset == disturbed \/ overtaken
Meeting(w, x) == Process[w] # Process[x] \/ (pc[w] = "clear" /\ pc[x] = "clear")
Apart ==
  /\ \A w, x \in Workers :
       pc[w] \in Locked /\ pc[x] \in Locked /\ Process[w] = Process[x] => w = x
  /\ \A w, x \in Open : w # x /\ Meeting(w, x) => w \in met /\ Upset
  /\ \A w, x \in Open : Process[w] # Process[x] => disturbed
  /\ \A w \in Open : w \in met => Upset
  /\ \A w \in mixed : pc[w] = "write" /\ w \in met /\ disturbed

LEMMA InitApart == Init => Apart
<1> SUFFICES ASSUME Init PROVE Apart
  OBVIOUS
<1>1. Open = {} /\ mixed = {} /\ \A w \in Workers : pc[w] \notin Locked
  BY DEF Init, Open, Locked
<1> QED  BY <1>1 DEF Apart

(* A step of one worker between two places at the file.                    *)
LEMMA ApartStays ==
  ASSUME TypeOK, Apart, NEW w \in Open, NEW place \in Locked,
         pc' = [pc EXCEPT ![w] = place], pc[w] \in Locked \/ LockFree(w),
         UNCHANGED <<met, disturbed, overtaken>>,
         \A x \in mixed' : pc'[x] = "write" /\ x \in met /\ disturbed
  PROVE  Apart'
<1>1. /\ w \in Workers /\ \A x \in Workers : pc'[x] = IF x = w THEN place ELSE pc[x]
      /\ place # "clear"
  BY DEF Open, TypeOK, Locked
<1>2. Open' = Open
  BY <1>1 DEF Open, Locked
<1>3. \A v, x \in Workers :
        pc'[v] \in Locked /\ pc'[x] \in Locked /\ Process[v] = Process[x] => v = x
  BY <1>1 DEF Apart, LockFree
<1>4. \A v, x \in Open : Meeting(v, x)' => Meeting(v, x)
  BY <1>1 DEF Meeting, Open
<1> QED  BY <1>2, <1>3, <1>4 DEF Apart, Upset

(* A worker that comes to the file.                                        *)
LEMMA ApartJoined ==
  ASSUME TypeOK, Apart, NEW w \in Workers \ Open, NEW place \in Locked \cup {"clear"},
         pc' = [pc EXCEPT ![w] = place], place = "clear" \/ LockFree(w),
         Meets(w), mixed' = mixed
  PROVE  Apart'
<1>1. /\ w \in Workers /\ \A x \in Workers : pc'[x] = IF x = w THEN place ELSE pc[x]
      /\ Open' = Open \cup {w} /\ w \notin Open
  BY DEF Open, TypeOK, Locked
<1>2. /\ Beside(w) \subseteq Open
      /\ met' = IF Beside(w) = {} THEN met \ {w} ELSE met \cup Beside(w) \cup {w}
      /\ disturbed' = (disturbed \/ \E x \in Beside(w) : Process[x] # Process[w])
      /\ overtaken' = (~disturbed' /\ (overtaken \/ Beside(w) # {}))
  BY DEF Meets, Beside
<1>. (disturbed => disturbed') /\ (Upset \/ Beside(w) # {} => Upset')
  BY <1>2 DEF Upset
<1>3. \A v, x \in Workers :
        pc'[v] \in Locked /\ pc'[x] \in Locked /\ Process[v] = Process[x] => v = x
  BY <1>1 DEF Apart, LockFree, Locked
<1>4. ASSUME NEW x \in Open, Meeting(w, x)' PROVE x \in Beside(w)
  BY <1>1, <1>4 DEF Meeting, Beside
<1>5. ASSUME NEW v \in Open', NEW x \in Open', v # x, Meeting(v, x)'
      PROVE  v \in met' /\ Upset'
  <2>1. CASE v = w
    BY <1>1, <1>2, <1>4, <1>5, <2>1
  <2>2. CASE x = w
    <3>1. Meeting(w, v)'
      BY <1>5, <2>2 DEF Meeting
    <3> QED  BY <1>1, <1>2, <1>4, <1>5, <2>2, <3>1
  <2>3. CASE v # w /\ x # w
    <3>1. v \in Open /\ x \in Open /\ Meeting(v, x)
      BY <1>1, <1>5, <2>3 DEF Meeting, Open
    <3> QED  BY <1>1, <1>2, <1>5, <3>1 DEF Apart
  <2> QED  BY <2>1, <2>2, <2>3
<1>6. \A v \in Open' : v \in met' => Upset'
  BY <1>1, <1>2 DEF Apart
<1>7. \A v \in mixed' : pc'[v] = "write" /\ v \in met' /\ disturbed'
  <2>1. \A v \in mixed : v \in Open /\ v \in Workers
    BY DEF Apart, Open, Locked, TypeOK
  <2> QED  BY <1>1, <1>2, <2>1 DEF Apart
<1>8. ASSUME NEW v \in Open', NEW x \in Open', Process[v] # Process[x] PROVE disturbed'
  <2>1. ASSUME NEW y \in Open, Process[y] # Process[w] PROVE disturbed'
    BY <1>1, <1>2, <2>1 DEF Beside
  <2>2. CASE v \in Open /\ x \in Open
    BY <1>8, <2>2 DEF Apart
  <2> QED  BY <1>1, <1>8, <2>1, <2>2
<1> QED  BY <1>3, <1>5, <1>6, <1>7, <1>8 DEF Apart

(* Those that leave it.                                                    *)
LEMMA ApartLeft ==
  ASSUME TypeOK, Apart, Open' \subseteq Open,
         \A x \in Workers : pc'[x] = pc[x] \/ pc'[x] \notin Locked \cup {"clear"},
         \A x \in Open' : x \in met => x \in met',
         \A x \in Open' : x \in met' => Upset',
         Open' # {} => (disturbed => disturbed') /\ (Upset => Upset'),
         \A x \in mixed' : pc'[x] = "write" /\ x \in met' /\ disturbed'
  PROVE  Apart'
<1>1. \A v, x \in Workers :
        pc'[v] \in Locked /\ pc'[x] \in Locked /\ Process[v] = Process[x] => v = x
  BY DEF Apart
<1>2. \A v, x \in Open' : Meeting(v, x)' => Meeting(v, x)
  BY DEF Meeting, Open
<1>3. \A v, x \in Open' : v # x /\ Meeting(v, x)' => v \in met' /\ Upset'
  BY <1>2 DEF Apart
<1> QED  BY <1>1, <1>3 DEF Apart

LEMMA ApartStep == IInv /\ Apart /\ [Next]_vars => Apart'
<1> SUFFICES ASSUME IInv, Apart, [Next]_vars PROVE Apart'
  OBVIOUS
<1> USE DEF Goto, Does, Becomes, history
<1>0. TypeOK
  BY DEF IInv
<1>1. ASSUME NEW w \in Workers, pc[w] = "idle", NEW place \in {"wait", "read"},
             pc' = [pc EXCEPT ![w] = place], UNCHANGED <<mixed, met, disturbed, overtaken>>
      PROVE  Apart'
  <2>1. \A x \in Workers : pc'[x] = IF x = w THEN place ELSE pc[x]
    BY <1>0, <1>1 DEF TypeOK
  <2>2. Open' = Open /\ w \notin mixed
    BY <1>1, <2>1 DEF Open, Locked, Apart
  <2>3. \A x \in Workers : pc'[x] = pc[x] \/ pc'[x] \notin Locked \cup {"clear"}
    BY <1>1, <2>1 DEF Locked
  <2> HIDE DEF Goto, Does, Becomes, history
  <2>4. \A x \in mixed' : pc'[x] = "write" /\ x \in met' /\ disturbed'
    BY <1>0, <1>1, <2>1, <2>2 DEF Apart, TypeOK
  <2> QED  BY <1>0, <1>1, <2>2, <2>3, <2>4, ApartLeft DEF Apart, Upset
<1>2. ASSUME NEW w \in Workers, \E i \in New : Insert(w, i) PROVE Apart'
  BY <1>1, <1>2 DEF Insert
<1>3. ASSUME NEW w \in Workers, \E e \in Entry : Archive(w, e) PROVE Apart'
  BY <1>1, <1>3 DEF Archive
<1>4. ASSUME NEW w \in Workers, Backfill(w) PROVE Apart'
  BY <1>1, <1>4 DEF Backfill
<1>5. ASSUME NEW w \in Workers, RebuildIndex(w) PROVE Apart'
  <2>1. w \in Workers \ Open
    BY <1>5 DEF RebuildIndex, Open, Locked
  <2> QED  BY <1>0, <1>5, <2>1, ApartJoined DEF RebuildIndex
<1>6. ASSUME NEW w \in Workers, Clear(w) PROVE Apart'
  <2>1. /\ w \in Open /\ LockFree(w) /\ pc' = [pc EXCEPT ![w] = "save"]
        /\ UNCHANGED <<mixed, met, disturbed, overtaken>> /\ w \notin mixed /\ "save" \in Locked
    BY <1>6 DEF Clear, Open, Apart, Locked
  <2>2. \A x \in mixed' : pc'[x] = "write" /\ x \in met /\ disturbed
    BY <1>0, <2>1 DEF Apart, TypeOK
  <2> QED  BY <1>0, <2>1, <2>2, ApartStays
<1>7. ASSUME NEW w \in Workers, Load(w) PROVE Apart'
  <2>1. pc' = [pc EXCEPT ![w] = "save"] /\ mixed' = mixed /\ "save" \in Locked
    BY <1>7 DEF Load, Locked
  <2>2. CASE pc[w] = "wait"
    BY <1>0, <1>7, <2>1, <2>2, ApartJoined DEF Load, AtLoad, Open, Locked
  <2>3. CASE pc[w] = "load"
    <3>1. w \in Open /\ pc[w] \in Locked /\ UNCHANGED <<met, disturbed, overtaken>> /\ w \notin mixed
      BY <1>7, <2>3 DEF Load, Open, Locked, Apart
    <3>2. \A x \in mixed' : pc'[x] = "write" /\ x \in met /\ disturbed
      BY <1>0, <2>1, <3>1 DEF Apart, TypeOK
    <3> QED  BY <1>0, <2>1, <3>1, <3>2, ApartStays
  <2> QED  BY <1>7, <2>2, <2>3 DEF Load, AtLoad
<1>8. ASSUME NEW w \in Workers, LoadRaises(w) PROVE Apart'
  <2>1. /\ pc' = [pc EXCEPT ![w] = "idle"] /\ pc[w] \in {"wait", "load"}
        /\ mixed' = mixed /\ met' = (met \cup Open) \ {w} /\ disturbed' = TRUE
    BY <1>8 DEF LoadRaises, AtLoad
  <2>2. \A x \in Workers : pc'[x] = IF x = w THEN "idle" ELSE pc[x]
    BY <1>0, <2>1 DEF TypeOK
  <2>3. Open' = Open \ {w} /\ w \notin mixed
    BY <2>1, <2>2 DEF Open, Locked, Apart
  <2>4. \A x \in mixed' : pc'[x] = "write" /\ x \in met' /\ disturbed'
    BY <1>0, <2>1, <2>2, <2>3 DEF Apart, TypeOK
  <2> QED  BY <1>0, <2>1, <2>2, <2>3, <2>4, ApartLeft DEF Locked, Upset
<1>9. ASSUME NEW w \in Workers, pc[w] = "write"
      PROVE  \A x \in Others(w) : x \in met \cap Open /\ disturbed
  <2>1. \A x \in Others(w) : /\ x \in Open /\ x # w /\ pc[x] = "write"
                             /\ Process[x] # Process[w]
    BY <1>9 DEF Others, Open, Locked, Apart
  <2>2. w \in Open
    BY <1>9 DEF Open, Locked
  <2> QED  BY <2>1, <2>2 DEF Apart, Meeting
<1>10. ASSUME NEW w \in Workers, Truncate(w) PROVE Apart'
  <2>1. /\ w \in Open /\ pc[w] = "save" /\ pc' = [pc EXCEPT ![w] = "write"]
        /\ UNCHANGED <<met, disturbed, overtaken>> /\ mixed' = (mixed \ {w}) \cup Others(w)
        /\ "write" \in Locked /\ pc[w] \in Locked
    BY <1>10 DEF Truncate, Open, Locked
  <2>2. \A x \in Others(w) : /\ x \in Open /\ x # w /\ pc[x] = "write" /\ x \in met
    BY <2>1 DEF Others, Open, Locked, Apart, Meeting
  <2>3. \A x \in mixed' : pc'[x] = "write" /\ x \in met /\ disturbed
    BY <1>0, <2>1, <2>2 DEF Apart, TypeOK, Others
  <2> QED  BY <1>0, <2>1, <2>3, ApartStays
<1>11. ASSUME NEW w \in Workers, WritePart(w) PROVE Apart'
  <2>1. /\ w \in Open /\ pc[w] = "write" /\ pc' = [pc EXCEPT ![w] = "write"]
        /\ UNCHANGED <<met, disturbed, overtaken>> /\ mixed' = mixed \cup Others(w)
        /\ "write" \in Locked /\ pc' = pc
    BY <1>0, <1>11 DEF WritePart, Open, Locked, TypeOK
  <2>2. \A x \in mixed' : pc'[x] = "write" /\ x \in met /\ disturbed
    BY <1>9, <2>1 DEF Apart, Others
  <2> QED  BY <1>0, <2>1, <2>2, ApartStays
<1>12. ASSUME NEW w \in Workers, WriteCleared(w) PROVE Apart'
  <2>1. /\ w \in Open /\ pc[w] = "write" /\ pc' = [pc EXCEPT ![w] = "load"]
        /\ UNCHANGED <<met, disturbed, overtaken>> /\ mixed' = (mixed \cup Others(w)) \ {w}
        /\ "load" \in Locked /\ "write" \in Locked
    BY <1>12 DEF WriteCleared, Written, Open, Locked
  <2>2. \A x \in mixed' : pc'[x] = "write" /\ x \in met /\ disturbed
    BY <1>0, <1>9, <2>1 DEF Apart, Others, TypeOK
  <2> QED  BY <1>0, <2>1, <2>2, ApartStays
<1>13. ASSUME NEW w \in Workers, WriteRest(w) PROVE Apart'
  <2>1. /\ w \in Open /\ pc[w] = "write" /\ pc' = [pc EXCEPT ![w] = "idle"]
        /\ met' = met \ {w} /\ mixed' = (mixed \cup Others(w)) \ {w}
        /\ (UNCHANGED <<disturbed, overtaken>> \/ (w \notin met /\ Open = {w}))
    <3>1. /\ disturbed' = (disturbed /\ ~Mends(w)) /\ overtaken' = (overtaken /\ ~Mends(w))
          /\ Mends(w) => w \notin met /\ Open = {w}
      BY <1>13 DEF WriteRest, Mends
    <3>2. UNCHANGED <<disturbed, overtaken>> \/ Mends(w)
      BY <1>0, <3>1 DEF TypeOK
    <3> QED  BY <1>13, <3>1, <3>2 DEF WriteRest, Written, Open, Locked
  <2>2. \A x \in Workers : pc'[x] = IF x = w THEN "idle" ELSE pc[x]
    BY <1>0, <2>1 DEF TypeOK
  <2>3. Open' = Open \ {w}
    BY <2>1, <2>2 DEF Open, Locked
  <2>4. \A x \in mixed' : pc'[x] = "write" /\ x \in met' /\ disturbed'
    BY <1>0, <1>9, <2>1, <2>2 DEF Apart, Others, TypeOK
  <2>5. \A x \in Workers : pc'[x] = pc[x] \/ pc'[x] \notin Locked \cup {"clear"}
    BY <2>2 DEF Locked
  <2>6. /\ \A x \in Open' : x \in met' => Upset'
        /\ Open' # {} => (disturbed => disturbed') /\ (Upset => Upset')
    BY <2>1, <2>3 DEF Apart, Upset
  <2> QED  BY <1>0, <2>1, <2>3, <2>4, <2>5, <2>6, ApartLeft
<1>14. ASSUME NEW p, Crash(p) PROVE Apart'
  <2> DEFINE gone == {w \in Workers : Process[w] = p}
  <2>1. /\ pc' = [w \in Workers |-> IF w \in gone THEN "idle" ELSE pc[w]]
        /\ mixed' = mixed \ gone /\ met' = (met \cup Open) \ gone /\ disturbed' = TRUE
    BY <1>14 DEF Crash
  <2>2. Open' = Open \ gone
    BY <2>1 DEF Open, Locked
  <2>3. \A x \in Workers : pc'[x] = pc[x] \/ pc'[x] \notin Locked \cup {"clear"}
    BY <2>1 DEF Locked
  <2>4. \A x \in mixed' : pc'[x] = "write" /\ x \in met' /\ disturbed'
    BY <1>0, <2>1 DEF Apart, TypeOK
  <2> QED  BY <1>0, <2>1, <2>2, <2>3, <2>4, ApartLeft DEF Upset
<1>15. CASE UNCHANGED vars
  BY <1>15 DEF vars, Apart, Open, Meeting, Upset
<1> QED
  BY <1>2, <1>3, <1>4, <1>5, <1>6, <1>7, <1>8, <1>10, <1>11, <1>12, <1>13, <1>14, <1>15
     DEF Next, Step
-----------------------------------------------------------------------------
(* The rows that are nobody's to index any more.  A worker that has met    *)
(* nobody and rebuilds, or any worker while nothing is upset, carries all  *)
(* of them to the file, unless a rebuild that has just read the table waits*)
(* for the lock that it holds.                                             *)
Expected == {e \in table : e.id \notin Due}
Carried(w) ==
  IF pc[w] \in {"save", "write"} /\ work[w] # "clear" THEN out[w] ELSE entries[w]
Succeeded(w) ==
  pc[w] \in Locked /\ \E x \in Workers : pc[x] = "clear" /\ Process[x] = Process[w]
Obliged(w) == w \in Open /\ w \notin met /\ (work[w] \in {"clear", "fill"} \/ ~Upset)
Covering ==
  /\ ~Upset /\ Open = {} => Expected \subseteq file.rows
  /\ \A w \in Open : Obliged(w) => Expected \subseteq Carried(w) \/ Succeeded(w)

LEMMA DueIs ==
  ASSUME NEW i
  PROVE  i \in Due <=> \/ \E x \in Workers : /\ pc[x] = "wait" /\ work[x] = "upsert"
                                             /\ i \in Ids(entries[x])
                       \/ i \in Legacy /\ \E x \in Workers : pc[x] = "read"
<1> DEFINE E == UNION {entries[w] : w \in {x \in Workers : pc[x] = "wait" /\ work[x] = "upsert"}}
<1>1. i \in Ids(E) <=> \E e \in E : e.id = i
  BY IdOf
<1>2. \A e : e \in E <=> \E x \in Workers : /\ pc[x] = "wait" /\ work[x] = "upsert"
                                            /\ e \in entries[x]
  OBVIOUS
<1>3. \A x : i \in Ids(entries[x]) <=> \E e \in entries[x] : e.id = i
  BY IdOf
<1>4. i \in Ids(E) <=> \E x \in Workers : /\ pc[x] = "wait" /\ work[x] = "upsert"
                                          /\ i \in Ids(entries[x])
  BY <1>1, <1>2, <1>3
<1> QED  BY <1>4 DEF Due

LEMMA OwedNext ==
  ASSUME NEW i,
         \/ \E x \in Workers : /\ pc'[x] = "wait" /\ work'[x] = "upsert"
                               /\ i \in Ids(entries'[x])
         \/ i \in Legacy /\ \E x \in Workers : pc'[x] = "read"
  PROVE  i \in Due'
<1> DEFINE E == UNION {entries'[w] : w \in {x \in Workers : pc'[x] = "wait" /\ work'[x] = "upsert"}}
<1>1. ASSUME NEW x \in Workers, pc'[x] = "wait", work'[x] = "upsert", i \in Ids(entries'[x])
      PROVE  i \in Ids(E)
  <2>1. PICK e \in entries'[x] : e.id = i
    BY <1>1, IdOf
  <2>2. e \in E
    BY <1>1
  <2> HIDE DEF E
  <2> QED  BY <2>1, <2>2, IdOf
<1> QED  BY <1>1 DEF Due

(* Only who stops waiting, or reading, is owed no more.                    *)
LEMMA OwedStays ==
  ASSUME NEW i \in Due,
         \A x \in Workers : pc[x] \in {"wait", "read"} =>
           pc'[x] = pc[x] /\ work'[x] = work[x] /\ entries'[x] = entries[x]
  PROVE  i \in Due'
<1>1. CASE \E x \in Workers : pc[x] = "wait" /\ work[x] = "upsert" /\ i \in Ids(entries[x])
  <2>1. PICK x \in Workers : pc[x] = "wait" /\ work[x] = "upsert" /\ i \in Ids(entries[x])
    BY <1>1
  <2>2. pc'[x] = "wait" /\ work'[x] = "upsert" /\ i \in Ids(entries'[x])
    BY <2>1
  <2> QED  BY <2>2, OwedNext
<1>2. CASE i \in Legacy /\ \E x \in Workers : pc[x] = "read"
  <2>1. i \in Legacy /\ \E x \in Workers : pc'[x] = "read"
    BY <1>2
  <2> QED  BY <2>1, OwedNext
<1> QED  BY <1>1, <1>2, DueIs

LEMMA ExpectedFewer ==
  ASSUME \A x \in Workers : pc[x] \in {"wait", "read"} =>
           pc'[x] = pc[x] /\ work'[x] = work[x] /\ entries'[x] = entries[x],
         \A e \in table' : e \in table \/ e.id \in Due'
  PROVE  Expected' \subseteq Expected
BY OwedStays DEF Expected

(* A step of a worker that is not at the file.                             *)
LEMMA CoveringOutside ==
  ASSUME IInv, Covering, Expected' \subseteq Expected, NEW w \in Workers \ Open,
         Open' = Open, UNCHANGED <<file, met, disturbed, overtaken>>,
         \A x \in Workers \ {w} : /\ pc'[x] = pc[x] /\ work'[x] = work[x]
                                  /\ entries'[x] = entries[x] /\ out'[x] = out[x]
  PROVE  Covering'
<1>1. ASSUME NEW x \in Open, Obliged(x)'
      PROVE  Expected' \subseteq Carried(x)' \/ Succeeded(x)'
  <2>1. /\ x \in Workers \ {w} /\ pc'[x] = pc[x] /\ work'[x] = work[x]
        /\ entries'[x] = entries[x] /\ out'[x] = out[x]
    BY DEF Open
  <2>2. Obliged(x) /\ Carried(x)' = Carried(x)
    BY <1>1, <2>1 DEF Obliged, Carried, Upset
  <2>3. Succeeded(x) => Succeeded(x)'
    BY <2>1 DEF Succeeded, Open, Locked
  <2> QED  BY <2>2, <2>3 DEF Covering
<1> QED  BY <1>1 DEF Covering, Upset

(* A step of a worker that stays at the file.                              *)
LEMMA CoveringMoved ==
  ASSUME IInv, Apart, Covering, UNCHANGED <<table, met, disturbed, overtaken>>, NEW w \in Open,
         NEW place \in Locked, pc' = [pc EXCEPT ![w] = place],
         pc[w] \in Locked \/ LockFree(w),
         \A x \in Workers \ {w} : /\ work'[x] = work[x]
                                  /\ entries'[x] = entries[x] /\ out'[x] = out[x],
         work'[w] \in {"clear", "fill"} => work[w] \in {"clear", "fill"},
         Carried(w) \subseteq Carried(w)'
  PROVE  Covering'
<1>1. /\ w \in Workers /\ \A x \in Workers : pc'[x] = IF x = w THEN place ELSE pc[x]
      /\ place \notin {"clear", "wait", "read"} /\ pc[w] \notin {"wait", "read"}
  BY DEF Open, IInv, TypeOK, Locked
<1>2. Open' = Open
  BY <1>1 DEF Open, Locked
<1>3. Expected' \subseteq Expected
  BY <1>1, ExpectedFewer
<1>4. ASSUME NEW x \in Open, Succeeded(x) PROVE Succeeded(x)'
  <2>1. PICK y \in Workers : pc[y] = "clear" /\ Process[y] = Process[x] /\ pc[x] \in Locked
    BY <1>4 DEF Succeeded
  <2>2. x \in Workers /\ pc'[x] \in Locked
    BY <1>1, <2>1 DEF Open
  <2>3. y # w
    BY <2>1, <2>2 DEF LockFree, Locked
  <2> QED  BY <1>1, <2>1, <2>2, <2>3 DEF Succeeded
<1>5. ASSUME NEW x \in Open, Obliged(x)'
      PROVE  Expected' \subseteq Carried(x)' \/ Succeeded(x)'
  <2>1. x \in Workers /\ (x # w => pc'[x] = pc[x])
    BY <1>1 DEF Open
  <2>2. Obliged(x) /\ Carried(x) \subseteq Carried(x)'
    BY <1>2, <1>5, <2>1 DEF Obliged, Carried, Upset
  <2> QED  BY <1>3, <1>4, <2>2 DEF Covering
<1> QED  BY <1>2, <1>5 DEF Covering

(* Whoever is left has been told.                                          *)
LEMMA CoveringBroken ==
  ASSUME Upset', Open' \subseteq met' PROVE Covering'
BY DEF Covering, Obliged

LEMMA CoveringStep == IInv /\ Apart /\ Covering /\ [Next]_vars => Covering'
<1> SUFFICES ASSUME IInv, Apart, Covering, [Next]_vars PROVE Covering'
  OBVIOUS
<1> USE DEF Goto, Does, Becomes, history
<1>0. TypeOK
  BY DEF IInv
<1>1. ASSUME NEW w \in Workers, pc[w] = "idle", NEW place \in {"wait", "read"},
             pc' = [pc EXCEPT ![w] = place], UNCHANGED <<file, met, disturbed, overtaken, out>>,
             \A x \in Workers \ {w} : work'[x] = work[x] /\ entries'[x] = entries[x],
             \A e \in table' : e \in table \/ e.id \in Due'
      PROVE  Covering'
  <2>1. \A x \in Workers : pc'[x] = IF x = w THEN place ELSE pc[x]
    BY <1>0, <1>1 DEF TypeOK
  <2>2. Open' = Open /\ w \in Workers \ Open
    BY <1>1, <2>1 DEF Open, Locked
  <2>3. Expected' \subseteq Expected
    BY <1>1, <2>1, ExpectedFewer
  <2> QED  BY <1>1, <2>1, <2>2, <2>3, CoveringOutside
<1>2. ASSUME NEW w \in Workers, NEW i \in New, Insert(w, i) PROVE Covering'
  <2> DEFINE new == [id |-> i, platform |-> "known"]
  <2>1. /\ pc'[w] = "wait" /\ work'[w] = "upsert" /\ entries'[w] = {new}
        /\ \A x \in Workers \ {w} : work'[x] = work[x] /\ entries'[x] = entries[x]
    BY <1>0, <1>2 DEF Insert, TypeOK
  <2>2. i \in Ids(entries'[w])
    BY <2>1 DEF Ids
  <2>3. i \in Due'
    BY <2>1, <2>2, OwedNext
  <2>4. \A e \in table' : e \in table \/ e.id \in Due'
    BY <1>2, <2>3 DEF Insert
  <2> QED  BY <1>1, <1>2, <2>1, <2>4 DEF Insert
<1>3. ASSUME NEW w \in Workers, NEW e \in Entry, Archive(w, e) PROVE Covering'
  <2>1. /\ \A x \in Workers \ {w} : work'[x] = work[x] /\ entries'[x] = entries[x]
        /\ table' \subseteq table
    BY <1>0, <1>3 DEF Archive, TypeOK
  <2> QED  BY <1>1, <1>3, <2>1 DEF Archive
<1>4. ASSUME NEW w \in Workers, Backfill(w) PROVE Covering'
  <2>1. pc'[w] = "read"
    BY <1>0, <1>4 DEF Backfill, TypeOK
  <2>2. ASSUME NEW e \in table', e \notin table PROVE e.id \in Due'
    <3>1. e \in [id : Ids(Unplaced), platform : {"known"}]
      BY <1>4, <2>2 DEF Backfill
    <3>2. e.id \in Ids(Unplaced)
      BY <3>1, RowsWith
    <3>3. PICK d \in Unplaced : d.id = e.id
      BY <3>2, IdOf
    <3>4. e.id \in Legacy
      BY <3>3 DEF Unplaced, IInv, Consistent
    <3> QED  BY <2>1, <3>4, OwedNext
  <2> QED  BY <1>1, <1>4, <2>2 DEF Backfill
<1>5. ASSUME NEW w \in Workers, RebuildIndex(w) PROVE Covering'
  <2>1. /\ w \notin Open /\ entries'[w] = table /\ pc'[w] = "clear" /\ table' = table
        /\ \A x \in Workers \ {w} : pc'[x] = pc[x]
        /\ Beside(w) \subseteq Open
        /\ met' = IF Beside(w) = {} THEN met \ {w} ELSE met \cup Beside(w) \cup {w}
    BY <1>0, <1>5 DEF RebuildIndex, Meets, Beside, Open, Locked, TypeOK
  <2>2. Open' = Open \cup {w}
    BY <2>1 DEF Open
  <2>3. Expected' \subseteq Carried(w)'
    BY <2>1 DEF Expected, Carried
  <2>4. ASSUME NEW x \in Open, x \notin met' PROVE Succeeded(x)'
    <3>1. /\ x \in Workers \ {w} /\ x \notin Beside(w) /\ pc'[x] = pc[x]
      BY <2>1, <2>4 DEF Open
    <3>2. Process[x] = Process[w] /\ pc[x] \in Locked
      BY <3>1 DEF Beside, Open
    <3> QED  BY <2>1, <3>1, <3>2 DEF Succeeded
  <2> QED  BY <2>2, <2>3, <2>4 DEF Covering, Obliged
<1>6. ASSUME NEW w \in Workers, Clear(w) PROVE Covering'
  <2>1. /\ w \in Open /\ LockFree(w) /\ pc[w] = "clear" /\ work[w] = "clear"
        /\ pc' = [pc EXCEPT ![w] = "save"] /\ out' = [out EXCEPT ![w] = {}]
        /\ UNCHANGED <<table, met, disturbed, overtaken, work, entries>> /\ "save" \in Locked
    BY <1>6 DEF Clear, Open, Locked, IInv, Consistent, Holds
  <2>2. Carried(w)' = Carried(w)
    BY <2>1 DEF Carried
  <2>3. \A x \in Workers \ {w} : out'[x] = out[x]
    BY <1>0, <2>1 DEF TypeOK
  <2> QED  BY <2>1, <2>2, <2>3, CoveringMoved
<1>7. ASSUME NEW w \in Workers, Load(w), pc[w] = "load" PROVE Covering'
  <2>1. /\ w \in Open /\ pc[w] \in Locked /\ work[w] = "fill"
        /\ pc' = [pc EXCEPT ![w] = "save"] /\ out' = [out EXCEPT ![w] = Merged(w)]
        /\ UNCHANGED <<table, met, disturbed, overtaken, work, entries>> /\ "save" \in Locked
    BY <1>7 DEF Load, Open, Locked, IInv, Consistent, Holds
  <2>2. /\ \A x \in Workers \ {w} : out'[x] = out[x]
        /\ out'[w] = Merged(w) /\ pc'[w] = "save"
    BY <1>0, <2>1 DEF TypeOK
  <2>3. Carried(w) \subseteq Carried(w)'
    BY <1>7, <2>1, <2>2 DEF Carried, Merged
  <2> QED  BY <2>1, <2>2, <2>3, CoveringMoved
<1>8. ASSUME NEW w \in Workers, Load(w), pc[w] = "wait" PROVE Covering'
  <2>1. /\ LockFree(w) /\ w \notin Open /\ work[w] \in {"upsert", "remove"}
        /\ UNCHANGED <<table, file, work, entries>>
        /\ Beside(w) \subseteq Open
        /\ met' = IF Beside(w) = {} THEN met \ {w} ELSE met \cup Beside(w) \cup {w}
        /\ disturbed' = (disturbed \/ \E x \in Beside(w) : Process[x] # Process[w])
        /\ overtaken' = (~disturbed' /\ (overtaken \/ Beside(w) # {}))
        /\ pc'[w] = "save" /\ out'[w] = Merged(w)
        /\ \A x \in Workers \ {w} : pc'[x] = pc[x]
    BY <1>0, <1>8 DEF Load, AtLoad, Meets, Beside, Open, Locked, TypeOK, IInv, Consistent,
                      Holds
  <2>2. Open' = Open \cup {w}
    BY <2>1 DEF Open, Locked
  <2>3. ASSUME NEW x \in Open PROVE x \in Beside(w)
    <3>1. x \in Workers \ {w} /\ pc[x] \in Locked \cup {"clear"}
      BY <2>1 DEF Open
    <3>2. Process[x] # Process[w] \/ pc[x] = "clear"
      BY <2>1, <3>1 DEF LockFree
    <3> QED  BY <2>1, <3>2 DEF Beside
  <2>4. CASE Beside(w) # {}
    BY <2>1, <2>2, <2>3, <2>4 DEF Covering, Obliged
  <2>5. ASSUME Beside(w) = {}, ~Upset PROVE Expected' \subseteq Carried(w)'
    <3>1. Open = {} /\ Expected \subseteq file.rows
      BY <2>3, <2>5 DEF Covering
    <3>2. Carried(w)' = Merged(w)
      BY <2>1 DEF Carried
    <3>3. ASSUME NEW e \in Expected' PROVE e \in Merged(w)
      <4>1. e \in table /\ e.id \notin Due'
        BY <2>1, <3>3 DEF Expected
      <4>2. CASE e.id \in Ids(entries[w])
        <5>1. PICK d \in entries[w] : d.id = e.id
          BY <4>2, IdOf
        <5>2. work[w] = "upsert"
          <6>1. e.id \in Ids(table)
            BY <4>1, IdOf
          <6>2. Holds(w)
            BY DEF IInv, Consistent
          <6> QED  BY <2>1, <4>2, <6>1, <6>2 DEF Holds
        <5>3. d = e
          BY <4>1, <5>1, <5>2 DEF IInv, Consistent, Holds
        <5> QED  BY <5>1, <5>2, <5>3 DEF Merged
      <4>3. CASE e.id \notin Ids(entries[w])
        <5>1. e.id \notin Due
          <6>1. ASSUME e.id \in Due PROVE FALSE
            <7>1. CASE \E x \in Workers : /\ pc[x] = "wait" /\ work[x] = "upsert"
                                          /\ e.id \in Ids(entries[x])
              <8>1. PICK x \in Workers : /\ pc[x] = "wait" /\ work[x] = "upsert"
                                         /\ e.id \in Ids(entries[x])
                BY <7>1
              <8>2. /\ pc'[x] = "wait" /\ work'[x] = "upsert"
                    /\ e.id \in Ids(entries'[x])
                BY <2>1, <4>3, <8>1
              <8> QED  BY <4>1, <8>2, OwedNext
            <7>2. CASE e.id \in Legacy /\ \E x \in Workers : pc[x] = "read"
              <8>1. \E x \in Workers : pc'[x] = "read"
                BY <1>8, <2>1, <7>2
              <8> QED  BY <4>1, <7>2, <8>1, OwedNext
            <7> QED  BY <6>1, <7>1, <7>2, DueIs
          <6> QED  BY <6>1
        <5>2. e \in file.rows
          BY <3>1, <4>1, <5>1 DEF Expected
        <5> QED  BY <4>3, <5>2 DEF Merged
      <4> QED  BY <4>2, <4>3
    <3> QED  BY <3>2, <3>3
  <2>6. CASE Beside(w) = {}
    <3>1. Open' = {w}
      BY <2>2, <2>3, <2>6
    <3>2. Obliged(w)' => ~Upset
      BY <1>0, <2>1, <2>6 DEF Obliged, Upset, TypeOK
    <3> QED  BY <2>5, <2>6, <3>1, <3>2 DEF Covering
  <2> QED  BY <2>4, <2>6
<1>9. ASSUME NEW w \in Workers, LoadRaises(w) PROVE Covering'
  <2>1. /\ pc' = [pc EXCEPT ![w] = "idle"] /\ met' = (met \cup Open) \ {w}
        /\ disturbed' = TRUE
    BY <1>9 DEF LoadRaises
  <2>2. Open' \subseteq Open \ {w}
    BY <1>0, <2>1 DEF Open, Locked, TypeOK
  <2> QED  BY <2>1, <2>2, CoveringBroken DEF Upset
<1>10. ASSUME NEW w \in Workers, Truncate(w) \/ WritePart(w) PROVE Covering'
  <2>1. /\ w \in Open /\ pc[w] \in {"save", "write"} /\ pc[w] \in Locked
        /\ pc' = [pc EXCEPT ![w] = "write"] /\ "write" \in Locked
        /\ UNCHANGED <<table, met, disturbed, overtaken, work, entries, out>>
    BY <1>0, <1>10 DEF Truncate, WritePart, Open, Locked, TypeOK
  <2>2. Carried(w)' = Carried(w)
    BY <1>0, <2>1 DEF Carried, TypeOK, Open
  <2> QED  BY <2>1, <2>2, CoveringMoved
<1>11. ASSUME NEW w \in Workers, WriteCleared(w) PROVE Covering'
  <2>1. /\ w \in Open /\ pc[w] = "write" /\ pc[w] \in Locked /\ work[w] = "clear"
        /\ pc' = [pc EXCEPT ![w] = "load"] /\ "load" \in Locked
        /\ work' = [work EXCEPT ![w] = "fill"] /\ out' = [out EXCEPT ![w] = {}]
        /\ UNCHANGED <<table, met, disturbed, overtaken, entries>>
    BY <1>11 DEF WriteCleared, Written, Fills, Open, Locked
  <2>2. Carried(w)' = Carried(w)
    BY <1>0, <2>1 DEF Carried, TypeOK, Open
  <2>3. \A x \in Workers \ {w} : out'[x] = out[x] /\ work'[x] = work[x]
    BY <1>0, <2>1 DEF TypeOK
  <2> QED  BY <2>1, <2>2, <2>3, CoveringMoved
<1>12. ASSUME NEW w \in Workers, WriteRest(w) PROVE Covering'
  <2>1. /\ w \in Open /\ pc[w] = "write" /\ pc' = [pc EXCEPT ![w] = "idle"]
        /\ met' = met \ {w} /\ table' = table
        /\ \A x \in Workers \ {w} : /\ pc'[x] = pc[x] /\ work'[x] = work[x]
                                    /\ entries'[x] = entries[x] /\ out'[x] = out[x]
        /\ (file' = Json(out[w]) \/ w \in mixed)
        /\ ~(work[w] = "clear" /\ entries[w] # {})
    BY <1>0, <1>12 DEF WriteRest, Written, Fills, Open, Locked, TypeOK
  <2>2. pc'[w] = "idle" /\ Open' = Open \ {w}
    BY <1>0, <2>1 DEF Open, Locked, TypeOK
  <2>3. ~Upset' => \/ ~Upset
                   \/ work[w] \in {"clear", "fill"} /\ w \notin met /\ Open = {w}
    BY <1>0, <1>12 DEF WriteRest, Mends, Upset, TypeOK
  <2>4. Expected' \subseteq Expected
    BY <2>1, <2>2, ExpectedFewer
  <2>5. ASSUME ~Upset', Open' = {} PROVE Expected' \subseteq file'.rows
    <3>1. w \notin met /\ Obliged(w)
      BY <2>1, <2>3, <2>5 DEF Apart, Obliged
    <3>2. file'.rows = out[w]
      BY <2>1, <3>1 DEF Apart, Json
    <3>3. ~Succeeded(w)
      BY <2>1, <2>2, <2>5 DEF Succeeded, Open
    <3>4. Expected \subseteq Carried(w)
      BY <2>1, <3>1, <3>3 DEF Covering
    <3>5. Carried(w) = out[w] \/ Carried(w) = {}
      BY <2>1 DEF Carried
    <3> QED  BY <2>4, <3>2, <3>4, <3>5
  <2>6. ASSUME NEW x \in Open', Obliged(x)'
        PROVE  Expected' \subseteq Carried(x)' \/ Succeeded(x)'
    <3>1. x \in Open /\ x \in Workers \ {w} /\ Open # {w}
      BY <2>2, <2>6 DEF Open
    <3>2. Obliged(x) /\ Carried(x)' = Carried(x)
      BY <2>1, <2>3, <2>6, <3>1 DEF Obliged, Carried
    <3>3. Succeeded(x) => Succeeded(x)'
      BY <2>1, <3>1 DEF Succeeded
    <3> QED  BY <2>4, <3>1, <3>2, <3>3 DEF Covering
  <2> QED  BY <2>5, <2>6 DEF Covering
<1>13. ASSUME NEW p, Crash(p) PROVE Covering'
  <2> DEFINE gone == {w \in Workers : Process[w] = p}
  <2>1. /\ pc' = [w \in Workers |-> IF w \in gone THEN "idle" ELSE pc[w]]
        /\ met' = (met \cup Open) \ gone /\ disturbed' = TRUE
    BY <1>13 DEF Crash
  <2>2. Open' \subseteq Open \ gone
    BY <2>1 DEF Open, Locked
  <2> QED  BY <2>1, <2>2, CoveringBroken DEF Upset
<1>14. CASE UNCHANGED vars
  BY <1>14 DEF vars, Covering, Open, Obliged, Carried, Succeeded, Expected, Due, Upset
<1> QED
  BY <1>2, <1>3, <1>4, <1>5, <1>6, <1>7, <1>8, <1>9, <1>10, <1>11, <1>12, <1>13, <1>14
     DEF Next, Step, Load, AtLoad

(* A search finds every live row that is nobody's to index any more, as    *)
(* long as nothing is upset, and again after a rebuild on its own          *)
(* (Complete).                                                             *)
THEOREM IndexComplete == Spec => []Complete
<1>1. Init => Covering
  <2> SUFFICES ASSUME Init PROVE Covering
    OBVIOUS
  <2>1. Open = {} /\ file.rows = table
    BY DEF Init, Open, Locked, Json
  <2> QED  BY <2>1 DEF Covering, Expected
<1>2. Covering => Complete
  BY DEF Covering, Expected, Complete, Upset
<1> QED
  BY <1>1, <1>2, InitApart, InitConsistent, IInvStep, ApartStep, CoveringStep, PTL DEF Spec
-----------------------------------------------------------------------------
(* An undisturbed file that nobody writes can be read.                     *)
Readable == ~disturbed /\ (\A w \in Workers : pc[w] # "write") => file.text = "json"

LEMMA ReadableStep == IInv /\ Apart /\ Readable /\ [Next]_vars => Readable'
<1> SUFFICES ASSUME IInv, Apart, Readable, [Next]_vars, ~disturbed' PROVE Readable'
  BY DEF Readable
<1>0. TypeOK
  BY DEF IInv
<1>1. ASSUME NEW w \in Workers, NEW place \in Places, pc' = [pc EXCEPT ![w] = place],
             pc[w] # "write", file' = file, ~disturbed
      PROVE  Readable'
  BY <1>0, <1>1 DEF Readable, TypeOK
<1>2. ASSUME NEW w \in Workers, NEW i \in New, Insert(w, i) PROVE Readable'
  <2>1. /\ pc[w] = "idle" /\ pc' = [pc EXCEPT ![w] = "wait"]
        /\ file' = file /\ disturbed' = disturbed /\ "wait" \in Places
    BY <1>2 DEF Insert, Goto, history, Places
  <2> QED  BY <1>1, <2>1
<1>3. ASSUME NEW w \in Workers, NEW e \in Entry, Archive(w, e) PROVE Readable'
  <2>1. /\ pc[w] = "idle" /\ pc' = [pc EXCEPT ![w] = "wait"]
        /\ file' = file /\ disturbed' = disturbed /\ "wait" \in Places
    BY <1>3 DEF Archive, Goto, history, Places
  <2> QED  BY <1>1, <2>1
<1>4. ASSUME NEW w \in Workers, Backfill(w) PROVE Readable'
  BY <1>1, <1>4 DEF Backfill, Goto, history, Places
<1>5. ASSUME NEW w \in Workers, RebuildIndex(w) PROVE Readable'
  <2>1. ~disturbed
    BY <1>0, <1>5 DEF RebuildIndex, Meets, TypeOK
  <2> QED  BY <1>1, <1>5, <2>1 DEF RebuildIndex, Goto, Places
<1>6. ASSUME NEW w \in Workers, Clear(w) PROVE Readable'
  BY <1>1, <1>6 DEF Clear, Becomes, Goto, history, Places, Locked
<1>7. ASSUME NEW w \in Workers, Load(w) PROVE Readable'
  <2>1. ~disturbed
    BY <1>0, <1>7 DEF Load, Meets, history, TypeOK
  <2> QED  BY <1>1, <1>7, <2>1 DEF Load, AtLoad, Becomes, Goto, Places, Locked
<1>8. ASSUME NEW w \in Workers, Truncate(w) \/ WritePart(w) PROVE Readable'
  <2>1. pc'[w] = "write"
    BY <1>0, <1>8 DEF Truncate, WritePart, Goto, TypeOK
  <2> QED  BY <2>1 DEF Readable
<1>9. ASSUME NEW w \in Workers, WriteCleared(w) \/ WriteRest(w) PROVE Readable'
  <2>1. w \in mixed => w \in met /\ disturbed
    BY <1>9 DEF Apart
  <2>2. w \notin mixed
    BY <1>0, <1>9, <2>1 DEF WriteCleared, WriteRest, Mends, TypeOK
  <2> QED  BY <1>9, <2>2 DEF WriteCleared, WriteRest, Written, Json, Readable
<1>10. CASE UNCHANGED vars
  BY <1>10 DEF vars, Readable
<1> QED
  BY <1>2, <1>3, <1>4, <1>5, <1>6, <1>7, <1>8, <1>9, <1>10
     DEF Next, Step, LoadRaises, Crash

(* While nothing is disturbed, no operation finds half a file that its own *)
(* process writes, and at rest there is no half a file to find (Whole).    *)
THEOREM FileWhole == Spec => []Whole
<1>1. Init => Readable
  <2>1. Init => file = Json(table)
    BY DEF Init
  <2> QED  BY <2>1 DEF Json, Readable
<1>2. IInv /\ Apart /\ Readable => Whole
  <2> SUFFICES ASSUME Apart, Readable, ~disturbed, file.text # "json"
               PROVE  \E w \in Workers :
                        /\ pc[w] = "write"
                        /\ \A x \in Workers : AtLoad(x) => Process[x] # Process[w]
    BY DEF Whole
  <2>1. PICK w \in Workers : pc[w] = "write"
    BY DEF Readable
  <2>2. ASSUME NEW x \in Workers, AtLoad(x) PROVE Process[x] # Process[w]
    BY <2>1, <2>2 DEF AtLoad, LockFree, Locked, Apart
  <2> QED  BY <2>1, <2>2
<1> QED
  BY <1>1, <1>2, InitApart, InitConsistent, IInvStep, ApartStep, ReadableStep, PTL DEF Spec
-----------------------------------------------------------------------------
(* The mapping to AtomicIndex.  The job of a worker is given by its place, *)
(* its work and its entries.                                               *)
LEMMA JobIs ==
  ASSUME NEW w \in Workers
  PROVE  /\ pc[w] \in {"wait", "clear", "load"} => Job(w) = [does |-> work[w], rows |-> entries[w]]
         /\ pc[w] \in {"save", "write"} =>
              Job(w) = IF Fills(w) THEN [does |-> "fill", rows |-> entries[w]]
                       ELSE [does |-> "none", rows |-> {}]
         /\ pc[w] \in {"idle", "read"} => Job(w) = [does |-> "none", rows |-> {}]
BY DEF Job, Writing

LEMMA JobNext ==
  ASSUME NEW w \in Workers
  PROVE  /\ pc'[w] \in {"wait", "clear", "load"}
              => Job(w)' = [does |-> work'[w], rows |-> entries'[w]]
         /\ pc'[w] \in {"save", "write"} =>
              Job(w)' = IF Fills(w)' THEN [does |-> "fill", rows |-> entries'[w]]
                        ELSE [does |-> "none", rows |-> {}]
         /\ pc'[w] \in {"idle", "read"} => Job(w)' = [does |-> "none", rows |-> {}]
BY DEF Job, Writing

(* A worker whose place, work and entries stay has the same job.           *)
LEMMA JobSame ==
  ASSUME NEW w \in Workers, pc'[w] = pc[w], work'[w] = work[w], entries'[w] = entries[w]
  PROVE  Job(w)' = Job(w)
BY DEF Job, Writing, Fills

LEMMA EntryJob ==
  ASSUME NEW kinds, NEW what \in kinds, NEW S \in SUBSET Entry, Keyed(S)
  PROVE  [does |-> what, rows |-> S] \in Atomic!Jobs(kinds)
BY DEF Atomic!Jobs, Atomic!Contents, Keyed

(* While nothing is disturbed, a worker under the lock is the only one.    *)
LEMMA Alone ==
  ASSUME Apart, ~disturbed, NEW w \in Workers, NEW x \in Workers,
         pc[w] \in Locked \/ (pc[w] = "clear" /\ LockFree(w)), pc[x] \in Locked
  PROVE  x = w
<1>1. w \in Open /\ x \in Open
  BY DEF Open
<1>2. w = x \/ Process[w] = Process[x]
  BY <1>1 DEF Apart, Meeting
<1> QED  BY <1>1, <1>2 DEF Apart, LockFree

LEMMA EffectiveIs ==
  /\ Writing = {} => Effective = file.rows
  /\ \A w \in Workers : ~disturbed /\ Writing = {w} => Effective = out[w]
BY DEF Effective

LEMMA EffectiveNext ==
  /\ Writing' = {} => Effective' = file'.rows
  /\ \A w \in Workers : ~disturbed' /\ Writing' = {w} => Effective' = out'[w]
BY DEF Effective

MappedTyped == Effective \in Atomic!Contents /\ [w \in Workers |-> Job(w)] \in [Workers -> Atomic!AnyJob]

LEMMA MappingTyped == IInv /\ Apart => MappedTyped
<1> SUFFICES ASSUME IInv, Apart PROVE MappedTyped
  OBVIOUS
<1>1. Effective \in Atomic!Contents
  <2>1. file.rows \in Atomic!Contents
    BY FileRows DEF IInv, Keyed, Atomic!Contents
  <2>2. ASSUME NEW w \in Writing, ~disturbed PROVE Effective = out[w]
    <3>1. w \in Workers /\ pc[w] \in Locked
      BY DEF Writing, Locked
    <3>2. Writing = {w}
      BY <2>2, <3>1, Alone DEF Writing, Locked
    <3> QED  BY <2>2, <3>1, <3>2, EffectiveIs
  <2>3. ASSUME NEW w \in Writing PROVE out[w] \in Atomic!Contents
    BY DEF Writing, IInv, TypeOK, Consistent, Holds, Keyed, Atomic!Contents
  <2> QED  BY <2>1, <2>2, <2>3 DEF Effective
<1>2. ASSUME NEW w \in Workers PROVE Job(w) \in Atomic!AnyJob
  <2>1. /\ entries[w] \in SUBSET Entry /\ Keyed(entries[w])
        /\ {} \in SUBSET Entry /\ Keyed({})
        /\ work[w] \in {"none", "upsert", "remove", "clear", "fill"}
        /\ pc[w] \in {"wait", "clear", "load", "save", "write", "idle", "read"}
    BY DEF IInv, TypeOK, Consistent, Holds, Keyed, Places, Locked
  <2>2. /\ [does |-> work[w], rows |-> entries[w]] \in Atomic!AnyJob
        /\ [does |-> "fill", rows |-> entries[w]] \in Atomic!AnyJob
        /\ [does |-> "none", rows |-> {}] \in Atomic!AnyJob
    BY <2>1, EntryJob DEF Atomic!AnyJob
  <2> QED  BY <2>1, <2>2, JobIs
<1> QED  BY <1>1, <1>2 DEF MappedTyped

(* A step is none for AtomicIndex, an operation of one worker, or trouble. *)
LEMMA Nothing ==
  ASSUME Effective' = Effective, disturbed' = disturbed,
         \A w \in Workers : Job(w)' = Job(w)
  PROVE  UNCHANGED Atomic!vars
BY DEF Atomic!vars

LEMMA Operates ==
  ASSUME NEW w \in Workers, ~disturbed, ~disturbed',
         \A x \in Workers \ {w} : Job(x)' = Job(x),
         Job(w) = Atomic!None \/ \A x \in Workers \ {w} : Job(x).does # "fill",
         \/ /\ Job(w) = Atomic!None /\ Job(w)' \in Atomic!Jobs({"upsert", "remove", "clear"})
            /\ Effective' = Effective
         \/ /\ Job(w).does \in {"upsert", "fill"} /\ Job(w)' = Atomic!None
            /\ Effective' = Atomic!Without(Effective, Job(w).rows) \cup Job(w).rows
         \/ /\ Job(w).does = "remove" /\ Job(w)' = Atomic!None
            /\ Effective' = Atomic!Without(Effective, Job(w).rows)
         \/ /\ Job(w).does = "clear" /\ Effective' = {}
            /\ Job(w)' = IF Job(w).rows = {} THEN Atomic!None
                         ELSE [Job(w) EXCEPT !.does = "fill"]
  PROVE  Atomic!Next
<1> DEFINE J == [x \in Workers |-> Job(x)]
           K == [x \in Workers |-> Job(x)']
<1>1. /\ J[w] = Job(w) /\ K[w] = Job(w)' /\ K = [J EXCEPT ![w] = Job(w)']
      /\ \A x \in Workers \ {w} : J[x] = Job(x)
  OBVIOUS
<1>2. CASE Job(w) = Atomic!None /\ Job(w)' \in Atomic!Jobs({"upsert", "remove", "clear"})
           /\ Effective' = Effective
  <2>1. Atomic!Ask(w)
    BY <1>1, <1>2 DEF Atomic!Ask
  <2> QED  BY <2>1 DEF Atomic!Next, Atomic!Operation
<1>3. CASE \A x \in Workers \ {w} : Job(x).does # "fill"
  <2>1. Atomic!Undivided(w)
    BY <1>1, <1>3 DEF Atomic!Undivided
  <2>2. Atomic!Ask(w) \/ Atomic!Put(w) \/ Atomic!Remove(w) \/ Atomic!Clear(w)
    BY <1>1, <2>1 DEF Atomic!Ask, Atomic!Put, Atomic!Remove, Atomic!Clear
  <2> QED  BY <2>2 DEF Atomic!Next, Atomic!Operation
<1>4. CASE Job(w) = Atomic!None
  BY <1>2, <1>4 DEF Atomic!None
<1> QED  BY <1>3, <1>4

LEMMA Troubles ==
  ASSUME MappedTyped', TypeOK', disturbed \/ disturbed' PROVE Atomic!Next
BY DEF MappedTyped, TypeOK, Atomic!Next, Atomic!Disturbed

LEMMA AtomicStep ==
  IInv /\ Apart /\ MappedTyped' /\ TypeOK' /\ [Next]_vars => [Atomic!Next]_Atomic!vars
<1> SUFFICES ASSUME IInv, Apart, MappedTyped', TypeOK', [Next]_vars
             PROVE  Atomic!Next \/ UNCHANGED Atomic!vars
  OBVIOUS
<1>0. TypeOK
  BY DEF IInv
<1>1. CASE disturbed \/ disturbed'
  BY <1>1, Troubles
<1>2. CASE UNCHANGED vars
  <2>1. Effective' = Effective /\ disturbed' = disturbed
    BY <1>2 DEF vars, Effective, Writing
  <2>2. \A w \in Workers : Job(w)' = Job(w)
    BY <1>2, JobSame DEF vars
  <2> QED  BY <2>1, <2>2, Nothing
<1>3. ASSUME ~disturbed, ~disturbed', Next PROVE Atomic!Next \/ UNCHANGED Atomic!vars
  <2> USE <1>3 DEF Goto, Does, Becomes, history
  (* Of a worker that comes from elsewhere or only asks.                   *)
  <2>1. ASSUME NEW w \in Workers, NEW place \in {"wait", "read", "clear"},
               pc[w] \in {"idle", "read"}, pc' = [pc EXCEPT ![w] = place],
               UNCHANGED <<file, out>>
        PROVE  Effective' = Effective /\ pc'[w] = place
    <3>1. \A x \in Workers : pc'[x] = IF x = w THEN place ELSE pc[x]
      BY <1>0, <2>1 DEF TypeOK
    <3>2. Writing' = Writing
      BY <2>1, <3>1 DEF Writing
    <3> QED  BY <2>1, <3>1, <3>2 DEF Effective
  <2>2. ASSUME NEW w \in Workers,
               \A x \in Workers \ {w} : /\ pc'[x] = pc[x] /\ work'[x] = work[x]
                                        /\ entries'[x] = entries[x]
        PROVE  \A x \in Workers \ {w} : Job(x)' = Job(x)
    BY <2>2, JobSame
  <2>3. ASSUME NEW w \in Workers, NEW i \in New, Insert(w, i) PROVE Atomic!Next
    <3> DEFINE e == [id |-> i, platform |-> "known"]
    <3>1. /\ pc[w] = "idle" /\ pc' = [pc EXCEPT ![w] = "wait"]
          /\ UNCHANGED <<file, out>> /\ work'[w] = "upsert" /\ entries'[w] = {e}
          /\ \A x \in Workers \ {w} : /\ pc'[x] = pc[x] /\ work'[x] = work[x]
                                      /\ entries'[x] = entries[x]
      BY <1>0, <2>3 DEF Insert, TypeOK
    <3>2. Effective' = Effective /\ pc'[w] = "wait"
      BY <2>1, <3>1
    <3>3. Job(w) = Atomic!None /\ Job(w)' = [does |-> "upsert", rows |-> {e}]
      BY <3>1, <3>2, JobIs, JobNext DEF Atomic!None
    <3>4. {e} \in SUBSET Entry /\ Keyed({e})
      BY DEF Entry, Keyed
    <3>5. Job(w)' \in Atomic!Jobs({"upsert", "remove", "clear"})
      BY <3>3, <3>4, EntryJob
    <3> QED  BY <2>2, <3>1, <3>2, <3>3, <3>5, Operates
  <2>4. ASSUME NEW w \in Workers, NEW e \in Entry, Archive(w, e) PROVE Atomic!Next
    <3>1. /\ pc[w] = "idle" /\ pc' = [pc EXCEPT ![w] = "wait"]
          /\ UNCHANGED <<file, out>> /\ work'[w] = "remove" /\ entries'[w] = {e}
          /\ \A x \in Workers \ {w} : /\ pc'[x] = pc[x] /\ work'[x] = work[x]
                                      /\ entries'[x] = entries[x]
      BY <1>0, <2>4 DEF Archive, TypeOK
    <3>2. Effective' = Effective /\ pc'[w] = "wait"
      BY <2>1, <3>1
    <3>3. Job(w) = Atomic!None /\ Job(w)' = [does |-> "remove", rows |-> {e}]
      BY <3>1, <3>2, JobIs, JobNext DEF Atomic!None
    <3>4. {e} \in SUBSET Entry /\ Keyed({e})
      BY DEF Keyed
    <3>5. Job(w)' \in Atomic!Jobs({"upsert", "remove", "clear"})
      BY <3>3, <3>4, EntryJob
    <3> QED  BY <2>2, <3>1, <3>2, <3>3, <3>5, Operates
  <2>5. ASSUME NEW w \in Workers, Backfill(w) PROVE UNCHANGED Atomic!vars
    <3>1. /\ pc[w] = "idle" /\ pc' = [pc EXCEPT ![w] = "read"] /\ disturbed' = disturbed
          /\ UNCHANGED <<file, out>>
          /\ \A x \in Workers \ {w} : /\ pc'[x] = pc[x] /\ work'[x] = work[x]
                                      /\ entries'[x] = entries[x]
      BY <1>0, <2>5 DEF Backfill, TypeOK
    <3>2. Effective' = Effective /\ pc'[w] = "read"
      BY <2>1, <3>1
    <3>3. Job(w)' = Job(w)
      BY <3>1, <3>2, JobIs, JobNext
    <3> QED  BY <2>2, <3>1, <3>2, <3>3, Nothing
  <2>6. ASSUME NEW w \in Workers, RebuildIndex(w) PROVE Atomic!Next
    <3>1. /\ pc[w] \in {"idle", "read"} /\ pc' = [pc EXCEPT ![w] = "clear"]
          /\ UNCHANGED <<file, out>> /\ work'[w] = "clear" /\ entries'[w] = table
          /\ \A x \in Workers \ {w} : /\ pc'[x] = pc[x] /\ work'[x] = work[x]
                                      /\ entries'[x] = entries[x]
      BY <1>0, <2>6 DEF RebuildIndex, TypeOK
    <3>2. Effective' = Effective /\ pc'[w] = "clear"
      BY <2>1, <3>1
    <3>3. Job(w) = Atomic!None /\ Job(w)' = [does |-> "clear", rows |-> table]
      BY <3>1, <3>2, JobIs, JobNext DEF Atomic!None
    <3>4. table \in SUBSET Entry /\ Keyed(table)
      BY <1>0 DEF TypeOK, Keyed
    <3>5. Job(w)' \in Atomic!Jobs({"upsert", "remove", "clear"})
      BY <3>3, <3>4, EntryJob
    <3> QED  BY <2>2, <3>1, <3>2, <3>3, <3>5, Operates
  (* Of a worker that gets its turn at the file, and is alone there.       *)
  <2>7. ASSUME NEW w \in Workers, pc' = [pc EXCEPT ![w] = "save"],
               NEW S, out' = [out EXCEPT ![w] = S], pc[w] \in {"wait", "load", "clear"},
               \A x \in Workers \ {w} : pc[x] \notin Locked
        PROVE  /\ Effective = file.rows /\ Effective' = S /\ pc'[w] = "save"
               /\ \A x \in Workers \ {w} : Job(x).does # "fill"
    <3>1. \A x \in Workers : pc'[x] = IF x = w THEN "save" ELSE pc[x]
      BY <1>0, <2>7 DEF TypeOK
    <3>2. Writing = {} /\ Writing' = {w} /\ out'[w] = S
      BY <1>0, <2>7, <3>1 DEF Writing, Locked, TypeOK
    <3>3. ASSUME NEW x \in Workers \ {w} PROVE Job(x).does # "fill"
      <4>1. pc[x] \in {"idle", "read", "wait", "clear"}
        BY <1>0, <2>7, <3>3 DEF TypeOK, Places
      <4>2. pc[x] \in {"wait", "clear"} => work[x] \in {"upsert", "remove", "clear"}
        BY <3>3 DEF IInv, Consistent, Holds
      <4> QED  BY <4>1, <4>2, JobIs
    <3> QED  BY <3>1, <3>2, <3>3, EffectiveIs, EffectiveNext
  <2>8. ASSUME NEW w \in Workers, Clear(w) PROVE Atomic!Next
    <3>1. /\ pc[w] = "clear" /\ LockFree(w) /\ work[w] = "clear"
          /\ pc' = [pc EXCEPT ![w] = "save"] /\ out' = [out EXCEPT ![w] = {}]
          /\ UNCHANGED <<work, entries>> /\ \A x \in Workers \ {w} : pc'[x] = pc[x]
      BY <1>0, <2>8 DEF Clear, IInv, Consistent, Holds, TypeOK
    <3>2. /\ Effective' = {} /\ pc'[w] = "save"
          /\ \A x \in Workers \ {w} : Job(x).does # "fill"
      BY <2>7, <3>1, Alone
    <3>3. Job(w) = [does |-> "clear", rows |-> entries[w]]
      BY <3>1, JobIs
    <3>4. Job(w)' = IF entries[w] # {} THEN [does |-> "fill", rows |-> entries[w]]
                    ELSE [does |-> "none", rows |-> {}]
      BY <3>1, <3>2, JobNext DEF Fills
    <3> QED  BY <2>2, <3>1, <3>2, <3>3, <3>4, Operates DEF Atomic!None
  <2>9. ASSUME NEW w \in Workers, Load(w) PROVE Atomic!Next
    <3>1. /\ pc[w] \in {"wait", "load"} /\ work[w] \in {"upsert", "remove", "fill"}
          /\ pc' = [pc EXCEPT ![w] = "save"] /\ out' = [out EXCEPT ![w] = Merged(w)]
          /\ UNCHANGED <<work, entries>> /\ \A x \in Workers \ {w} : pc'[x] = pc[x]
      BY <1>0, <2>9 DEF Load, AtLoad, IInv, Consistent, Holds, TypeOK
    <3>2. ASSUME NEW x \in Workers \ {w} PROVE pc[x] \notin Locked
      <4>1. CASE pc[w] = "load"
        BY <3>2, <4>1, Alone DEF Locked
      <4>2. CASE pc[w] = "wait"
        <5>1. LockFree(w) /\ \A y \in Beside(w) : Process[y] = Process[w]
          BY <1>0, <2>9, <4>2 DEF Load, AtLoad, Meets, TypeOK
        <5> QED  BY <3>2, <5>1 DEF LockFree, Beside, Open
      <4> QED  BY <3>1, <4>1, <4>2
    <3>3. /\ Effective = file.rows /\ Effective' = Merged(w) /\ pc'[w] = "save"
          /\ \A x \in Workers \ {w} : Job(x).does # "fill"
      BY <2>7, <3>1, <3>2
    <3>4. Job(w) = [does |-> work[w], rows |-> entries[w]] /\ Job(w)' = Atomic!None
      BY <3>1, <3>3, JobIs, JobNext DEF Fills, Atomic!None
    <3>5. {e \in file.rows : e.id \notin Ids(entries[w])} = Atomic!Without(Effective, entries[w])
      BY <3>3 DEF Ids, Atomic!Without
    <3>6. Effective' = IF work[w] = "remove" THEN Atomic!Without(Effective, entries[w])
                       ELSE Atomic!Without(Effective, entries[w]) \cup entries[w]
      BY <3>3, <3>5 DEF Merged
    <3> QED  BY <2>2, <3>1, <3>3, <3>4, <3>6, Operates
  (* Of the worker that writes the file.                                   *)
  <2>10. ASSUME NEW w \in Workers, pc[w] \in {"save", "write"} PROVE Effective = out[w]
    <3>1. Writing = {w}
      BY <2>10, Alone DEF Writing, Locked
    <3> QED  BY <3>1, EffectiveIs
  <2>11. ASSUME NEW w \in Workers, Truncate(w) \/ WritePart(w) PROVE UNCHANGED Atomic!vars
    <3>1. /\ pc[w] \in {"save", "write"} /\ pc'[w] = "write" /\ disturbed' = disturbed
          /\ UNCHANGED <<work, entries, out>>
          /\ \A x \in Workers \ {w} : pc'[x] = pc[x]
      BY <1>0, <2>11 DEF Truncate, WritePart, TypeOK
    <3>2. Writing = {w}
      BY <3>1, Alone DEF Writing, Locked
    <3>3. Writing' = {w}
      BY <3>1, <3>2 DEF Writing
    <3>4. Effective' = Effective
      BY <3>1, <3>2, <3>3, EffectiveIs, EffectiveNext
    <3>5. Job(w)' = Job(w)
      BY <3>1, JobIs, JobNext DEF Fills
    <3> QED  BY <2>2, <3>1, <3>4, <3>5, Nothing
  <2>12. ASSUME NEW w \in Workers, Written(w), pc'[w] \in {"idle", "load"},
                \A x \in Workers \ {w} : pc'[x] = pc[x]
         PROVE  Effective' = Effective /\ pc[w] = "write"
    <3>1. pc[w] = "write" /\ Writing = {w} /\ w \in Open
      BY <2>12, Alone DEF Written, Writing, Open, Locked
    <3>2. w \notin mixed
      BY <3>1 DEF Apart
    <3>3. file'.rows = out[w]
      BY <2>12, <3>2 DEF Written, Json
    <3>4. Writing' = {}
      BY <2>12, <3>1 DEF Writing
    <3> QED  BY <3>1, <3>3, <3>4, EffectiveIs, EffectiveNext
  <2>13. ASSUME NEW w \in Workers, WriteCleared(w) PROVE UNCHANGED Atomic!vars
    <3>1. /\ Fills(w) /\ Written(w) /\ disturbed' = disturbed /\ entries' = entries
          /\ pc'[w] = "load" /\ work'[w] = "fill"
          /\ \A x \in Workers \ {w} : pc'[x] = pc[x] /\ work'[x] = work[x]
      BY <1>0, <2>13 DEF WriteCleared, TypeOK
    <3>2. Effective' = Effective /\ pc[w] = "write"
      BY <2>12, <3>1
    <3>3. Job(w)' = Job(w)
      BY <3>1, <3>2, JobIs, JobNext
    <3> QED  BY <2>2, <3>1, <3>2, <3>3, Nothing
  <2>14. ASSUME NEW w \in Workers, WriteRest(w) PROVE UNCHANGED Atomic!vars
    <3>1. /\ ~Fills(w) /\ Written(w) /\ pc'[w] = "idle"
          /\ \A x \in Workers \ {w} : /\ pc'[x] = pc[x] /\ work'[x] = work[x]
                                      /\ entries'[x] = entries[x]
      BY <1>0, <2>14 DEF WriteRest, TypeOK
    <3>2. Effective' = Effective /\ pc[w] = "write"
      BY <2>12, <3>1
    <3>3. Job(w)' = Job(w)
      BY <3>1, <3>2, JobIs, JobNext
    <3>4. disturbed' = disturbed
      BY <1>0 DEF TypeOK
    <3> QED  BY <2>2, <3>1, <3>2, <3>3, <3>4, Nothing
  <2> QED
    BY <2>3, <2>4, <2>5, <2>6, <2>8, <2>9, <2>11, <2>13, <2>14
       DEF Next, Step, LoadRaises, Crash
<1> QED  BY <1>1, <1>2, <1>3

(* While nothing is disturbed, every operation on the index is one step    *)
(* (OperationsAtomic).                                                     *)
THEOREM StubImplementsAtomic == Spec => OperationsAtomic
<1>1. Init => Atomic!Init
  <2> SUFFICES ASSUME Init PROVE Atomic!Init
    OBVIOUS
  <2>1. \A w \in Workers : Job(w) = Atomic!None
    BY JobIs DEF Init, Atomic!None
  <2>2. Writing = {} /\ ~disturbed
    BY DEF Init, Writing
  <2>3. Effective \in Atomic!Contents
    BY <2>2, InitConsistent, FileRows, EffectiveIs DEF IInv, Keyed, Atomic!Contents
  <2> QED  BY <2>1, <2>2, <2>3 DEF Atomic!Init
<1>2. IInv => TypeOK
  BY DEF IInv
<1> QED
  BY <1>1, <1>2, InitApart, InitConsistent, IInvStep, ApartStep, MappingTyped, AtomicStep, PTL
     DEF Spec, OperationsAtomic, Atomic!Spec
=============================================================================
