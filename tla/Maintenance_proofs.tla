------------------------- MODULE Maintenance_proofs -------------------------
(***************************************************************************)
(* Proofs about Maintenance, for any principals, processes, facts, limit   *)
(* and number of rows.                                                     *)
(***************************************************************************)
EXTENDS Maintenance, TLAPS, FiniteSetTheorems, WellFoundedInduction

(* The contents are a sequence.                                            *)
Sequential == \E T : content \in Seq(T)

IInv == TypeOK /\ Sequential /\ Counted /\ CopyBorn /\ Placed

(* Numbers have a least one, so that a command which has principals left   *)
(* is at one of them.                                                      *)
LEMMA Least ==
  ASSUME NEW S, S \subseteq Nat, S # {}
  PROVE  \E m \in S : \A k \in S : m <= k
<1> DEFINE T == {0 .. m : m \in S}
<1>1. T \subseteq FiniteSubsetsOf(Nat) /\ T # {}
  <2>1. ASSUME NEW m \in S  PROVE 0 .. m \in FiniteSubsetsOf(Nat)
    BY FS_Interval DEF FiniteSubsetsOf
  <2> QED  BY <2>1
<1>2. PICK x \in T : \A y \in T : <<y, x>> \notin StrictSubsetOrdering(Nat)
  BY ONLY <1>1, WFMin, FS_StrictSubsetOrderingWellFounded, Zenon
<1>3. PICK m \in S : x = 0 .. m
  OBVIOUS
<1>4. ASSUME NEW k \in S, k < m  PROVE FALSE
  <2>1. 0 .. k \in T /\ 0 .. k \subseteq x /\ 0 .. k # x /\ x \subseteq Nat
    BY <1>3, <1>4
  <2> QED  BY <1>2, <2>1 DEF StrictSubsetOrdering
<1> QED  BY <1>4

LEMMA CurrentIsLeft ==
  ASSUME TypeOK, NEW w \in Runs, run[w].left # {}
  PROVE  Current(w) \in run[w].left /\ Current(w) \in Principals
<1>1. run[w].left \subseteq Principals /\ Principals \subseteq Nat
  BY MaintenanceAssumption DEF TypeOK, Run
<1>2. \E p \in run[w].left : \A q \in run[w].left : p <= q
  BY <1>1, Least
<1> QED  BY <1>1, <1>2 DEF Current

(* What a step of a command may do to the rows, and to the run of w.       *)
RowSteps(w) ==
  \/ \E i \in Id : ArchiveDuplicate(w, i)
  \/ \E b \in BOOLEAN : Summarize(w, b)
Quiet(w) ==
  \/ Skip(w) \/ Begin(w) \/ MarkStarted(w) \/ NoSummary(w) \/ MarkCompleted(w)
  \/ Finish(w) \/ Fail(w) \/ Raise(w) \/ Crash(w)
Calls(w) ==
  \E listed \in SUBSET Principals, force \in BOOLEAN : Call(w, listed, force)

LEMMA Cases ==
  ASSUME [Next]_vars
  PROVE  \/ Tick \/ Provider
         \/ \E w \in Runs : Calls(w) \/ Quiet(w) \/ FetchDay(w) \/ RowSteps(w)
         \/ UNCHANGED vars
<1>1. ASSUME NEW w \in Runs, Command(w)
      PROVE  Calls(w) \/ Quiet(w) \/ FetchDay(w) \/ RowSteps(w)
  <2>1. ASSUME NEW force \in Forces, CompactDaily(w, force)  PROVE Calls(w)
    BY <2>1, MaintenanceAssumption DEF CompactDaily, Calls
  <2>2. ASSUME NEW force \in Forces, NEW p \in Principals, CompactUser(w, p, force)
        PROVE  Calls(w)
    <3>1. {p} \in SUBSET Principals /\ force \in BOOLEAN
      BY MaintenanceAssumption
    <3> QED  BY <2>2, <3>1 DEF CompactUser, Calls
  <2> QED  BY <1>1, <2>1, <2>2 DEF Command, Quiet, RowSteps
<1> QED  BY <1>1 DEF Next, Quiet

LEMMA NowInserted ==
  ASSUME IInv, NEW row, NEW says, Insert(row, says)
  PROVE  /\ Len(content) \in Nat /\ Len(content) < MaxRows
         /\ Len(content') = Len(content) + 1 /\ Born' = Born \cup {Len(content) + 1}
         /\ Len(content) + 1 \in Id \ Born
         /\ \A i \in Born : content'[i] = content[i]
         /\ Sequential'
<1>1. PICK T : content \in Seq(T)
  BY DEF IInv, Sequential
<1>2. content \in Seq(T \cup {says}) /\ content' \in Seq(T \cup {says})
  BY <1>1 DEF Insert
<1>3. Len(content) \in Nat /\ Len(content') = Len(content) + 1
  BY <1>1, <1>2 DEF Insert
<1>4. \A i \in 1 .. Len(content) : content'[i] = content[i]
  BY <1>2 DEF Insert
<1> QED
  BY <1>2, <1>3, <1>4, MaintenanceAssumption DEF Insert, Born, Id, Sequential

LEMMA OnwardTypes ==
  ASSUME TypeOK, NEW w \in Runs, NEW failed \in BOOLEAN, Onward(w, failed)
  PROVE  /\ run' \in [Runs -> Run]
         /\ \A x \in Runs : run'[x].copy \subseteq run[x].copy
         /\ \A x \in Runs : x # w => run'[x] = run[x]
         /\ run'[w].pc = "next"
BY DEF TypeOK, Run, Idle, Onward

LEMMA QuietStep ==
  ASSUME TypeOK, Placed, NEW w \in Runs, Quiet(w)
  PROVE  /\ UNCHANGED <<content, rows, clock, overlapped>>
         /\ record' \in [Principals -> Record]
         /\ run' \in [Runs -> Run]
         /\ upset' \in BOOLEAN
         /\ \A x \in Runs : run'[x].copy \subseteq run[x].copy
         /\ Placed'
<1> USE DEF Placed
<1>1. CASE Begin(w)
  BY <1>1 DEF Begin, history, TypeOK, Run
<1>2. CASE MarkStarted(w)
  <2>1. run' \in [Runs -> Run] /\ \A x \in Runs : run'[x].copy = run[x].copy
    BY <1>2 DEF MarkStarted, TypeOK, Run
  <2>2. Placed'
    BY <1>2 DEF MarkStarted, At, TypeOK
  <2> QED
    BY <1>2, <2>1, <2>2 DEF MarkStarted, history, TypeOK, Record, NoRecord
<1>3. CASE NoSummary(w)
  <2>1. run' \in [Runs -> Run] /\ \A x \in Runs : run'[x].copy = run[x].copy
    BY <1>3 DEF NoSummary, TypeOK, Run
  <2>2. Placed'
    BY <1>3 DEF NoSummary, At, TypeOK
  <2> QED  BY <1>3, <2>1, <2>2 DEF NoSummary, history, TypeOK
<1>4. CASE MarkCompleted(w)
  BY <1>4, OnwardTypes DEF MarkCompleted, history, TypeOK, Run, Record
<1>5. CASE Finish(w)
  BY <1>5 DEF Finish, history, TypeOK, Run, Idle
<1>6. CASE Crash(w)
  BY <1>6 DEF Crash, TypeOK, Run, Idle
<1>7. CASE Skip(w)
  BY <1>7, OnwardTypes DEF Skip, history, TypeOK
<1>8. CASE Fail(w)
  BY <1>8, OnwardTypes DEF Fail, TypeOK, Record, NoRecord
<1>9. CASE Raise(w)
  BY <1>9, OnwardTypes DEF Raise, TypeOK
<1> QED  BY <1>1, <1>2, <1>3, <1>4, <1>5, <1>6, <1>7, <1>8, <1>9 DEF Quiet

LEMMA Inductive == IInv /\ [Next]_vars => IInv'
<1> SUFFICES ASSUME IInv, [Next]_vars  PROVE IInv'
  OBVIOUS
<1> USE DEF IInv
<1>1. CASE Tick
  BY <1>1 DEF Tick, TypeOK, Sequential, Counted, CopyBorn, Placed, Born, history
<1>2. ASSUME NEW row \in Row, NEW says, Insert(row, says), 
             UNCHANGED <<clock, record, overlapped, upset>>,
             run' \in [Runs -> Run], \A x \in Runs : run'[x].copy = run[x].copy, Placed'
      PROVE  IInv'
  <2>1. TypeOK'
    <3>1. DOMAIN content' = Born'
      BY <1>2, NowInserted DEF Sequential, Born
    <3>2. rows' \in [Id -> Row]
      BY <1>2, NowInserted DEF TypeOK, Insert
    <3> QED
      BY <1>2, <3>1, <3>2, NowInserted DEF TypeOK
  <2>2. Counted'
    BY <1>2, NowInserted DEF Counted, TypeOK, Insert
  <2>3. CopyBorn'
    BY <1>2, NowInserted DEF CopyBorn
  <2> QED  BY <1>2, <2>1, <2>2, <2>3, NowInserted
<1>3. CASE Provider
  <2>1. ASSUME NEW p \in Principals, NEW f \in Facts, Remember(p, f)  PROVE IInv'
    BY <1>2, <2>1 DEF Remember, history, Row, Blank, TypeOK, Placed
  <2>2. ASSUME NEW i \in Id, Retire(i)  PROVE IInv'
    <3>1. rows' \in [Id -> Row] /\ \A j \in Id \ Born : rows'[j] = rows[j]
      BY <2>2 DEF Retire, TypeOK, Row, Counted, Blank
    <3> QED
      BY <2>2, <3>1 DEF Retire, TypeOK, Sequential, Counted, CopyBorn, Placed, Born, history
  <2> QED  BY <1>3, <2>1, <2>2 DEF Provider
<1>4. ASSUME NEW w \in Runs, Calls(w)  PROVE IInv'
  <2>1. PICK listed \in SUBSET Principals, force \in BOOLEAN : Call(w, listed, force)
    BY <1>4 DEF Calls
  <2>2. run' \in [Runs -> Run] /\ \A x \in Runs : run'[x].copy \subseteq run[x].copy
        /\ Placed'
    <3>1. run' \in [Runs -> Run] /\ \A x \in Runs : run'[x].copy \subseteq run[x].copy
      BY <2>1 DEF Call, TypeOK, Run, Idle
    <3>2. Placed'
      BY <2>1 DEF Call, TypeOK, Idle, Placed
    <3> QED  BY <3>1, <3>2
  <2> QED
    BY <2>1, <2>2 DEF Call, TypeOK, Sequential, Counted, CopyBorn, Placed, Born
<1>5. ASSUME NEW w \in Runs, Quiet(w)  PROVE IInv'
  BY <1>5, QuietStep DEF TypeOK, Sequential, Counted, CopyBorn, Placed, Born
<1>6. ASSUME NEW w \in Runs, FetchDay(w)  PROVE IInv'
  <2>1. DayRows(Current(w)) \subseteq Born
    BY DEF DayRows, Counted, Blank
  <2>2. PICK cut \in BOOLEAN, late \in BOOLEAN, copy \in SUBSET DayRows(Current(w)) :
          run' = [run EXCEPT ![w].pc = "compact", ![w].truncated = cut,
                             ![w].copy = copy, ![w].late = late]
    BY <1>6 DEF FetchDay, Oldest
  <2>4. run' \in [Runs -> Run]
    <3>1. copy \in SUBSET Id
      BY <2>1 DEF TypeOK
    <3>2. run'[w] = [run[w] EXCEPT !.pc = "compact", !.truncated = cut,
                                   !.copy = copy, !.late = late]
      BY <2>2 DEF TypeOK
    <3>3. run'[w] \in Run
      BY <3>1, <3>2 DEF TypeOK, Run
    <3> QED  BY <2>2, <3>3 DEF TypeOK
  <2>5. run'[w].left = run[w].left /\ \A x \in Runs \ {w} : run'[x] = run[x]
    BY <2>2 DEF TypeOK
  <2>6. run[w].left # {}
    BY <1>6 DEF Placed, FetchDay, At
  <2>7. Placed'
    BY <2>5, <2>6 DEF Placed
  <2>3. \A x \in Runs : run'[x].copy \subseteq run[x].copy \cup copy
    BY <2>1, <2>2 DEF TypeOK, Run
  <2> QED
    BY <1>6, <2>1, <2>3, <2>4, <2>7
       DEF FetchDay, TypeOK, Sequential, Counted, CopyBorn, Born, history
<1>7. ASSUME NEW w \in Runs, NEW i \in Id, ArchiveDuplicate(w, i)  PROVE IInv'
  <2>1. i \in Born /\ rows' \in [Id -> Row] /\ \A j \in Id \ Born : rows'[j] = rows[j]
    BY <1>7 DEF ArchiveDuplicate, TypeOK, Row, CopyBorn
  <2>2. run' \in [Runs -> Run] /\ \A x \in Runs : run'[x].copy \subseteq run[x].copy
        /\ Placed'
    <3>1. run' \in [Runs -> Run] /\ \A x \in Runs : run'[x].copy \subseteq run[x].copy
      BY <1>7 DEF ArchiveDuplicate, TypeOK, Run
    <3>2. Placed'
      BY <1>7 DEF ArchiveDuplicate, TypeOK, Placed
    <3> QED  BY <3>1, <3>2
  <2> QED
    BY <1>7, <2>1, <2>2
       DEF ArchiveDuplicate, TypeOK, Sequential, Counted, CopyBorn, Placed, Born, history
<1>8. ASSUME NEW w \in Runs, NEW b \in BOOLEAN, Summarize(w, b)  PROVE IInv'
  <2> DEFINE row == [status |-> "active", of |-> Current(w), kind |-> "summary",
                     sources |-> run[w].copy, ofDay |-> b]
  <2>1. Insert(row, Listing(run[w].copy)) /\ UNCHANGED <<clock, record, overlapped, upset>>
    BY <1>8 DEF Summarize, history
  <2>2. Current(w) \in Principals
    BY <1>8, CurrentIsLeft DEF Summarize, Placed, At
  <2>3. row \in Row
    BY <2>2 DEF Row, TypeOK, Run
  <2>4. Len(content) + 1 \in Id
    BY <2>1, NowInserted
  <2>5. run' \in [Runs -> Run] /\ \A x \in Runs : run'[x].copy = run[x].copy
    <3>1. PICK o \in Id : run' = [run EXCEPT ![w] = [run[w] EXCEPT !.pc = "written",
                                                                 !.output = o]]
      BY <1>8, <2>4 DEF Summarize, TypeOK
    <3>2. run'[w] \in Run /\ run'[w].copy = run[w].copy
      BY <3>1 DEF TypeOK, Run
    <3> QED  BY <3>1, <3>2 DEF TypeOK
  <2>6. Placed'
    BY <1>8 DEF Summarize, TypeOK, Placed, At
  <2> QED  BY <1>2, <2>1, <2>3, <2>5, <2>6
<1>9. CASE UNCHANGED vars
  BY <1>9 DEF vars, TypeOK, Sequential, Counted, CopyBorn, Placed, Born
<1> QED  BY Cases, <1>1, <1>3, <1>4, <1>5, <1>6, <1>7, <1>8, <1>9 DEF RowSteps

LEMMA AlwaysIInv == Spec => []IInv
<1>1. Init => IInv
  <2> SUFFICES ASSUME Init  PROVE IInv
    OBVIOUS
  <2>1. content \in Seq({})
    BY DEF Init
  <2>2. Born = {} /\ Born \subseteq Id /\ DOMAIN content = Born
    BY DEF Init, Born
  <2> QED
    BY <2>1, <2>2 DEF Init, IInv, TypeOK, Sequential, Counted, CopyBorn, Placed, Row, Blank,
                      Record, NoRecord, Run, Idle
<1> QED  BY <1>1, Inductive, PTL DEF Spec

(* The state has its types for any principals, limit and number of rows    *)
(* (TypeOK).                                                               *)
THEOREM Typed == Spec => []TypeOK
<1>1. IInv => TypeOK
  BY DEF IInv
<1> QED  BY <1>1, AlwaysIInv, PTL
-----------------------------------------------------------------------------
(* An archived row repeats an older one that maintenance has not archived, *)
(* for any number of commands that work on old copies at once              *)
(* (ContentKept): the row whose copy was kept may itself be archived by    *)
(* another command, but then the row that one kept is older still.         *)
THEOREM ArchivingKeepsContent == Spec => []ContentKept
<1>1. Init => ContentKept
  BY DEF Init, ContentKept, Blank, Born
<1>2. IInv /\ ContentKept /\ [Next]_vars => ContentKept'
  <2> SUFFICES ASSUME IInv, ContentKept, [Next]_vars  PROVE ContentKept'
    OBVIOUS
  <2>1. ASSUME UNCHANGED <<content, rows>>  PROVE ContentKept'
    BY <2>1 DEF ContentKept, SameContent, Born
  <2>2. ASSUME NEW row, NEW says, Insert(row, says), row.status = "active"
        PROVE  ContentKept'
    <3>1. \A i \in Born : rows'[i] = rows[i] /\ content'[i] = content[i]
      BY <2>2, NowInserted DEF Insert, IInv, TypeOK
    <3>2. rows'[Len(content) + 1].status = "active"
      BY <2>2, NowInserted DEF Insert, IInv, TypeOK
    <3> QED
      BY <2>2, <3>1, <3>2, NowInserted DEF ContentKept, SameContent
  <2>3. CASE Provider
    <3>1. ASSUME NEW p \in Principals, NEW f \in Facts, Remember(p, f)  PROVE ContentKept'
      BY <2>2, <3>1 DEF Remember, Blank
    <3>2. ASSUME NEW i \in Id, Retire(i)  PROVE ContentKept'
      <4>1. \A j \in Born : /\ rows'[j].of = rows[j].of
                            /\ rows'[j].status = "archived" => rows[j].status = "archived"
                            /\ rows[j].status # "archived" => rows'[j].status # "archived"
        BY <3>2 DEF Retire, IInv, TypeOK, Row
      <4> QED
        BY <3>2, <4>1 DEF Retire, ContentKept, SameContent, Born
    <3> QED  BY <2>3, <3>1, <3>2 DEF Provider
  <2>4. ASSUME NEW w \in Runs, NEW i \in Id, ArchiveDuplicate(w, i)  PROVE ContentKept'
    <3>1. PICK j \in run[w].copy : j < i /\ SameContent(i, j)
      BY <2>4 DEF ArchiveDuplicate, Repeats
    <3>2. i \in Born /\ j \in Born /\ Born \subseteq Nat
      BY <2>4 DEF ArchiveDuplicate, IInv, CopyBorn, TypeOK, Id
    <3>3. PICK k \in Born : k <= j /\ SameContent(i, k) /\ rows[k].status # "archived"
      BY <3>1, <3>2 DEF ContentKept, SameContent
    <3>4. /\ content' = content /\ Born' = Born
          /\ \A m \in Born : rows'[m].of = rows[m].of
          /\ \A m \in Born \ {i} : rows'[m] = rows[m]
      BY <2>4 DEF ArchiveDuplicate, IInv, TypeOK, Row, Born
    <3>5. \A m, n \in Born : SameContent(m, n)' <=> SameContent(m, n)
      BY <3>4 DEF SameContent
    <3>6. ASSUME NEW m \in Born, rows'[m].status = "archived"
          PROVE  \E n \in Born : n < m /\ SameContent(m, n) /\ rows'[n].status # "archived"
      <4>1. CASE m = i
        BY <3>1, <3>2, <3>3, <3>4, <4>1
      <4>2. CASE m # i
        <5>1. PICK n \in Born : n < m /\ SameContent(m, n) /\ rows[n].status # "archived"
          BY <3>4, <3>6, <4>2 DEF ContentKept
        <5>2. CASE n = i
          BY <3>1, <3>2, <3>3, <3>4, <5>1, <5>2 DEF SameContent
        <5> QED  BY <3>4, <5>1, <5>2
      <4> QED  BY <4>1, <4>2
    <3> QED  BY <3>4, <3>5, <3>6 DEF ContentKept
  <2>5. ASSUME NEW w \in Runs, NEW b \in BOOLEAN, Summarize(w, b)  PROVE ContentKept'
    BY <2>2, <2>5 DEF Summarize
  <2>6. ASSUME NEW w \in Runs, Quiet(w)  PROVE ContentKept'
    BY <2>1, <2>6, QuietStep DEF IInv
  <2>7. ASSUME NEW w \in Runs, Calls(w) \/ FetchDay(w)  PROVE ContentKept'
    BY <2>1, <2>7 DEF Calls, Call, FetchDay
  <2>8. CASE Tick \/ UNCHANGED vars
    BY <2>1, <2>8 DEF Tick, vars
  <2> QED  BY Cases, <2>3, <2>4, <2>5, <2>6, <2>7, <2>8 DEF RowSteps
<1> QED  BY <1>1, <1>2, AlwaysIInv, PTL DEF Spec
-----------------------------------------------------------------------------
LEMMA AlwaysAlone == Spec => []Alone
<1>1. Init => Alone
  BY DEF Init, Alone, Idle
<1>2. TypeOK /\ Placed /\ Alone /\ [Next]_vars => Alone'
  <2> SUFFICES ASSUME TypeOK, Placed, Alone, [Next]_vars  PROVE Alone'
    OBVIOUS
  <2>1. ASSUME UNCHANGED <<run, overlapped>>  PROVE Alone'
    BY <2>1 DEF Alone
  <2>2. ASSUME NEW w \in Runs, run[w].pc # "idle", overlapped' = overlapped,
               \A x \in Runs \ {w} : run'[x] = run[x],
               run'[w].pc = "idle" => run'[w].copy = {}
        PROVE  Alone'
    BY <2>2 DEF Alone
  <2>3. ASSUME NEW w \in Runs, Calls(w)  PROVE Alone'
    <3>1. /\ run'[w].copy = {} /\ \A x \in Runs \ {w} : run'[x] = run[x]
          /\ run'[w].pc = "next"
      BY <2>3 DEF Calls, Call, TypeOK, Idle
    <3>2. ~overlapped' => ~overlapped /\ \A x \in Runs : run[x].pc = "idle"
      BY <2>3 DEF Calls, Call, At
    <3> QED  BY <3>1, <3>2 DEF Alone
  <2>4. ASSUME NEW w \in Runs, Quiet(w)  PROVE Alone'
    <3>1. run[w].pc # "idle"
      BY <2>4 DEF Quiet, Skip, Begin, MarkStarted, NoSummary, MarkCompleted, Finish, Fail,
                  Raise, Crash, At
    <3>2. \A x \in Runs \ {w} : run'[x] = run[x]
      BY <2>4 DEF Quiet, Skip, Begin, MarkStarted, NoSummary, MarkCompleted, Finish, Fail,
                  Raise, Crash, Onward, TypeOK
    <3>3. run'[w].pc = "idle" => run'[w].copy = {}
      <4>1. CASE Skip(w) \/ MarkCompleted(w) \/ Fail(w) \/ Raise(w)
        BY <4>1 DEF Skip, MarkCompleted, Fail, Raise, Onward, TypeOK, Idle
      <4>2. CASE Begin(w) \/ MarkStarted(w) \/ NoSummary(w)
        BY <4>2 DEF Begin, MarkStarted, NoSummary, TypeOK, Run
      <4>3. CASE Finish(w) \/ Crash(w)
        BY <4>3 DEF Finish, Crash, TypeOK, Idle
      <4> QED  BY <2>4, <4>1, <4>2, <4>3 DEF Quiet
    <3> QED  BY <2>2, <2>4, <3>1, <3>2, <3>3, QuietStep
  <2>5. ASSUME NEW w \in Runs, FetchDay(w)  PROVE Alone'
    BY <2>2, <2>5 DEF FetchDay, At, TypeOK, history
  <2>6. ASSUME NEW w \in Runs, RowSteps(w)  PROVE Alone'
    <3>1. ASSUME NEW i \in Id, ArchiveDuplicate(w, i)  PROVE Alone'
      <4>1. run'[w].pc = run[w].pc /\ \A x \in Runs \ {w} : run'[x] = run[x]
        BY <3>1 DEF ArchiveDuplicate, TypeOK, Run
      <4> QED  BY <2>2, <3>1, <4>1 DEF ArchiveDuplicate, At, history
    <3>2. ASSUME NEW b \in BOOLEAN, Summarize(w, b)  PROVE Alone'
      <4>1. run'[w].pc = "written" /\ \A x \in Runs \ {w} : run'[x] = run[x]
        BY <3>2 DEF Summarize, TypeOK, Run
      <4> QED  BY <2>2, <3>2, <4>1 DEF Summarize, At, history
    <3> QED  BY <2>6, <3>1, <3>2 DEF RowSteps
  <2>7. CASE Tick \/ Provider \/ UNCHANGED vars
    BY <2>1, <2>7 DEF Tick, Provider, Remember, Retire, history, vars
  <2> QED  BY Cases, <2>3, <2>4, <2>5, <2>6, <2>7
<1>3. IInv => TypeOK /\ Placed
  BY DEF IInv
<1> QED  BY <1>1, <1>2, <1>3, AlwaysIInv, PTL DEF Spec

(* Commands that do not overlap never archive a row again, whatever fails  *)
(* and is retried (ArchivedOnce).                                          *)
THEOREM NoRowArchivedTwice == Spec => []ArchivedOnce
<1>1. Init => ArchivedOnce
  BY DEF Init, ArchivedOnce, Idle
<1>2. IInv /\ Alone /\ ArchivedOnce /\ [Next]_vars => ArchivedOnce'
  <2> SUFFICES ASSUME IInv, Alone, ArchivedOnce, [Next]_vars  PROVE ArchivedOnce'
    OBVIOUS
  <2> USE DEF IInv
  <2>1. ASSUME overlapped => overlapped',
               \A x \in Runs : run'[x].copy \subseteq run[x].copy,
               \A i \in Born : rows'[i].status = "archived" => rows[i].status = "archived"
        PROVE  ArchivedOnce'
    BY <2>1 DEF ArchivedOnce, CopyBorn
  <2>2. ASSUME NEW row, NEW says, Insert(row, says), overlapped' = overlapped,
               \A x \in Runs : run'[x].copy = run[x].copy
        PROVE  ArchivedOnce'
    <3>1. \A i \in Born : rows'[i] = rows[i]
      BY <2>2, NowInserted DEF Insert, TypeOK
    <3> QED  BY <2>1, <2>2, <3>1
  <2>3. CASE Provider
    <3>1. ASSUME NEW p \in Principals, NEW f \in Facts, Remember(p, f)  PROVE ArchivedOnce'
      BY <2>2, <3>1 DEF Remember, history
    <3>2. ASSUME NEW i \in Id, Retire(i)  PROVE ArchivedOnce'
      <4>1. \A j \in Born : rows'[j].status = "archived" => rows[j].status = "archived"
        BY <3>2 DEF Retire, TypeOK, Row
      <4> QED  BY <2>1, <3>2, <4>1 DEF Retire, history
    <3> QED  BY <2>3, <3>1, <3>2 DEF Provider
  <2>4. ASSUME NEW w \in Runs, NEW i \in Id, ArchiveDuplicate(w, i)  PROVE ArchivedOnce'
    <3>1. run[w].pc # "idle" /\ overlapped' = overlapped
      BY <2>4 DEF ArchiveDuplicate, At, history
    <3>2. run'[w].copy = run[w].copy \ {i} /\ \A x \in Runs \ {w} : run'[x] = run[x]
      BY <2>4 DEF ArchiveDuplicate, TypeOK
    <3>3. \A j \in Born \ {i} : rows'[j] = rows[j]
      BY <2>4 DEF ArchiveDuplicate, TypeOK
    <3>4. ~overlapped => \A x \in Runs \ {w} : run[x].copy = {}
      BY <3>1 DEF Alone
    <3> QED  BY <3>1, <3>2, <3>3, <3>4 DEF ArchivedOnce, CopyBorn
  <2>5. ASSUME NEW w \in Runs, NEW b \in BOOLEAN, Summarize(w, b)  PROVE ArchivedOnce'
    <3>1. \A x \in Runs : run'[x].copy = run[x].copy
      BY <2>5 DEF Summarize, TypeOK
    <3> QED  BY <2>2, <2>5, <3>1 DEF Summarize, history
  <2>6. ASSUME NEW w \in Runs, Quiet(w)  PROVE ArchivedOnce'
    BY <2>1, <2>6, QuietStep
  <2>7. ASSUME NEW w \in Runs, Calls(w)  PROVE ArchivedOnce'
    <3>1. \A x \in Runs : run'[x].copy \subseteq run[x].copy
      BY <2>7 DEF Calls, Call, TypeOK, Idle
    <3>2. rows' = rows /\ (overlapped => overlapped')
      BY <2>7 DEF Calls, Call
    <3> QED  BY <2>1, <3>1, <3>2
  <2>8. ASSUME NEW w \in Runs, FetchDay(w)  PROVE ArchivedOnce'
    <3>1. /\ run'[w].copy \subseteq DayRows(Current(w)) /\ UNCHANGED <<rows, overlapped>>
          /\ \A x \in Runs \ {w} : run'[x] = run[x]
      <4>1. PICK cut \in BOOLEAN, late \in BOOLEAN, copy \in SUBSET DayRows(Current(w)) :
              run' = [run EXCEPT ![w].pc = "compact", ![w].truncated = cut,
                                 ![w].copy = copy, ![w].late = late]
        BY <2>8 DEF FetchDay, Oldest
      <4> QED  BY <2>8, <4>1 DEF FetchDay, TypeOK, Run, history
    <3> QED  BY <3>1 DEF ArchivedOnce, DayRows
  <2>9. CASE Tick \/ UNCHANGED vars
    BY <2>1, <2>9 DEF Tick, vars, history
  <2> QED  BY Cases, <2>3, <2>4, <2>5, <2>6, <2>7, <2>8, <2>9 DEF RowSteps
<1> QED  BY <1>1, <1>2, AlwaysIInv, AlwaysAlone, PTL DEF Spec
-----------------------------------------------------------------------------
(* Why a completed record can be relied on.  Once the day is settled no    *)
(* row joins it, so what a command fetched then stays all there is.        *)
CoveredBy(p, o) == \A i \in DayRows(p) : o # None /\ i \in rows[o].sources
RecordCovers(p) ==
  /\ record[p].late => clock = "settled"
  /\ record[p].output \in Born \cup {None}
  /\ record[p].status = "completed" /\ record[p].late /\ ~record[p].truncated =>
       CoveredBy(p, record[p].output)
RunCovers(w) ==
  /\ run[w].late => clock = "settled"
  /\ run[w].output \in Born \cup {None}
  /\ run[w].late /\ ~run[w].truncated =>
       /\ run[w].pc = "compact" => DayRows(Current(w)) \subseteq run[w].copy
       /\ run[w].pc = "written" => CoveredBy(Current(w), run[w].output)
Covering ==
  (\A p \in Principals : RecordCovers(p)) /\ (\A w \in Runs : RunCovers(w))

(* What was asked for is all there is when it is no more than the limit.   *)
LEMMA OldestAll ==
  ASSUME NEW S, S \subseteq Id, NEW n \in Nat, Cardinality(Oldest(S, n + 1)) <= n
  PROVE  Oldest(S, n + 1) = S
<1> DEFINE O == Oldest(S, n + 1)
<1>1. S \subseteq Nat /\ IsFiniteSet(S)
  <2>1. Id \subseteq Nat /\ IsFiniteSet(Id)
    BY FS_Interval, MaintenanceAssumption DEF Id
  <2> QED  BY <2>1, FS_Subset
<1>2. O \subseteq S /\ IsFiniteSet(O)
  BY <1>1, FS_Subset DEF Oldest
<1> SUFFICES ASSUME S \ O # {}  PROVE FALSE
  BY <1>2
<1>3. PICK m \in S \ O : \A k \in S \ O : m <= k
  BY <1>1, Least
<1> DEFINE Below == {j \in S : j < m}
<1>4. ASSUME NEW j \in Below, j \notin O  PROVE FALSE
  <2>1. j \in Nat /\ m \in Nat /\ j < m /\ j \in S \ O
    BY <1>1, <1>4
  <2>2. m <= j
    BY <1>3, <2>1
  <2> QED  BY <2>1, <2>2
<1>5. IsFiniteSet(Below) /\ Cardinality(Below) <= Cardinality(O)
  BY <1>2, <1>4, FS_Subset
<1>6. Cardinality(Below) \in Nat /\ Cardinality(O) \in Nat
  BY <1>2, <1>5, FS_CardinalityType
<1>7. Cardinality(Below) < n + 1
  BY <1>5, <1>6
<1> QED  BY <1>3, <1>7 DEF Oldest

LEMMA FetchStep ==
  ASSUME IInv, NEW w \in Runs, FetchDay(w)
  PROVE  /\ UNCHANGED <<content, rows, clock, record, history>>
         /\ \A x \in Runs \ {w} : run'[x] = run[x]
         /\ run'[w].pc = "compact" /\ run'[w].left = run[w].left
         /\ run'[w].output = run[w].output
         /\ run'[w].late <=> clock = "settled"
         /\ ~run'[w].truncated => run'[w].copy = DayRows(Current(w))
<1> DEFINE asked == DayRows(Current(w))
           found == IF Limit = 0 THEN asked ELSE Oldest(asked, Limit + 1)
           cut == Limit > 0 /\ Cardinality(found) > Limit
           copy == IF cut THEN Oldest(found, Limit) ELSE found
<1>1. run' = [run EXCEPT ![w].pc = "compact", ![w].truncated = cut,
                         ![w].copy = copy, ![w].late = (clock = "settled")]
  BY DEF FetchDay
<1>2. ~cut => copy = asked
  <2>1. asked \subseteq Id /\ IsFiniteSet(asked)
    <3>1. IsFiniteSet(Id)
      BY FS_Interval, MaintenanceAssumption DEF Id
    <3> QED  BY <3>1, FS_Subset DEF DayRows
  <2>2. Cardinality(Oldest(asked, Limit + 1)) \in Nat
    BY <2>1, FS_Subset, FS_CardinalityType DEF Oldest
  <2>3. Limit > 0 /\ ~cut => Cardinality(Oldest(asked, Limit + 1)) <= Limit
    BY <2>2, MaintenanceAssumption
  <2> QED  BY <2>1, <2>3, OldestAll, MaintenanceAssumption
<1> HIDE DEF cut, copy
<1>3. run'[w] = [run[w] EXCEPT !.pc = "compact", !.truncated = cut,
                              !.copy = copy, !.late = (clock = "settled")]
  BY <1>1 DEF IInv, TypeOK
<1>4. /\ run'[w].pc = "compact" /\ run'[w].left = run[w].left
      /\ run'[w].output = run[w].output /\ run'[w].truncated = cut
      /\ run'[w].copy = copy /\ run'[w].late = (clock = "settled")
  BY <1>3 DEF IInv, TypeOK, Run
<1> QED  BY <1>1, <1>2, <1>4 DEF FetchDay, IInv, TypeOK

(* What the other steps leave of it: rows already there keep their sources *)
(* and no row joins a settled day.                                         *)
Keeps ==
  /\ Born \subseteq Born'
  /\ \A i \in Born : rows'[i].sources = rows[i].sources
  /\ clock = "settled" => /\ clock' = "settled"
                          /\ \A p \in Principals : DayRows(p)' \subseteq DayRows(p)

LEMMA CoverStays ==
  ASSUME Keeps, clock = "settled", NEW p \in Principals, NEW o \in Born \cup {None},
         CoveredBy(p, o)
  PROVE  CoveredBy(p, o)'
BY DEF Keeps, CoveredBy

LEMMA RecordStays ==
  ASSUME Keeps, NEW p \in Principals, record'[p] = record[p], RecordCovers(p)
  PROVE  RecordCovers(p)'
BY CoverStays DEF RecordCovers, Keeps

LEMMA RunStays ==
  ASSUME Keeps, TypeOK, Placed, NEW w \in Runs, run'[w] = run[w], RunCovers(w)
  PROVE  RunCovers(w)'
<1>1. Current(w)' = Current(w)
  BY DEF Current
<1>2. run[w].pc \in {"compact", "written"} => Current(w) \in Principals
  BY CurrentIsLeft DEF Placed
<1>3. run[w].late => clock = "settled" /\ clock' = "settled"
  BY DEF RunCovers, Keeps
<1>4. run[w].output \in Born \cup {None} /\ run[w].output \in Born' \cup {None}
  BY DEF RunCovers, Keeps
<1>5. CASE run[w].late /\ ~run[w].truncated /\ run[w].pc = "compact"
  <2>1. DayRows(Current(w)) \subseteq run[w].copy
    BY <1>5 DEF RunCovers
  <2>2. DayRows(Current(w))' \subseteq DayRows(Current(w))
    BY <1>1, <1>2, <1>3, <1>5 DEF Keeps, DayRows
  <2> QED  BY <1>1, <1>3, <1>4, <1>5, <2>1, <2>2 DEF RunCovers
<1>6. CASE run[w].late /\ ~run[w].truncated /\ run[w].pc = "written"
  <2>1. CoveredBy(Current(w), run[w].output)
    BY <1>6 DEF RunCovers
  <2>2. PICK p \in Principals, o \in Born \cup {None} :
          p = Current(w) /\ o = run[w].output
    BY <1>2, <1>4, <1>6
  <2>3. CoveredBy(p, o)'
    BY <1>3, <1>6, <2>1, <2>2, CoverStays
  <2>4. CoveredBy(Current(w), run[w].output)'
    BY <1>1, <2>2, <2>3 DEF CoveredBy, DayRows
  <2> QED  BY <1>3, <1>4, <1>6, <2>4 DEF RunCovers
<1> QED  BY <1>3, <1>4, <1>5, <1>6 DEF RunCovers

LEMMA CoveringStep == IInv /\ Covering /\ [Next]_vars => Covering'
<1> SUFFICES ASSUME IInv, Covering, [Next]_vars  PROVE Covering'
  OBVIOUS
<1> USE DEF IInv
<1>1. ASSUME UNCHANGED <<content, rows>>, clock = "settled" => clock' = "settled"
      PROVE  Keeps
  BY <1>1 DEF Keeps, Born, DayRows
<1>2. ASSUME NEW row, NEW says, Insert(row, says), UNCHANGED clock,
             clock = "settled" => ~row.ofDay
      PROVE  Keeps
  <2>1. /\ \A i \in Born : rows'[i] = rows[i]
        /\ rows'[Len(content) + 1] = row
        /\ \A i \in Id \ Born' : rows'[i] = rows[i]
    BY <1>2, NowInserted DEF Insert, TypeOK
  <2>2. clock = "settled" => \A p \in Principals : DayRows(p)' \subseteq DayRows(p)
    BY <1>2, <2>1, NowInserted DEF DayRows, TypeOK
  <2> QED  BY <1>2, <2>1, <2>2, NowInserted DEF Keeps
<1>3. ASSUME Keeps, NEW w \in Runs, RunCovers(w)', record' = record,
             \A x \in Runs \ {w} : run'[x] = run[x]
      PROVE  Covering'
  BY <1>3, RecordStays, RunStays DEF Covering
<1>4. ASSUME Keeps, UNCHANGED <<record, run>>  PROVE Covering'
  BY <1>4, RecordStays, RunStays DEF Covering
<1>5. CASE Provider
  <2>1. ASSUME NEW p \in Principals, NEW f \in Facts, Remember(p, f)  PROVE Covering'
    <3>1. clock # "settled"
      BY <2>1 DEF Remember, OfDay
    <3> QED  BY <1>2, <1>4, <2>1, <3>1 DEF Remember
  <2>2. ASSUME NEW i \in Id, Retire(i)  PROVE Covering'
    <3>1. Keeps
      BY <2>2 DEF Retire, Keeps, TypeOK, Row, Born, DayRows
    <3> QED  BY <1>4, <2>2, <3>1 DEF Retire
  <2> QED  BY <1>5, <2>1, <2>2 DEF Provider
<1>6. CASE Tick \/ UNCHANGED vars
  BY <1>1, <1>4, <1>6 DEF Tick, vars
<1>7. ASSUME NEW w \in Runs, Calls(w)  PROVE Covering'
  <2>1. /\ UNCHANGED <<content, rows, clock, record>>
        /\ \A x \in Runs \ {w} : run'[x] = run[x]
        /\ run'[w].late = FALSE /\ run'[w].output = None
    BY <1>7 DEF Calls, Call, TypeOK, Idle
  <2>2. RunCovers(w)'
    BY <2>1 DEF RunCovers
  <2> QED  BY <1>1, <1>3, <2>1, <2>2
<1>8. ASSUME NEW w \in Runs, FetchDay(w)  PROVE Covering'
  <2>1. Current(w)' = Current(w) /\ DayRows(Current(w))' = DayRows(Current(w)) /\ Born' = Born
    BY <1>8, FetchStep DEF Current, DayRows, Born
  <2>2. RunCovers(w)'
    BY <1>8, <2>1, FetchStep DEF RunCovers, Covering
  <2>3. Keeps /\ record' = record /\ \A x \in Runs \ {w} : run'[x] = run[x]
    BY <1>1, <1>8, FetchStep
  <2> QED  BY <1>3, <2>2, <2>3
<1>9. ASSUME NEW w \in Runs, NEW i \in Id, ArchiveDuplicate(w, i)  PROVE Covering'
  <2>1. /\ run'[w].copy = run[w].copy \ {i} /\ \A x \in Runs \ {w} : run'[x] = run[x]
        /\ run'[w].late = run[w].late /\ run'[w].truncated = run[w].truncated
        /\ run'[w].output = run[w].output /\ run'[w].left = run[w].left
        /\ run'[w].pc = "compact" /\ run[w].pc = "compact"
        /\ UNCHANGED <<content, clock, record>>
    BY <1>9 DEF ArchiveDuplicate, TypeOK, Run, At
  <2>2. /\ \A p \in Principals : DayRows(p)' = DayRows(p) \ {i}
        /\ \A j \in Id : rows'[j].sources = rows[j].sources
    BY <1>9 DEF ArchiveDuplicate, DayRows, TypeOK, Row
  <2>3. Keeps
    BY <2>1, <2>2 DEF Keeps, Born, TypeOK
  <2>4. Current(w)' = Current(w) /\ Current(w) \in Principals /\ Born' = Born
    BY <2>1, CurrentIsLeft DEF Current, Placed, Born
  <2>5. DayRows(Current(w))' = DayRows(Current(w)) \ {i}
    BY <2>2, <2>4 DEF DayRows
  <2>6. RunCovers(w)'
    BY <2>1, <2>4, <2>5 DEF RunCovers, Covering
  <2> QED  BY <1>3, <2>1, <2>3, <2>6
<1>10. ASSUME NEW w \in Runs, NEW b \in BOOLEAN, Summarize(w, b)  PROVE Covering'
  <2> DEFINE new == Len(content) + 1
             row == [status |-> "active", of |-> Current(w), kind |-> "summary",
                     sources |-> run[w].copy, ofDay |-> b]
  <2>1. Insert(row, Listing(run[w].copy)) /\ UNCHANGED <<clock, record>>
    BY <1>10 DEF Summarize
  <2>2. clock = "settled" => ~b
    BY <1>10 DEF Summarize, OfDay
  <2>3. Keeps
    BY <1>2, <2>1, <2>2
  <2>4. new \in Born' /\ rows'[new].sources = run[w].copy
    BY <2>1, NowInserted DEF Insert, TypeOK
  <2>5. /\ run'[w].output = new /\ \A x \in Runs \ {w} : run'[x] = run[x]
        /\ run'[w].late = run[w].late /\ run'[w].truncated = run[w].truncated
        /\ run'[w].left = run[w].left /\ run'[w].pc = "written" /\ run[w].pc = "compact"
    BY <1>10 DEF Summarize, TypeOK, Run, At
  <2>6. Current(w)' = Current(w) /\ Current(w) \in Principals
    BY <2>5, CurrentIsLeft DEF Current, Placed
  <2>7. clock = "settled" => DayRows(Current(w))' \subseteq DayRows(Current(w))
    BY <2>3, <2>6 DEF Keeps, DayRows
  <2>8. new # None
    BY <2>1, NowInserted DEF Id, None
  <2>9. RunCovers(w)'
    BY <2>1, <2>4, <2>5, <2>6, <2>7, <2>8 DEF RunCovers, Covering, CoveredBy
  <2> QED  BY <1>3, <2>1, <2>3, <2>5, <2>9
<1>11. ASSUME NEW w \in Runs, Quiet(w)  PROVE Covering'
  <2>1. UNCHANGED <<content, rows, clock>> /\ Keeps /\ Born' = Born
    BY <1>1, <1>11, QuietStep DEF Born
  <2>2. ASSUME NEW failed \in BOOLEAN, Onward(w, failed)
        PROVE  RunCovers(w)' /\ \A x \in Runs \ {w} : run'[x] = run[x]
    <3>1. /\ run'[w].late = FALSE /\ run'[w].output = None
          /\ \A x \in Runs \ {w} : run'[x] = run[x]
      BY <2>2 DEF Onward, TypeOK, Idle
    <3> QED  BY <3>1 DEF RunCovers
  <2>3. ASSUME NEW p \in Principals, RecordCovers(p)', RunCovers(w)',
               \A q \in Principals \ {p} : record'[q] = record[q],
               \A x \in Runs \ {w} : run'[x] = run[x]
        PROVE  Covering'
    BY <2>1, <2>3, RecordStays, RunStays DEF Covering
  <2>4. CASE Skip(w) \/ Raise(w)
    BY <1>3, <2>1, <2>2, <2>4 DEF Skip, Raise
  <2>5. CASE Finish(w) \/ Crash(w)
    <3>1. /\ run'[w].late = FALSE /\ run'[w].output = None /\ record' = record
          /\ \A x \in Runs \ {w} : run'[x] = run[x]
      BY <2>5 DEF Finish, Crash, TypeOK, Idle
    <3>2. RunCovers(w)'
      BY <3>1 DEF RunCovers
    <3> QED  BY <1>3, <2>1, <3>1, <3>2
  <2>6. CASE Begin(w) \/ MarkStarted(w)
    <3>1. /\ run'[w].late = run[w].late /\ run'[w].output = run[w].output
          /\ run'[w].pc \in {"mark", "fetch"} /\ \A x \in Runs \ {w} : run'[x] = run[x]
      BY <2>6 DEF Begin, MarkStarted, TypeOK, Run
    <3>2. RunCovers(w)'
      BY <2>1, <3>1 DEF RunCovers, Covering
    <3>3. CASE Begin(w)
      BY <1>3, <2>1, <3>1, <3>2, <3>3 DEF Begin
    <3>4. CASE MarkStarted(w)
      <4>1. Current(w) \in Principals
        BY <3>4, CurrentIsLeft DEF MarkStarted, Placed, At
      <4>2. /\ record'[Current(w)].late = FALSE /\ record'[Current(w)].output = None
            /\ \A q \in Principals \ {Current(w)} : record'[q] = record[q]
        BY <3>4, <4>1 DEF MarkStarted, TypeOK, NoRecord
      <4>3. PICK p \in Principals : p = Current(w)
        BY <4>1
      <4>4. RecordCovers(p)'
        BY <4>2, <4>3 DEF RecordCovers
      <4> QED  BY <2>3, <3>1, <3>2, <4>2, <4>3, <4>4
    <3> QED  BY <2>6, <3>3, <3>4
  <2>7. CASE Fail(w)
    <3>1. Current(w) \in Principals
      BY <2>7, CurrentIsLeft DEF Fail, Placed
    <3>2. /\ record'[Current(w)].late = FALSE /\ record'[Current(w)].output = None
          /\ \A q \in Principals \ {Current(w)} : record'[q] = record[q]
      BY <2>7, <3>1 DEF Fail, TypeOK, NoRecord
    <3>3. PICK p \in Principals : p = Current(w)
      BY <3>1
    <3>4. RecordCovers(p)'
      BY <3>2, <3>3 DEF RecordCovers
    <3> QED  BY <2>2, <2>3, <2>7, <3>2, <3>3, <3>4 DEF Fail
  <2>8. CASE NoSummary(w)
    <3>1. /\ run'[w].late = run[w].late /\ run'[w].output = run[w].output
          /\ run'[w].truncated = run[w].truncated /\ run'[w].left = run[w].left
          /\ run'[w].pc = "written" /\ run[w].pc = "compact" /\ run[w].copy = {}
          /\ record' = record /\ \A x \in Runs \ {w} : run'[x] = run[x]
      BY <2>8 DEF NoSummary, TypeOK, Run, At
    <3>2. Current(w)' = Current(w) /\ DayRows(Current(w))' = DayRows(Current(w))
      BY <2>1, <3>1 DEF Current, DayRows
    <3>3. RunCovers(w)'
      BY <2>1, <3>1, <3>2 DEF RunCovers, Covering, CoveredBy
    <3> QED  BY <1>3, <2>1, <3>1, <3>3
  <2>9. CASE MarkCompleted(w)
    <3>1. Current(w) \in Principals /\ run[w].pc = "written"
      BY <2>9, CurrentIsLeft DEF MarkCompleted, Placed, At
    <3>2. /\ record'[Current(w)].late = run[w].late
          /\ record'[Current(w)].output = run[w].output
          /\ record'[Current(w)].truncated = run[w].truncated
          /\ \A q \in Principals \ {Current(w)} : record'[q] = record[q]
      BY <2>9, <3>1 DEF MarkCompleted, TypeOK
    <3>3. PICK p \in Principals : p = Current(w)
      BY <3>1
    <3>4. RunCovers(w)
      BY DEF Covering
    <3>5. PICK o : o = run[w].output
      OBVIOUS
    <3>6. o \in Born \cup {None} /\ (run[w].late => clock = "settled")
      BY <3>4, <3>5 DEF RunCovers
    <3>7. CoveredBy(p, o) => CoveredBy(p, o)'
      BY <2>1 DEF CoveredBy, DayRows
    <3>8. RecordCovers(p)'
      BY <2>1, <3>1, <3>2, <3>3, <3>4, <3>5, <3>6, <3>7
         DEF RecordCovers, RunCovers, CoveredBy, DayRows
    <3> QED  BY <2>2, <2>3, <2>9, <3>2, <3>3, <3>8 DEF MarkCompleted
  <2> QED  BY <1>11, <2>4, <2>5, <2>6, <2>7, <2>8, <2>9 DEF Quiet
<1> QED  BY Cases, <1>5, <1>6, <1>7, <1>8, <1>9, <1>10, <1>11 DEF RowSteps

(* A completed record that says nothing of a cut, of a command that came   *)
(* after the day, names a summary of every row of the day that is still    *)
(* active, whatever other commands and providers do meanwhile (DayCovered).*)
THEOREM CompletedDaysAreCovered == Spec => []DayCovered
<1>1. Init => Covering
  BY DEF Init, Covering, RecordCovers, RunCovers, NoRecord, Idle, Born
<1>2. Covering => DayCovered
  BY DEF Covering, RecordCovers, CoveredBy, DayCovered
<1> QED  BY <1>1, <1>2, CoveringStep, AlwaysIInv, PTL DEF Spec
-----------------------------------------------------------------------------
(* What a command that is alone can rely on: it left no completed day      *)
(* behind unless forced, the record says "started" while it is on a day,   *)
(* and it passed over nobody without counting a failure.                   *)
RunWorks(w) ==
  /\ run[w].pc = "idle" => run[w] = Idle
  /\ run[w].pc = "mark" /\ ~run[w].force => record[Current(w)].status # "completed"
  /\ run[w].pc \in {"fetch", "compact", "written"} => record[Current(w)].status = "started"
  /\ ~run[w].failures =>
       \A p \in run[w].listed \ run[w].left : record[p].status = "completed"
Working == ~overlapped => \A w \in Runs : RunWorks(w)

(* The others are idle and stay so.                                        *)
LEMMA WorksAlone ==
  ASSUME Alone, Working, NEW w \in Runs, run[w].pc # "idle", overlapped' = overlapped,
         \A x \in Runs \ {w} : run'[x] = run[x], ~overlapped => RunWorks(w)'
  PROVE  Working'
<1> SUFFICES ASSUME ~overlapped, NEW x \in Runs \ {w}  PROVE RunWorks(x)'
  BY DEF Working
<1>1. run'[x] = Idle
  BY DEF Alone, Working, RunWorks
<1> QED  BY <1>1 DEF RunWorks, Idle

(* What a step on a day, between the records, leaves of the run.           *)
OnTheDay(w) == FetchDay(w) \/ RowSteps(w) \/ NoSummary(w)

LEMMA DayStep ==
  ASSUME TypeOK, NEW w \in Runs, OnTheDay(w)
  PROVE  /\ UNCHANGED <<clock, record, overlapped, upset>>
         /\ \A x \in Runs \ {w} : run'[x] = run[x]
         /\ run[w].pc \in {"fetch", "compact"} /\ run'[w].pc \in {"compact", "written"}
         /\ run'[w].left = run[w].left /\ run'[w].listed = run[w].listed
         /\ run'[w].force = run[w].force /\ run'[w].failures = run[w].failures
<1>1. CASE FetchDay(w)
  <2>1. PICK cut, late, copy :
          run' = [run EXCEPT ![w].pc = "compact", ![w].truncated = cut,
                             ![w].copy = copy, ![w].late = late]
    BY <1>1 DEF FetchDay
  <2> QED  BY <1>1, <2>1 DEF FetchDay, At, TypeOK, Run, history
<1>2. ASSUME NEW i \in Id, ArchiveDuplicate(w, i)
      PROVE  /\ run'[w] = [run[w] EXCEPT !.copy = run[w].copy \ {i}]
             /\ run[w].pc = "compact" /\ UNCHANGED <<clock, record, overlapped, upset>>
             /\ \A x \in Runs \ {w} : run'[x] = run[x]
  BY <1>2 DEF ArchiveDuplicate, At, TypeOK, history
<1>3. ASSUME NEW b \in BOOLEAN, Summarize(w, b)
      PROVE  /\ run'[w] = [run[w] EXCEPT !.pc = "written", !.output = Len(content) + 1]
             /\ run[w].pc = "compact" /\ UNCHANGED <<clock, record, overlapped, upset>>
             /\ \A x \in Runs \ {w} : run'[x] = run[x]
  BY <1>3 DEF Summarize, At, TypeOK, history
<1>4. CASE NoSummary(w)
  BY <1>4 DEF NoSummary, At, TypeOK, Run, history
<1> QED  BY <1>1, <1>2, <1>3, <1>4 DEF OnTheDay, RowSteps, TypeOK, Run

LEMMA OnwardStep ==
  ASSUME TypeOK, NEW w \in Runs, NEW failed \in BOOLEAN, Onward(w, failed)
  PROVE  /\ \A x \in Runs \ {w} : run'[x] = run[x]
         /\ run'[w].pc = "next" /\ run'[w].left = run[w].left \ {Current(w)}
         /\ run'[w].listed = run[w].listed /\ run'[w].force = run[w].force
         /\ run'[w].failures = (run[w].failures \/ failed)
BY DEF Onward, TypeOK, Idle

LEMMA WorkingStep == IInv /\ Alone /\ Working /\ [Next]_vars => Working'
<1> SUFFICES ASSUME IInv, Alone, Working, [Next]_vars  PROVE Working'
  OBVIOUS
<1> USE DEF IInv
<1>1. CASE Tick \/ Provider \/ UNCHANGED vars
  <2>1. UNCHANGED <<run, record, overlapped>>
    BY <1>1 DEF Tick, Provider, Remember, Retire, history, vars
  <2> QED  BY <2>1 DEF Working, RunWorks, Current
<1>2. ASSUME NEW w \in Runs, Calls(w)  PROVE Working'
  <2>1. /\ run'[w].pc = "next" /\ run'[w].listed = run'[w].left
        /\ \A x \in Runs \ {w} : run'[x] = run[x]
    BY <1>2 DEF Calls, Call, TypeOK, Idle
  <2>2. ~overlapped' => ~overlapped /\ \A x \in Runs : run[x].pc = "idle"
    BY <1>2 DEF Calls, Call, At
  <2>3. ASSUME ~overlapped', NEW x \in Runs \ {w}  PROVE RunWorks(x)'
    <3>1. run'[x] = Idle
      BY <2>1, <2>2, <2>3 DEF Working, RunWorks
    <3> QED  BY <3>1 DEF RunWorks, Idle
  <2> QED  BY <2>1, <2>3 DEF Working, RunWorks
<1>3. ASSUME NEW w \in Runs, OnTheDay(w)  PROVE Working'
  <2>1. Current(w)' = Current(w)
    BY <1>3, DayStep DEF Current
  <2>2. ~overlapped => RunWorks(w)'
    BY <1>3, <2>1, DayStep DEF Working, RunWorks
  <2> QED  BY <1>3, <2>2, DayStep, WorksAlone
<1>4. ASSUME NEW w \in Runs, Quiet(w), ~NoSummary(w)  PROVE Working'
  <2>1. overlapped' = overlapped
    BY <1>4, QuietStep
  <2>2. run[w].pc # "idle"
    BY <1>4 DEF Quiet, Skip, Begin, MarkStarted, MarkCompleted, Finish, Fail, Raise, Crash, At
  <2>3. CASE Skip(w) \/ Raise(w)
    <3>1. PICK failed \in BOOLEAN :
            /\ Onward(w, failed) /\ record' = record
            /\ ~failed => record[Current(w)].status = "completed"
      BY <2>3 DEF Skip, Raise, Settled
    <3>2. ~overlapped => RunWorks(w)'
      BY <3>1, OnwardStep DEF Working, RunWorks
    <3> QED  BY <2>1, <2>2, <3>1, <3>2, OnwardStep, WorksAlone
  <2>4. CASE Fail(w)
    <3>1. run'[w].failures /\ run'[w].pc = "next" /\ \A x \in Runs \ {w} : run'[x] = run[x]
      BY <2>4, OnwardStep DEF Fail
    <3> QED  BY <2>1, <2>2, <3>1, WorksAlone DEF RunWorks
  <2>5. CASE MarkCompleted(w)
    <3>1. Current(w) \in Principals
      BY <2>2, <2>5, CurrentIsLeft DEF MarkCompleted, Placed, At
    <3>2. /\ record'[Current(w)].status = "completed"
          /\ \A q \in Principals \ {Current(w)} : record'[q] = record[q]
      BY <2>5, <3>1 DEF MarkCompleted, TypeOK
    <3>3. Onward(w, FALSE)
      BY <2>5 DEF MarkCompleted
    <3>4. run[w].listed \subseteq Principals
      BY DEF TypeOK, Run
    <3>5. /\ \A x \in Runs \ {w} : run'[x] = run[x]
          /\ run'[w].pc = "next" /\ run'[w].left = run[w].left \ {Current(w)}
          /\ run'[w].listed = run[w].listed
          /\ run'[w].failures = run[w].failures
      BY <3>3, OnwardStep DEF TypeOK, Run
    <3>6. ASSUME ~overlapped, ~run'[w].failures, NEW p \in run'[w].listed \ run'[w].left
          PROVE  record'[p].status = "completed"
      <4>1. p \in Principals /\ (p = Current(w) \/ p \in run[w].listed \ run[w].left)
        BY <3>4, <3>5, <3>6
      <4> QED  BY <3>2, <3>5, <3>6, <4>1 DEF Working, RunWorks
    <3>7. ~overlapped => RunWorks(w)'
      BY <3>5, <3>6 DEF RunWorks
    <3> QED  BY <2>1, <2>2, <3>5, <3>7, WorksAlone
  <2>6. CASE Finish(w) \/ Crash(w)
    <3>1. run'[w] = Idle /\ \A x \in Runs \ {w} : run'[x] = run[x]
      BY <2>6 DEF Finish, Crash, TypeOK
    <3>2. RunWorks(w)'
      BY <3>1 DEF RunWorks, Idle
    <3> QED  BY <2>1, <2>2, <3>1, <3>2, WorksAlone
  <2>7. CASE Begin(w)
    <3>1. /\ run'[w] = [run[w] EXCEPT !.pc = "mark"] /\ record' = record
          /\ \A x \in Runs \ {w} : run'[x] = run[x] /\ run[w].pc = "next"
          /\ ~run[w].force => record[Current(w)].status # "completed"
      BY <2>7 DEF Begin, TypeOK, At, Settled
    <3>2. /\ run'[w].pc = "mark" /\ run'[w].left = run[w].left
          /\ run'[w].listed = run[w].listed /\ run'[w].force = run[w].force
          /\ run'[w].failures = run[w].failures
      BY <3>1 DEF TypeOK, Run
    <3>3. Current(w)' = Current(w)
      BY <3>2 DEF Current
    <3>4. ~overlapped => RunWorks(w)'
      BY <3>1, <3>2, <3>3 DEF Working, RunWorks
    <3>5. \A x \in Runs \ {w} : run'[x] = run[x]
      BY <2>7 DEF Begin, TypeOK
    <3> QED  BY <2>1, <2>2, <3>4, <3>5, WorksAlone
  <2>8. CASE MarkStarted(w)
    <3>1. Current(w) \in run[w].left /\ Current(w) \in Principals
      BY <2>8, CurrentIsLeft DEF MarkStarted, Placed, At
    <3>2. /\ run'[w].pc = "fetch" /\ run'[w].left = run[w].left
          /\ run'[w].listed = run[w].listed /\ run'[w].failures = run[w].failures
          /\ \A x \in Runs \ {w} : run'[x] = run[x]
      BY <2>8 DEF MarkStarted, TypeOK, Run
    <3>3. /\ record'[Current(w)].status = "started"
          /\ \A q \in Principals \ {Current(w)} : record'[q] = record[q]
      BY <2>8, <3>1 DEF MarkStarted, TypeOK, NoRecord
    <3>4. Current(w)' = Current(w)
      BY <3>2 DEF Current
    <3>5. run[w].listed \subseteq Principals
      BY DEF TypeOK, Run
    <3>6. ~overlapped => RunWorks(w)'
      BY <3>1, <3>2, <3>3, <3>4, <3>5 DEF Working, RunWorks
    <3> QED  BY <2>1, <2>2, <3>2, <3>6, WorksAlone
  <2> QED  BY <1>4, <2>3, <2>4, <2>5, <2>6, <2>7, <2>8 DEF Quiet
<1> QED  BY Cases, <1>1, <1>2, <1>3, <1>4 DEF OnTheDay, Quiet

LEMMA AlwaysWorking == Spec => []Working
<1>1. Init => Working
  BY DEF Init, Working, RunWorks, Idle
<1> QED  BY <1>1, WorkingStep, AlwaysIInv, AlwaysAlone, PTL DEF Spec

(* As long as a command has counted no failure, everyone it is through     *)
(* with is completed: what compact-daily reports is what the records say   *)
(* (DailyHonest).                                                          *)
THEOREM DailyReportsHonestly == Spec => []DailyHonest
<1>1. Working => DailyHonest
  BY DEF Working, RunWorks, DailyHonest
<1> QED  BY <1>1, AlwaysWorking, PTL

(* Commands that do not overlap and are not forced never change a          *)
(* completed record, whatever fails or is retried (CompletedStays).        *)
THEOREM CompletedIsFinal == Spec => CompletedStays
<1> DEFINE Final(p) ==
      record[p].status = "completed" /\ ~overlapped /\ (\A w \in Runs : ~run[w].force)
        => record'[p] = record[p]
<1>1. IInv /\ Working /\ [Next]_vars => \A p \in Principals : Final(p)
  <2> SUFFICES ASSUME IInv, Working, [Next]_vars, NEW p \in Principals  PROVE Final(p)
    OBVIOUS
  <2> USE DEF IInv
  <2>1. ASSUME NEW w \in Runs, MarkStarted(w) \/ MarkCompleted(w) \/ Fail(w)
        PROVE  Final(p)
    <3>1. /\ run[w].pc \in {"mark", "fetch", "compact", "written"}
          /\ \A q \in Principals \ {Current(w)} : record'[q] = record[q]
      BY <2>1 DEF MarkStarted, MarkCompleted, Fail, At, TypeOK
    <3>2. ~overlapped /\ ~run[w].force => record[Current(w)].status # "completed"
      BY <3>1 DEF Working, RunWorks
    <3> QED  BY <3>1, <3>2
  <2>2. ASSUME record' = record  PROVE Final(p)
    BY <2>2
  <2>3. ASSUME NEW w \in Runs, Calls(w) \/ OnTheDay(w)  PROVE Final(p)
    BY <2>2, <2>3, DayStep DEF Calls, Call
  <2>4. ASSUME NEW w \in Runs, Skip(w) \/ Begin(w) \/ Finish(w) \/ Raise(w) \/ Crash(w)
        PROVE  Final(p)
    BY <2>2, <2>4 DEF Skip, Begin, Finish, Raise, Crash
  <2>5. CASE Tick \/ Provider \/ UNCHANGED vars
    BY <2>2, <2>5 DEF Tick, Provider, Remember, Retire, vars
  <2> QED  BY Cases, <2>1, <2>3, <2>4, <2>5 DEF OnTheDay, Quiet
<1> QED  BY <1>1, AlwaysIInv, AlwaysWorking, PTL DEF Spec, CompletedStays
-----------------------------------------------------------------------------
(* Commands one after the other and none cut short: a summary is there     *)
(* only when the record is completed or about to be.                       *)
Sole(p) ==
  /\ \A i, j \in Summaries(p) : i = j
  /\ Summaries(p) # {} =>
       \/ record[p].status = "completed"
       \/ \E w \in Runs : run[w].pc = "written" /\ Current(w) = p
Undisturbed ==
  ~overlapped /\ ~upset =>
    (\A w \in Runs : ~run[w].force) /\ (\A p \in Principals : Sole(p))

LEMMA SoleStays ==
  ASSUME NEW p \in Principals, Sole(p), Summaries(p)' = Summaries(p),
         record[p].status = "completed" => record'[p].status = "completed",
         \A w \in Runs : run[w].pc = "written" /\ Current(w) = p =>
           \/ record'[p].status = "completed"
           \/ run'[w].pc = "written" /\ Current(w)' = p
  PROVE  Sole(p)'
BY DEF Sole

LEMMA SameSummaries ==
  ASSUME NEW p \in Principals,
         \A i \in Id : rows'[i].kind = rows[i].kind /\ rows'[i].of = rows[i].of
  PROVE  Summaries(p)' = Summaries(p)
BY DEF Summaries

LEMMA AlwaysUndisturbed == Spec => []Undisturbed
<1>1. Init => Undisturbed
  BY DEF Init, Undisturbed, Sole, Summaries, Blank, Idle
<1>2. IInv /\ Alone /\ Working /\ Undisturbed /\ [Next]_vars => Undisturbed'
  <2> SUFFICES ASSUME IInv, Alone, Working, Undisturbed, [Next]_vars,
                      ~overlapped', ~upset'
               PROVE  (\A w \in Runs : ~run'[w].force) /\ (\A p \in Principals : Sole(p)')
    BY DEF Undisturbed
  <2> USE DEF IInv
  <2>1. ASSUME UNCHANGED <<run, record, overlapped, upset>>,
               \A p \in Principals : Summaries(p)' = Summaries(p)
        PROVE  (\A w \in Runs : ~run'[w].force) /\ (\A p \in Principals : Sole(p)')
    BY <2>1, SoleStays DEF Undisturbed, Current
  <2>2. CASE Tick \/ UNCHANGED vars
    BY <2>1, <2>2, SameSummaries DEF Tick, vars, history
  <2>3. CASE Provider
    <3>1. ASSUME NEW p \in Principals, NEW f \in Facts, Remember(p, f),
                 NEW q \in Principals
          PROVE  Summaries(q)' = Summaries(q)
      <4> DEFINE new == Len(content) + 1
      <4>1. new \in Id \ Born /\ \A i \in Id \ {new} : rows'[i] = rows[i]
        BY <3>1, NowInserted DEF Remember, Insert, TypeOK
      <4>2. rows[new].kind = "fact" /\ rows'[new].kind = "fact"
        BY <3>1, <4>1 DEF Remember, Insert, TypeOK, Counted, Blank
      <4> QED  BY <4>1, <4>2 DEF Summaries
    <3>2. ASSUME NEW i \in Id, Retire(i), NEW q \in Principals
          PROVE  Summaries(q)' = Summaries(q)
      BY <3>2, SameSummaries DEF Retire, TypeOK, Row
    <3> QED  BY <2>1, <2>3, <3>1, <3>2 DEF Provider, Remember, Retire, history
  <2>4. ASSUME NEW w \in Runs, Calls(w)
        PROVE  (\A x \in Runs : ~run'[x].force) /\ (\A p \in Principals : Sole(p)')
    <3>1. PICK listed \in SUBSET Principals, force \in BOOLEAN : Call(w, listed, force)
      BY <2>4 DEF Calls
    <3>2. /\ UNCHANGED <<rows, record>> /\ ~overlapped /\ ~upset /\ ~force
          /\ run[w].pc = "idle"
      BY <3>1 DEF Call, At
    <3>3. ~run'[w].force /\ \A x \in Runs \ {w} : run'[x] = run[x]
      BY <3>1, <3>2 DEF Call, TypeOK, Idle
    <3>4. ASSUME NEW p \in Principals  PROVE Sole(p)'
      <4>1. Summaries(p)' = Summaries(p) /\ Sole(p)
        BY <3>2 DEF Summaries, Undisturbed
      <4>2. \A x \in Runs : run[x].pc = "written" => run'[x] = run[x]
        BY <3>2, <3>3
      <4> QED  BY <3>2, <4>1, <4>2, SoleStays DEF Current
    <3> QED  BY <3>2, <3>3, <3>4 DEF Undisturbed
  <2>5. ASSUME NEW w \in Runs, FetchDay(w) \/ (\E i \in Id : ArchiveDuplicate(w, i)) \/ NoSummary(w)
        PROVE  (\A x \in Runs : ~run'[x].force) /\ (\A p \in Principals : Sole(p)')
    <3>1. OnTheDay(w)
      BY <2>5 DEF OnTheDay, RowSteps
    <3>2. ~overlapped /\ ~upset /\ record' = record /\ \A x \in Runs : run'[x].force = run[x].force
      BY <3>1, DayStep
    <3>3. \A x \in Runs : run[x].pc = "written" => run'[x] = run[x]
      BY <3>1, DayStep
    <3>4. ASSUME NEW p \in Principals  PROVE Sole(p)'
      <4>1. Summaries(p)' = Summaries(p)
        BY <2>5, SameSummaries DEF FetchDay, ArchiveDuplicate, NoSummary, TypeOK, Row
      <4> QED  BY <3>2, <3>3, <4>1, SoleStays DEF Current, Undisturbed
    <3> QED  BY <3>2, <3>4 DEF Undisturbed
  <2>6. ASSUME NEW w \in Runs, NEW b \in BOOLEAN, Summarize(w, b)
        PROVE  (\A x \in Runs : ~run'[x].force) /\ (\A p \in Principals : Sole(p)')
    <3> DEFINE new == Len(content) + 1
               row == [status |-> "active", of |-> Current(w), kind |-> "summary",
                       sources |-> run[w].copy, ofDay |-> b]
    <3>1. OnTheDay(w) /\ run[w].pc = "compact" /\ run'[w].pc = "written"
      BY <2>6 DEF OnTheDay, RowSteps, Summarize, At, TypeOK, Run
    <3>2. ~overlapped /\ ~upset /\ record' = record /\ \A x \in Runs : run'[x].force = run[x].force
      BY <3>1, DayStep
    <3>3. Insert(row, Listing(run[w].copy))
      BY <2>6 DEF Summarize
    <3>4. new \in Id \ Born /\ rows'[new] = row /\ \A i \in Id \ {new} : rows'[i] = rows[i]
      BY <3>3, NowInserted DEF Insert, TypeOK
    <3>5. Current(w)' = Current(w) /\ Current(w) \in Principals
      BY <3>1, DayStep, CurrentIsLeft DEF Current, Placed
    <3>6. \A x \in Runs : run[x].pc # "written"
      BY <3>1, <3>2 DEF Alone
    <3>7. record[Current(w)].status = "started"
      BY <3>1, <3>2 DEF Working, RunWorks
    <3>8. ASSUME NEW p \in Principals, p = Current(w)  PROVE Sole(p)'
      <4>1. Summaries(p) = {}
        BY <3>2, <3>6, <3>7, <3>8 DEF Undisturbed, Sole
      <4>2. Summaries(p)' = {new}
        BY <3>4, <3>8, <4>1 DEF Summaries
      <4> QED  BY <3>1, <3>5, <3>8, <4>2 DEF Sole
    <3>9. ASSUME NEW p \in Principals, p # Current(w)  PROVE Sole(p)'
      <4>1. rows[new].kind = "fact"
        BY <3>4 DEF Counted, Blank
      <4>2. Summaries(p)' = Summaries(p)
        BY <3>4, <3>9, <4>1 DEF Summaries
      <4> QED  BY <3>2, <3>6, <4>2, SoleStays DEF Undisturbed
    <3> QED  BY <3>2, <3>8, <3>9 DEF Undisturbed
  <2>7. ASSUME NEW w \in Runs, Quiet(w), ~NoSummary(w)
        PROVE  (\A x \in Runs : ~run'[x].force) /\ (\A p \in Principals : Sole(p)')
    <3>1. /\ Skip(w) \/ Begin(w) \/ MarkStarted(w) \/ MarkCompleted(w) \/ Finish(w)
          /\ UNCHANGED <<rows, overlapped, upset>>
      BY <2>7, QuietStep DEF Quiet, Fail, Raise, Crash, Skip, Begin, MarkStarted,
                             MarkCompleted, Finish, history
    <3>2. /\ \A x \in Runs \ {w} : run'[x] = run[x]
          /\ run'[w].force => run[w].force
      <4>1. CASE Skip(w) \/ MarkCompleted(w)
        BY <4>1, OnwardStep DEF Skip, MarkCompleted
      <4>2. CASE Begin(w) \/ MarkStarted(w)
        BY <4>2 DEF Begin, MarkStarted, TypeOK, Run
      <4>3. CASE Finish(w)
        BY <4>3 DEF Finish, TypeOK, Idle
      <4> QED  BY <3>1, <4>1, <4>2, <4>3
    <3>3. \A x \in Runs : ~run[x].force /\ ~run'[x].force
      BY <3>1, <3>2 DEF Undisturbed
    <3>4. ASSUME NEW p \in Principals  PROVE Sole(p)'
      <4>1. Sole(p) /\ Summaries(p)' = Summaries(p)
        BY <3>1 DEF Undisturbed, Summaries
      <4>2. CASE Skip(w) \/ Begin(w) \/ Finish(w)
        <5>1. record' = record /\ run[w].pc = "next"
          BY <4>2 DEF Skip, Begin, Finish, At
        <5> QED  BY <3>2, <4>1, <5>1, SoleStays DEF Current
      <4>3. CASE MarkStarted(w)
        <5>1. run[w].pc = "mark" /\ \A q \in Principals \ {Current(w)} : record'[q] = record[q]
          BY <4>3 DEF MarkStarted, At, TypeOK
        <5>2. record[Current(w)].status # "completed"
          BY <3>1, <3>3, <5>1 DEF Working, RunWorks
        <5> QED  BY <3>2, <4>1, <5>1, <5>2, SoleStays DEF Current
      <4>4. CASE MarkCompleted(w)
        <5>1. Current(w) \in Principals
          BY <4>4, CurrentIsLeft DEF MarkCompleted, Placed, At
        <5>2. /\ record'[Current(w)].status = "completed"
              /\ \A q \in Principals \ {Current(w)} : record'[q] = record[q]
          BY <4>4, <5>1 DEF MarkCompleted, TypeOK
        <5>3. \A x \in Runs \ {w} : Current(x)' = Current(x)
          BY <3>2 DEF Current
        <5> QED  BY <3>2, <4>1, <5>2, <5>3, SoleStays
      <4> QED  BY <3>1, <4>2, <4>3, <4>4
    <3> QED  BY <3>3, <3>4
  <2> QED  BY Cases, <2>2, <2>3, <2>4, <2>5, <2>6, <2>7 DEF RowSteps
<1> QED  BY <1>1, <1>2, AlwaysIInv, AlwaysAlone, AlwaysWorking, PTL DEF Spec

(* However often maintenance is called, with commands one after the other  *)
(* and none of them cut short, a principal gets one summary of the day     *)
(* (OneSummary).                                                           *)
THEOREM OneSummaryADay == Spec => []OneSummary
<1>1. Undisturbed => OneSummary
  <2> SUFFICES ASSUME Undisturbed, ~overlapped, ~upset, NEW p \in Principals
               PROVE  Cardinality(Summaries(p)) <= 1
    BY DEF OneSummary
  <2>1. CASE Summaries(p) = {}
    BY <2>1, FS_EmptySet
  <2>2. ASSUME NEW i \in Summaries(p)  PROVE Cardinality(Summaries(p)) <= 1
    <3>1. Summaries(p) = {i}
      BY <2>2 DEF Undisturbed, Sole
    <3> QED  BY <3>1, FS_Singleton
  <2> QED  BY <2>1, <2>2
<1> QED  BY <1>1, AlwaysUndisturbed, PTL
=============================================================================
