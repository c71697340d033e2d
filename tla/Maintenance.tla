----------------------------- MODULE Maintenance -----------------------------
(***************************************************************************)
(* The daily maintenance of user memory: compact-user and compact-daily,   *)
(* the state record they keep for each principal and day, and the rows     *)
(* they archive and summarise while providers go on inserting, replacing   *)
(* and expiring rows.  The module follows one day.  A command is a process *)
(* of its own; every transaction of the store is a step, and between two   *)
(* of them another process may run, a call may raise, or the command end.  *)
(***************************************************************************)
EXTENDS Naturals, FiniteSets, Sequences

CONSTANTS
  Principals,  \* numbered in the order of ORDER BY principal_id
  Runs,        \* the processes that run maintenance commands
  Facts,       \* contents of the rows that providers write
  Limit,       \* maintenance_max_records_per_day; 0 for none
  Forces,      \* may a command be given --force?  a subset of BOOLEAN
  MaxRows      \* bound on the rows ever inserted

ASSUME MaintenanceAssumption ==
  /\ Principals \subseteq Nat \ {0}
  /\ Limit \in Nat
  /\ Forces \subseteq BOOLEAN
  /\ MaxRows \in Nat

Id == 1 .. MaxRows     \* in the order of created_at: two inserts under way at
                       \* once commit in the order of their time stamps
None == 0              \* no principal, no row

VARIABLES
  content,     \* what each row inserted says: a fact, or for a summary the
               \* sequence of the contents it lists
  rows,        \* the rest of the rows of layer semantic_user
  clock,       \* "day"; "night", when rows that took their time stamp on the
               \* day may still be committed; "settled", when all have been
  record,      \* maintenance_state, for each principal
  run,         \* the command that each process is in
  overlapped,  \* history: two commands have been under way at once
  upset        \* history: a command was forced, has raised or ended half-way

vars == <<content, rows, clock, record, run, overlapped, upset>>
history == <<overlapped, upset>>

(* A "retired" row is superseded, or its expires_at has passed.            *)
Row == [status : {"none", "active", "retired", "archived"},
        of : Principals \cup {None}, kind : {"fact", "summary"},
        sources : SUBSET Id, ofDay : BOOLEAN]
Blank == [status |-> "none", of |-> None, kind |-> "fact", sources |-> {}, ofDay |-> FALSE]
Born == 1 .. Len(content)

(* late is history: the run fetched its rows when the day was settled.     *)
Record == [status : {"none", "started", "failed", "completed"},
           output : Id \cup {None}, truncated : BOOLEAN, late : BOOLEAN]
NoRecord == [status |-> "none", output |-> None, truncated |-> FALSE, late |-> FALSE]

(* listed are the principals a command was started for, left those it is   *)
(* not through with, copy the rows fetched of the one it is at.            *)
Run == [pc : {"idle", "next", "mark", "fetch", "compact", "written"},
        listed : SUBSET Principals, left : SUBSET Principals, force : BOOLEAN,
        copy : SUBSET Id, truncated : BOOLEAN, late : BOOLEAN,
        output : Id \cup {None}, failures : BOOLEAN]
Idle == [pc |-> "idle", listed |-> {}, left |-> {}, force |-> FALSE, copy |-> {},
         truncated |-> FALSE, late |-> FALSE, output |-> None, failures |-> FALSE]

TypeOK ==
  /\ DOMAIN content = Born /\ Born \subseteq Id
  /\ rows \in [Id -> Row]
  /\ clock \in {"day", "night", "settled"}
  /\ record \in [Principals -> Record]
  /\ run \in [Runs -> Run]
  /\ overlapped \in BOOLEAN /\ upset \in BOOLEAN

Init ==
  /\ content = <<>>
  /\ rows = [i \in Id |-> Blank]
  /\ clock = "day"
  /\ record = [p \in Principals |-> NoRecord]
  /\ run = [w \in Runs |-> Idle]
  /\ overlapped = FALSE /\ upset = FALSE
-----------------------------------------------------------------------------
(* Midnight passes, and later the last insert that was under way then.     *)
Tick ==
  /\ clock # "settled"
  /\ clock' = IF clock = "day" THEN "night" ELSE "settled"
  /\ UNCHANGED <<content, rows, record, run, history>>

(* insert_memory takes created_at before it waits for the store's lock.    *)
OfDay(b) == clock = "night" \/ b = (clock = "day")

Insert(row, says) ==
  /\ Len(content) < MaxRows
  /\ content' = Append(content, says)
  /\ rows' = [rows EXCEPT ![Len(content) + 1] = row]

(* A provider writes a row of the day for a principal.  Rows of other days *)
(* are left out: no query of this module finds them.                       *)
Remember(p, fact) ==
  /\ OfDay(TRUE)
  /\ Insert([Blank EXCEPT !.status = "active", !.of = p, !.ofDay = TRUE], fact)
  /\ UNCHANGED <<clock, record, run, history>>

(* A row leaves the active ones: its expiry passes, or a provider replaces *)
(* it, by id, whatever became of it since it was read.                     *)
Retire(i) ==
  /\ rows[i].status \in {"active", "archived"}
  /\ rows' = [rows EXCEPT ![i].status = "retired"]
  /\ UNCHANGED <<content, clock, record, run, history>>
-----------------------------------------------------------------------------
At(w, place) == run[w].pc = place

(* A command starts: compact-user for one principal, compact-daily for     *)
(* several.                                                                *)
Call(w, listed, force) ==
  /\ At(w, "idle")
  /\ run' = [run EXCEPT ![w] = [Idle EXCEPT !.pc = "next", !.listed = listed,
                                            !.left = listed, !.force = force]]
  /\ overlapped' = (overlapped \/ \E x \in Runs : ~At(x, "idle"))
  /\ upset' = (upset \/ force)
  /\ UNCHANGED <<content, rows, clock, record>>

CompactUser(w, p, force) == Call(w, {p}, force)

(* list_user_principals finds everyone who has a row, of whatever day.     *)
CompactDaily(w, force) ==
  \E listed \in SUBSET Principals :
    /\ {rows[i].of : i \in Born} \subseteq listed
    /\ Call(w, listed, force)

(* The principal it is at, and the step to the one after.                  *)
Current(w) == CHOOSE p \in run[w].left : \A q \in run[w].left : p <= q
Onward(w, failed) ==
  run' = [run EXCEPT ![w] =
    [Idle EXCEPT !.pc = "next", !.listed = run[w].listed, !.force = run[w].force,
                 !.left = run[w].left \ {Current(w)},
                 !.failures = run[w].failures \/ failed]]

(* Mutant of Settled: a record made before the day was over is redone.     *)
SettledLate(w) ==
  record[Current(w)].status = "completed" /\ record[Current(w)].late /\ ~run[w].force

(* Mutant of Settled: a record without a summary does not count.           *)
SettledFruitful(w) ==
  /\ record[Current(w)].status = "completed" /\ record[Current(w)].output # None
  /\ ~run[w].force

(* compact_user_day reads the record: a completed day is left alone.       *)
Settled(w) == record[Current(w)].status = "completed" /\ ~run[w].force
Skip(w) ==
  /\ At(w, "next") /\ run[w].left # {} /\ Settled(w)
  /\ Onward(w, FALSE)
  /\ UNCHANGED <<content, rows, clock, record, history>>
Begin(w) ==
  /\ At(w, "next") /\ run[w].left # {} /\ ~Settled(w)
  /\ run' = [run EXCEPT ![w].pc = "mark"]
  /\ UNCHANGED <<content, rows, clock, record, history>>

MarkStarted(w) ==
  /\ At(w, "mark")
  /\ record' = [record EXCEPT ![Current(w)] = [NoRecord EXCEPT !.status = "started"]]
  /\ run' = [run EXCEPT ![w].pc = "fetch"]
  /\ UNCHANGED <<content, rows, clock, history>>

(* Mutant of DayRows: the query lost its status filter.                    *)
DayRowsAnyStatus(p) ==
  {i \in Id : rows[i].status # "none" /\ rows[i].of = p /\ rows[i].ofDay}

(* fetch_user_records_for_date, the oldest first.                          *)
DayRows(p) == {i \in Id : rows[i].status = "active" /\ rows[i].of = p /\ rows[i].ofDay}
Oldest(S, n) == {i \in S : Cardinality({j \in S : j < i}) < n}

(* Mutant of FetchDay: the limit itself is asked for.                      *)
FetchDayUpToLimit(w) ==
  LET asked == DayRows(Current(w))
      found == IF Limit = 0 THEN asked ELSE Oldest(asked, Limit)
      cut == Limit > 0 /\ Cardinality(found) > Limit
  IN /\ At(w, "fetch")
     /\ run' = [run EXCEPT ![w].pc = "compact", ![w].truncated = cut,
                           ![w].copy = IF cut THEN Oldest(found, Limit) ELSE found,
                           ![w].late = (clock = "settled")]
     /\ UNCHANGED <<content, rows, clock, record, history>>

(* One row more than the limit is asked for, so that a cut is noticed.     *)
FetchDay(w) ==
  LET asked == DayRows(Current(w))
      found == IF Limit = 0 THEN asked ELSE Oldest(asked, Limit + 1)
      cut == Limit > 0 /\ Cardinality(found) > Limit
  IN /\ At(w, "fetch")
     /\ run' = [run EXCEPT ![w].pc = "compact", ![w].truncated = cut,
                           ![w].copy = IF cut THEN Oldest(found, Limit) ELSE found,
                           ![w].late = (clock = "settled")]
     /\ UNCHANGED <<content, rows, clock, record, history>>

(* Equal fingerprints.                                                     *)
SameContent(i, j) == rows[i].of = rows[j].of /\ content[i] = content[j]

(* Mutant of Repeats: the newest of the equal rows is kept.                *)
RepeatsNewer(w, i) == \E j \in run[w].copy : j > i /\ SameContent(i, j)

Repeats(w, i) == \E j \in run[w].copy : j < i /\ SameContent(i, j)

(* archive, by id, of a row that repeats an earlier one of the copy.       *)
ArchiveDuplicate(w, i) ==
  /\ At(w, "compact") /\ i \in run[w].copy /\ Repeats(w, i)
  /\ rows' = [rows EXCEPT ![i].status = "archived"]
  /\ run' = [run EXCEPT ![w].copy = @ \ {i}]
  /\ UNCHANGED <<content, clock, record, history>>

(* What is left of the copy becomes a new row; nothing, no row.            *)
Nth(S, k) == CHOOSE i \in S : Cardinality({j \in S : j <= i}) = k
Listing(S) == [k \in 1 .. Cardinality(S) |-> content[Nth(S, k)]]
Summarize(w, b) ==
  /\ At(w, "compact") /\ run[w].copy # {} /\ ~\E i \in run[w].copy : Repeats(w, i)
  /\ OfDay(b)
  /\ Insert([status |-> "active", of |-> Current(w), kind |-> "summary",
              sources |-> run[w].copy, ofDay |-> b], Listing(run[w].copy))
  /\ run' = [run EXCEPT ![w].pc = "written", ![w].output = Len(content) + 1]
  /\ UNCHANGED <<clock, record, history>>
NoSummary(w) ==
  /\ At(w, "compact") /\ run[w].copy = {}
  /\ run' = [run EXCEPT ![w].pc = "written"]
  /\ UNCHANGED <<content, rows, clock, record, history>>

MarkCompleted(w) ==
  /\ At(w, "written")
  /\ record' = [record EXCEPT ![Current(w)] =
       [status |-> "completed", output |-> run[w].output,
        truncated |-> run[w].truncated, late |-> run[w].late]]
  /\ Onward(w, FALSE)
  /\ UNCHANGED <<content, rows, clock, history>>

(* Mutant of Fail: the failure is recorded but not counted.                *)
FailUncounted(w) ==
  /\ run[w].pc \in {"fetch", "compact", "written"}
  /\ record' = [record EXCEPT ![Current(w)] = [NoRecord EXCEPT !.status = "failed"]]
  /\ Onward(w, FALSE)
  /\ upset' = TRUE
  /\ UNCHANGED <<content, rows, clock, overlapped>>

(* Whatever raises between the two records is recorded; the daily command  *)
(* goes on with the next principal.                                        *)
Fail(w) ==
  /\ run[w].pc \in {"fetch", "compact", "written"}
  /\ record' = [record EXCEPT ![Current(w)] = [NoRecord EXCEPT !.status = "failed"]]
  /\ Onward(w, TRUE)
  /\ upset' = TRUE
  /\ UNCHANGED <<content, rows, clock, overlapped>>

(* Reading or writing the record raises, of a failure too: nothing is      *)
(* recorded.                                                               *)
Raise(w) ==
  /\ ~At(w, "idle") /\ run[w].left # {}
  /\ Onward(w, TRUE)
  /\ upset' = TRUE
  /\ UNCHANGED <<content, rows, clock, record, overlapped>>

Finish(w) ==
  /\ At(w, "next") /\ run[w].left = {}
  /\ run' = [run EXCEPT ![w] = Idle]
  /\ UNCHANGED <<content, rows, clock, record, history>>

(* The process ends.                                                       *)
Crash(w) ==
  /\ ~At(w, "idle")
  /\ run' = [run EXCEPT ![w] = Idle]
  /\ upset' = TRUE
  /\ UNCHANGED <<content, rows, clock, record, overlapped>>

Provider ==
  \/ \E p \in Principals, f \in Facts : Remember(p, f)
  \/ \E i \in Id : Retire(i)

Command(w) ==
  \/ \E force \in Forces :
       CompactDaily(w, force) \/ \E p \in Principals : CompactUser(w, p, force)
  \/ Skip(w) \/ Begin(w) \/ MarkStarted(w) \/ FetchDay(w)
  \/ \E i \in Id : ArchiveDuplicate(w, i)
  \/ (\E b \in BOOLEAN : Summarize(w, b)) \/ NoSummary(w)
  \/ MarkCompleted(w) \/ Finish(w)

Next ==
  \/ Tick \/ Provider
  \/ \E w \in Runs : Command(w) \/ Fail(w) \/ Raise(w) \/ Crash(w)

Spec == Init /\ [][Next]_vars
-----------------------------------------------------------------------------
(* Archiving duplicates loses no content: an archived row repeats an older *)
(* row that maintenance has not archived, however many commands work on    *)
(* old copies at once, and whatever raises or ends between two steps.      *)
ContentKept ==
  \A i \in Born : rows[i].status = "archived" =>
    \E j \in Born : j < i /\ SameContent(i, j) /\ rows[j].status # "archived"

(* A completed record can be relied on: when its run came after the day    *)
(* and says nothing of a cut, every row of the day that is still active is *)
(* in the summary it names.                                                *)
DayCovered ==
  \A p \in Principals :
    LET r == record[p]
    IN r.status = "completed" /\ r.late /\ ~r.truncated =>
         \A i \in DayRows(p) : r.output # None /\ i \in rows[r.output].sources

Summaries(p) == {i \in Id : rows[i].kind = "summary" /\ rows[i].of = p}

(* Maintenance is idempotent: however often it is called, with commands    *)
(* one after the other and none of them cut short, a principal gets one    *)
(* summary of the day.                                                     *)
OneSummary ==
  ~overlapped /\ ~upset =>
    \A p \in Principals : Cardinality(Summaries(p)) <= 1

(* Commands that do not overlap archive no row twice, also when they are   *)
(* retried after a failure in the middle of the archiving.                 *)
ArchivedOnce ==
  ~overlapped =>
    \A w \in Runs : \A i \in run[w].copy : rows[i].status # "archived"

(* What compact-daily reports is what the records say: as long as it has   *)
(* counted no failure, everyone it is through with is completed.           *)
DailyHonest ==
  ~overlapped =>
    \A w \in Runs : ~run[w].failures =>
      \A p \in run[w].listed \ run[w].left : record[p].status = "completed"

(* A completed record is final for commands that do not overlap, unless    *)
(* the one under way is forced: not a failure, a crash or a retry undoes   *)
(* it.                                                                     *)
CompletedStays ==
  [][\A p \in Principals :
       record[p].status = "completed" /\ ~overlapped /\ (\A w \in Runs : ~run[w].force)
         => record'[p] = record[p]]_vars

(* What carries the invariants: rows not inserted yet are blank; a command *)
(* copies rows there are, and is at a principal while it works on a day;   *)
(* without overlap one command is under way.                               *)
Counted == \A i \in Id \ Born : rows[i] = Blank
CopyBorn == \A w \in Runs : run[w].copy \subseteq Born
Placed == \A w \in Runs : run[w].pc \notin {"idle", "next"} => run[w].left # {}
Alone ==
  /\ \A w \in Runs : run[w].pc = "idle" => run[w].copy = {}
  /\ ~overlapped => \A w, x \in Runs : run[w].pc # "idle" /\ run[x].pc # "idle" => w = x

(* Retries are safe: "daily jobs must be safe to retry after partial       *)
(* failures and must avoid duplicate summaries or duplicate archival"      *)
(* (openspec add-daily-memory-maintenance, design.md).                     *)
SafeRetry ==
  ~overlapped => \A p \in Principals : Cardinality(Summaries(p)) <= 1
=============================================================================
