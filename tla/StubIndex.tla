------------------------------ MODULE StubIndex ------------------------------
(***************************************************************************)
(* The semantic index without LanceDB: one JSON file that every operation  *)
(* reads whole and writes whole, under a lock that only the threads of its *)
(* own process share.  MemoryStore takes an index operation for one step;  *)
(* here it is the steps the file goes through, among processes that may    *)
(* end at any of them.  write_text truncates the file before it writes, so *)
(* for a while the file is blank, and then torn: no JSON.                  *)
(*                                                                         *)
(* Of the table only the live rows and their platforms matter.             *)
(***************************************************************************)
EXTENDS Naturals

CONSTANTS
  Workers,     \* threads that call the store
  Process,     \* the process each of them belongs to
  Legacy,      \* ids of the rows older than the platform column
  New,         \* ids of the rows to be written
  MaxCrashes   \* bound on the processes that end at work

ASSUME StubAssumption ==
  /\ DOMAIN Process = Workers
  /\ Legacy \cap New = {}
  /\ MaxCrashes \in Nat

Entry == [id : Legacy \cup New, platform : {"", "known"}]

VARIABLES
  table,      \* the live rows, each with its platform
  born,       \* the ids inserted so far
  file,       \* what the file is, and its entries if it can be read
  pc,         \* where each worker is
  work,       \* what each worker does to the index
  entries,    \* the entries it adds, removes or rebuilds the index from
  out,        \* the entries it is about to write
  mixed,      \* the writers whose file another has written to meanwhile
  crashes,    \* how many processes have ended at work
  met,        \* history: the workers whose work on the file met another's
  disturbed,  \* history: another process was met, or work was cut short, ...
  overtaken   \* ... or no more than a rebuild overtaken, since the last lone one

vars == <<table, born, file, pc, work, entries, out, mixed, crashes, met,
          disturbed, overtaken>>
history == <<crashes, met, disturbed, overtaken>>

Ids(S) == {e.id : e \in S}
Blank == [text |-> "blank", rows |-> {}]
Torn == [text |-> "torn", rows |-> {}]
Json(S) == [text |-> "json", rows |-> S]

Locked == {"load", "save", "write"}   \* the places under the index lock
Places == {"idle", "wait", "read", "clear"} \cup Locked

TypeOK ==
  /\ table \subseteq Entry /\ born \subseteq Legacy \cup New
  /\ \A d, e \in table : d.id = e.id => d = e
  /\ file \in {Blank, Torn} \cup {Json(S) : S \in SUBSET Entry}
  /\ \A d, e \in file.rows : d.id = e.id => d = e
  /\ pc \in [Workers -> Places]
  /\ work \in [Workers -> {"none", "upsert", "remove", "clear", "fill"}]
  /\ entries \in [Workers -> SUBSET Entry] /\ out \in [Workers -> SUBSET Entry]
  /\ mixed \subseteq Workers
  /\ crashes \in 0..MaxCrashes /\ met \subseteq Workers
  /\ disturbed \in BOOLEAN /\ overtaken \in BOOLEAN

(* A table from before the platform column, indexed as it is.              *)
Init ==
  /\ table = [id : Legacy, platform : {""}] /\ born = Legacy
  /\ file = Json(table)
  /\ pc = [w \in Workers |-> "idle"] /\ work = [w \in Workers |-> "none"]
  /\ entries = [w \in Workers |-> {}] /\ out = [w \in Workers |-> {}]
  /\ mixed = {} /\ crashes = 0 /\ met = {}
  /\ disturbed = FALSE /\ overtaken = FALSE

Goto(w, place) == pc' = [pc EXCEPT ![w] = place]
Does(w, what, S) ==
  work' = [work EXCEPT ![w] = what] /\ entries' = [entries EXCEPT ![w] = S]

(* Between its first look at what it will overwrite and its last write, a  *)
(* worker can meet those of other processes.  In its own process, a rebuild*)
(* that has read the table and waits for the lock is overtaken by whoever  *)
(* gets the lock before it: it will wipe what they write, and put back what*)
(* it has read.                                                            *)
Open == {w \in Workers : pc[w] \in Locked \cup {"clear"}}
Beside(w) ==
  {x \in Open \ {w} : Process[x] # Process[w] \/ pc[x] = "clear"}
Meets(w) ==
  /\ met' = IF Beside(w) = {} THEN met \ {w} ELSE met \cup Beside(w) \cup {w}
  /\ disturbed' = (disturbed \/ \E x \in Beside(w) : Process[x] # Process[w])
  /\ overtaken' = (~disturbed' /\ (overtaken \/ Beside(w) # {}))
  /\ UNCHANGED crashes
-----------------------------------------------------------------------------
(* The store commits, and calls the index once it has released its lock.   *)
Insert(w, i) ==
  /\ pc[w] = "idle" /\ i \notin born
  /\ born' = born \cup {i}
  /\ table' = table \cup {[id |-> i, platform |-> "known"]}
  /\ Does(w, "upsert", {[id |-> i, platform |-> "known"]}) /\ Goto(w, "wait")
  /\ UNCHANGED <<file, out, mixed, history>>

Archive(w, e) ==
  /\ pc[w] = "idle" /\ e \in table
  /\ table' = table \ {e}
  /\ Does(w, "remove", {e}) /\ Goto(w, "wait")
  /\ UNCHANGED <<born, file, out, mixed, history>>

(* backfill-platform --apply gives the old rows the platform that their    *)
(* provenance knows, and rebuilds the index if there were any.             *)
Unplaced == {e \in table : e.platform = ""}
Backfill(w) ==
  /\ pc[w] = "idle" /\ Unplaced # {}
  /\ table' = (table \ Unplaced) \cup [id : Ids(Unplaced), platform : {"known"}]
  /\ Goto(w, "read")
  /\ UNCHANGED <<born, file, work, entries, out, mixed, history>>

(* rebuild_index reads the table and then waits for the index lock.        *)
RebuildIndex(w) ==
  /\ pc[w] \in {"idle", "read"}
  /\ Does(w, "clear", table) /\ Goto(w, "clear")
  /\ Meets(w)
  /\ UNCHANGED <<table, born, file, out, mixed>>
-----------------------------------------------------------------------------
(* Mutant: every operation opens the file without a lock.                  *)
UnlockedFree(w) == TRUE

LockFree(w) == \A x \in Workers : Process[x] = Process[w] => pc[x] \notin Locked

Becomes(w, S) == out' = [out EXCEPT ![w] = S] /\ Goto(w, "save")

(* Mutant: a rebuild clears the file without the lock.                     *)
ClearUnlocked(w) ==
  /\ pc[w] = "clear"
  /\ Becomes(w, {})
  /\ UNCHANGED <<table, born, file, work, entries, mixed, history>>

(* rebuild saves an empty list first, whatever the file is.                *)
Clear(w) ==
  /\ pc[w] = "clear" /\ LockFree(w)
  /\ Becomes(w, {})
  /\ UNCHANGED <<table, born, file, work, entries, mixed, history>>

(* An upsert or a remove loads the file when it has the lock, and so does  *)
(* a rebuild when it has cleared the file.                                 *)
AtLoad(w) == pc[w] = "load" \/ (pc[w] = "wait" /\ LockFree(w))

(* Mutant: entries are not keyed by memory_id.                             *)
MergedUnkeyed(w) ==
  IF work[w] = "remove" THEN file.rows \ entries[w] ELSE file.rows \cup entries[w]

Merged(w) ==
  {e \in file.rows : e.id \notin Ids(entries[w])}
  \cup (IF work[w] = "remove" THEN {} ELSE entries[w])

Load(w) ==
  /\ AtLoad(w) /\ file.text # "torn"
  /\ Becomes(w, Merged(w))
  /\ IF pc[w] = "wait" THEN Meets(w) ELSE UNCHANGED history
  /\ UNCHANGED <<table, born, file, work, entries, mixed>>

(* json.loads raises: the row is in the table and not in the index.        *)
LoadRaises(w) ==
  /\ AtLoad(w) /\ file.text = "torn"
  /\ Goto(w, "idle") /\ Does(w, "none", {})
  /\ met' = (met \cup Open) \ {w} /\ disturbed' = TRUE /\ overtaken' = FALSE
  /\ UNCHANGED <<table, born, file, out, mixed, crashes>>

(* write_text truncates the file and writes, in one piece or several.      *)
Others(w) == {x \in Workers \ {w} : pc[x] = "write"}

Truncate(w) ==
  /\ pc[w] = "save" /\ Goto(w, "write")
  /\ file' = Blank
  /\ mixed' = (mixed \ {w}) \cup Others(w)
  /\ UNCHANGED <<table, born, work, entries, out, history>>

WritePart(w) ==
  /\ pc[w] = "write" /\ file.text # "torn"
  /\ file' = Torn
  /\ mixed' = mixed \cup Others(w)
  /\ UNCHANGED <<table, born, pc, work, entries, out, history>>

(* What another process wrote meanwhile may stick out behind, or before.   *)
Written(w) ==
  /\ pc[w] = "write"
  /\ file' = Json(out[w]) \/ (w \in mixed /\ file' = Torn)
  /\ mixed' = (mixed \cup Others(w)) \ {w}
  /\ out' = [out EXCEPT ![w] = {}]
  /\ UNCHANGED <<table, born, crashes>>

(* Mutant: a rebuild does not put anything back.                           *)
FillForgotten(w) == FALSE

(* _upsert_locked returns at once when there is nothing to put back.       *)
Fills(w) == work[w] = "clear" /\ entries[w] # {}

WriteCleared(w) ==
  /\ Fills(w) /\ Written(w)
  /\ work' = [work EXCEPT ![w] = "fill"] /\ Goto(w, "load")
  /\ UNCHANGED <<entries, met, disturbed, overtaken>>

(* A rebuild that has met nobody leaves the file as the table is.          *)
Mends(w) == work[w] \in {"clear", "fill"} /\ w \notin met /\ Open = {w}

WriteRest(w) ==
  /\ ~Fills(w) /\ Written(w)
  /\ Goto(w, "idle") /\ Does(w, "none", {})
  /\ met' = met \ {w}
  /\ disturbed' = (disturbed /\ ~Mends(w)) /\ overtaken' = (overtaken /\ ~Mends(w))

(* A process ends at work.  Its next run starts with idle workers.         *)
Crash(p) ==
  LET gone == {w \in Workers : Process[w] = p}
      Without(f, v) == [w \in Workers |-> IF w \in gone THEN v ELSE f[w]]
  IN /\ \E w \in gone : pc[w] # "idle"
     /\ crashes < MaxCrashes /\ crashes' = crashes + 1
     /\ pc' = Without(pc, "idle") /\ work' = Without(work, "none")
     /\ entries' = Without(entries, {}) /\ out' = Without(out, {})
     /\ mixed' = mixed \ gone
     /\ met' = (met \cup Open) \ gone /\ disturbed' = TRUE /\ overtaken' = FALSE
     /\ UNCHANGED <<table, born, file>>

Step(w) ==
  \/ \E i \in New : Insert(w, i)
  \/ \E e \in Entry : Archive(w, e)
  \/ Backfill(w) \/ RebuildIndex(w) \/ Clear(w) \/ Load(w) \/ LoadRaises(w)
  \/ Truncate(w) \/ WritePart(w) \/ WriteCleared(w) \/ WriteRest(w)

Next == (\E w \in Workers : Step(w)) \/ \E p \in {Process[w] : w \in Workers} : Crash(p)

Spec == Init /\ [][Next]_vars
-----------------------------------------------------------------------------
(* What a worker has committed and still has to bring to the index.        *)
Due ==
  Ids(UNION {entries[w] : w \in {x \in Workers : pc[x] = "wait" /\ work[x] = "upsert"}})
  \cup (IF \E w \in Workers : pc[w] = "read" THEN Legacy ELSE {})

(* When no operation on the file is under way, every live row that is not  *)
(* about to be indexed is in the file with its platform, so that a search  *)
(* finds it, unless one of three things has happened since the last rebuild*)
(* that met nobody: two processes were at the file at once, an operation   *)
(* was cut short, or one thread got in between a rebuild's reading of the  *)
(* table and its clearing of the file, in the same process, and what it    *)
(* wrote was wiped.  Upserts and removes of one process need no exception, *)
(* and a rebuild that meets nobody mends whatever went wrong before it.    *)
Complete ==
  ~disturbed /\ ~overtaken /\ Open = {} =>
    \A e \in table : e.id \in Due \/ e \in file.rows

(* As long as nothing is disturbed, the file is unreadable only while a    *)
(* worker writes it, and every worker whose turn it is to load it is of    *)
(* another process: no operation of the writer's own process ever finds    *)
(* half a file.  (A search takes no lock, so it is only the loads that are *)
(* safe from their own process.)                                           *)
Whole ==
  ~disturbed /\ file.text # "json" =>
    \E w \in Workers : /\ pc[w] = "write"
                       /\ \A x \in Workers : AtLoad(x) => Process[x] # Process[w]
-----------------------------------------------------------------------------
(* The operations as the store sees them: what a worker is about to write  *)
(* counts as written when it has been computed.                            *)
Writing == {w \in Workers : pc[w] \in {"save", "write"}}
Effective ==
  IF Writing = {} \/ disturbed THEN file.rows ELSE UNION {out[w] : w \in Writing}

Job(w) ==
  CASE pc[w] \in {"wait", "clear", "load"} -> [does |-> work[w], rows |-> entries[w]]
    [] w \in Writing /\ Fills(w) -> [does |-> "fill", rows |-> entries[w]]
    [] OTHER -> [does |-> "none", rows |-> {}]

Atomic == INSTANCE AtomicIndex WITH
  index <- Effective, jobs <- [w \in Workers |-> Job(w)], calm <- ~disturbed

(* The index implements AtomicIndex: while nothing is disturbed, reading   *)
(* the file whole and writing it whole makes each operation one step, also *)
(* under a rebuild that is overtaken, so that MemoryStore may take upsert  *)
(* and remove for one step each and a rebuild for two.  An upsert between a*)
(* rebuild's reading of the table and its clearing of the file is wiped    *)
(* here as it is there.                                                    *)
OperationsAtomic == Atomic!Spec
=============================================================================
