----------------------------- MODULE MemoryStore -----------------------------
(***************************************************************************)
(* The durable store of one principal: the SQLite table `memories`, which  *)
(* is canonical, and the semantic index, which is derived from it.         *)
(* Provider threads and command-line processes work on both at once.  A    *)
(* SQL transaction runs under the store's lock and is one step; the index  *)
(* call that follows it runs after the lock is released and is a step of   *)
(* its own, so another worker, a failure or the end of the process can     *)
(* come between the two.                                                   *)
(***************************************************************************)
EXTENDS Naturals, FiniteSets

CONSTANTS
  MaxRows,        \* bound: rows ever inserted
  MaxEntries,     \* bound: no failed drop keeps more entries of one id
  Gateway,        \* threads of the provider process; they share one index lock
  Consolidators,  \* the provider threads that run sync_turn's promotion
  Cli,            \* command-line runs, each a process with a lock of its own
  Facts,          \* contents of durable rows; equal content, equal fingerprint
  NoFact,         \* content of an episodic turn and of a row not yet written
  TTLs,           \* what expires_at may be: subset of {"never", "later"}
  Backend,        \* "lancedb": add appends; "stub": rows are keyed by memory_id
  Limit           \* recall_limit_per_layer

ASSUME StoreAssumption ==
  /\ MaxRows \in Nat
  /\ MaxEntries \in Nat
  /\ Consolidators \subseteq Gateway
  /\ Gateway \cap Cli = {}
  /\ NoFact \notin Facts
  /\ TTLs \subseteq {"never", "later"}
  /\ Backend \in {"lancedb", "stub"}
  /\ Limit \in Nat

Workers == Gateway \cup Cli
Id == 1 .. MaxRows        \* in insertion order
None == 0                 \* NULL in supersedes_id and superseded_by_id

VARIABLES
  rows,       \* the table: a row for every id, status "none" until inserted
  born,       \* number of rows inserted
  index,      \* how many entries the semantic index holds for each id
  pc,         \* where each worker is between two steps of its call
  ids,        \* the ids a worker still has to index, to remove or to look up
  seen,       \* the rows a worker has read: its copy, or what a search collected
  embedded,   \* the stored embedder state matches this program
  outdated,   \* the ids whose entries the previous embedder made
  undropped,  \* history: a rebuild kept the table it had to drop, for this embedder
  fresh,      \* history: nothing overtook the worker's rebuild since its read
  intact      \* history: no index update was lost since the last fresh rebuild

vars == <<rows, born, index, pc, ids, seen, embedded, outdated, undropped,
          fresh, intact>>

Statuses == {"none", "active", "superseded", "archived"}
Blank == [status |-> "none", layer |-> "semantic", fact |-> NoFact,
          supersedes |-> None, supersededBy |-> None, expiry |-> "never"]
Row == [status : Statuses, layer : {"episodic", "semantic"},
        fact : Facts \cup {NoFact}, supersedes : Id \cup {None},
        supersededBy : Id \cup {None}, expiry : {"never", "later", "past"}]
Places == {"idle", "fetched", "upsert", "remove", "purge",
           "clear", "fill", "persist", "hits"}

TypeOK ==
  /\ rows \in [Id -> Row]
  /\ born \in 0 .. MaxRows
  /\ index \in [Id -> Nat]
  /\ pc \in [Workers -> Places]
  /\ ids \in [Workers -> SUBSET Id]
  /\ seen \in [Workers -> SUBSET Id]
  /\ embedded \in BOOLEAN
  /\ outdated \in SUBSET Id
  /\ undropped \in BOOLEAN
  /\ fresh \in [Workers -> BOOLEAN]
  /\ intact \in BOOLEAN

Init ==
  /\ rows = [i \in Id |-> Blank]
  /\ born = 0
  /\ index = [i \in Id |-> 0]
  /\ pc = [w \in Workers |-> "idle"]
  /\ ids = [w \in Workers |-> {}]
  /\ seen = [w \in Workers |-> {}]
  /\ embedded = FALSE
  /\ outdated = {}
  /\ undropped = FALSE
  /\ fresh = [w \in Workers |-> FALSE]
  /\ intact = TRUE
-----------------------------------------------------------------------------
(* Mutant of Live: the query lost its status filter.                       *)
LiveAnyStatus(i) ==
  rows[i].status # "none" /\ rows[i].layer = "semantic" /\ rows[i].expiry # "past"

(* The filter every canonical query for durable rows applies: active and   *)
(* not past its expiry.                                                    *)
Live(i) ==
  rows[i].status = "active" /\ rows[i].layer = "semantic" /\ rows[i].expiry # "past"
Eligible == {i \in Id : Live(i)}

Indexed == {i \in Id : index[i] > 0}
AddTo(S) ==
  [i \in Id |-> IF i \in S THEN (IF Backend = "stub" THEN 1 ELSE index[i] + 1)
                           ELSE index[i]]

(* The index lock belongs to one process; a rebuild holds it from the      *)
(* clearing of the index until it has been filled again.                   *)
IndexFree(w) == \A x \in Gateway \ {w} : w \in Gateway => pc[x] # "fill"

Goto(w, place, S) == /\ pc' = [pc EXCEPT ![w] = place]
                     /\ ids' = [ids EXCEPT ![w] = S]
Keep(w, S) == seen' = [seen EXCEPT ![w] = S]

(* initialize has returned: a provider thread exists only from then on.    *)
Serving(w) == w \in Gateway => embedded
-----------------------------------------------------------------------------
(* Time passes an expires_at.                                              *)
Tick(i) ==
  /\ rows[i].expiry = "later"
  /\ rows' = [rows EXCEPT ![i].expiry = "past"]
  /\ UNCHANGED <<born, index, pc, ids, seen, embedded, outdated, undropped, fresh, intact>>

(* fetch_existing_durable: the caller keeps a copy of the live rows and    *)
(* releases the lock.  Maintenance copies those of one day, the oldest     *)
(* first, up to a limit.                                                   *)
Fetch(w) ==
  \E S \in SUBSET Eligible :
    /\ w \in Consolidators \cup Cli
    /\ w \in Consolidators => S = Eligible
    /\ Serving(w)
    /\ pc[w] = "idle"
    /\ Goto(w, "fetched", {})
    /\ Keep(w, S)
    /\ UNCHANGED <<rows, born, index, embedded, outdated, undropped, fresh, intact>>

Superseded(row, new) == [row EXCEPT !.status = "superseded", !.supersededBy = new]

(* Mutant of InsertRow: every layer is indexed.                            *)
InsertRowAlwaysIndexed(w, layer, fact, expiry, old) ==
  /\ born < MaxRows
  /\ born' = born + 1
  /\ rows' = [rows EXCEPT ![born + 1] =
       [status |-> "active", layer |-> layer, fact |-> fact,
        supersedes |-> None, supersededBy |-> None, expiry |-> expiry]]
  /\ Goto(w, "upsert", {born + 1})
  /\ Keep(w, {})
  /\ UNCHANGED <<index, embedded, outdated, undropped, fresh, intact>>

(* Mutant of InsertRow: the UPDATE names only active rows, and so misses   *)
(* one that was archived since the caller read it.                         *)
InsertRowOverActive(w, layer, fact, expiry, old) ==
  LET new == born + 1
      row == [status |-> "active", layer |-> layer, fact |-> fact,
              supersedes |-> old, supersededBy |-> None, expiry |-> expiry]
  IN /\ new <= MaxRows
     /\ born' = new
     /\ rows' = [i \in Id |->
          IF i = new THEN row
          ELSE IF i = old /\ rows[i].status = "active" THEN Superseded(rows[i], new)
          ELSE rows[i]]
     /\ IF layer = "semantic" THEN Goto(w, "upsert", {new}) ELSE Goto(w, "idle", {})
     /\ Keep(w, {})
     /\ UNCHANGED <<index, embedded, outdated, undropped, fresh, intact>>

(* Mutant of InsertRow: a replacement takes its predecessor's place in the *)
(* table and is not indexed itself.                                        *)
InsertRowUnindexed(w, layer, fact, expiry, old) ==
  LET new == born + 1
      row == [status |-> "active", layer |-> layer, fact |-> fact,
              supersedes |-> old, supersededBy |-> None, expiry |-> expiry]
  IN /\ new <= MaxRows
     /\ born' = new
     /\ rows' = [i \in Id |->
          IF i = new THEN row
          ELSE IF i = old THEN Superseded(rows[i], new)
          ELSE rows[i]]
     /\ IF layer = "semantic" /\ old = None THEN Goto(w, "upsert", {new})
                                            ELSE Goto(w, "idle", {})
     /\ Keep(w, {})
     /\ UNCHANGED <<index, embedded, outdated, undropped, fresh, intact>>

(* The new row of insert_memory and the UPDATE of the row it supersedes,   *)
(* one transaction; an episodic row needs no index entry.                  *)
InsertRow(w, layer, fact, expiry, old) ==
  LET new == born + 1
      row == [status |-> "active", layer |-> layer, fact |-> fact,
              supersedes |-> old, supersededBy |-> None, expiry |-> expiry]
  IN /\ new <= MaxRows
     /\ born' = new
     /\ rows' = [i \in Id |->
          IF i = new THEN row
          ELSE IF i = old THEN Superseded(rows[i], new)
          ELSE rows[i]]
     /\ IF layer = "semantic" THEN Goto(w, "upsert", {new}) ELSE Goto(w, "idle", {})
     /\ Keep(w, {})
     /\ UNCHANGED <<index, embedded, outdated, undropped, fresh, intact>>

(* Mutant of ReinforceExact: reinforcing makes the row active again.       *)
ReinforceRevives(w) ==
  /\ w \in Consolidators
  /\ pc[w] = "fetched"
  /\ \E i \in seen[w] : rows' = [rows EXCEPT ![i].status = "active"]
  /\ Goto(w, "idle", {})
  /\ Keep(w, {})
  /\ UNCHANGED <<born, index, embedded, outdated, undropped, fresh, intact>>

(* consolidate_turn found the candidate's fingerprint in its copy of the   *)
(* rows: it reinforces that row, whatever became of it since.              *)
ReinforceExact(w) ==
  /\ w \in Consolidators
  /\ pc[w] = "fetched"
  /\ seen[w] # {}
  /\ Goto(w, "idle", {})
  /\ Keep(w, {})
  /\ UNCHANGED <<rows, born, index, embedded, outdated, undropped, fresh, intact>>

(* consolidate_turn inserts a candidate that is not in its copy of the     *)
(* rows; the overlapping row of the copy, if there is one, is superseded.  *)
Promote(w, fact, old) ==
  /\ w \in Consolidators
  /\ pc[w] = "fetched"
  /\ \A i \in seen[w] : rows[i].fact # fact
  /\ old \in seen[w] \cup {None}
  /\ InsertRow(w, "semantic", fact, "never", old)

(* mirror_memory inserts without looking at what is there.                 *)
Mirror(w, fact) ==
  /\ w \in Gateway
  /\ Serving(w)
  /\ pc[w] = "idle"
  /\ InsertRow(w, "semantic", fact, "never", None)

(* sync_turn's episodic row.                                               *)
RecordTurn(w) ==
  /\ w \in Consolidators
  /\ Serving(w)
  /\ pc[w] = "idle"
  /\ InsertRow(w, "episodic", NoFact, "never", None)

(* A program of its own calls insert_memory with an expires_at.  No call   *)
(* of the provider or of the command line passes one.                      *)
InsertExpiring(w, fact, expiry) ==
  /\ w \in Cli
  /\ pc[w] = "idle"
  /\ InsertRow(w, "semantic", fact, expiry, None)

(* index.upsert, after the transaction of insert_memory.  Whatever rebuild  *)
(* read the table before may not contain the row.                          *)
Upsert(w) ==
  /\ pc[w] = "upsert"
  /\ IndexFree(w)
  /\ index' = AddTo(ids[w])
  /\ Goto(w, "idle", {})
  /\ fresh' = [x \in Workers |-> FALSE]
  /\ UNCHANGED <<rows, born, seen, embedded, outdated, undropped, intact>>

(* A row of maintenance's copy repeats the content of an earlier one.      *)
Repeats(w, i) == \E j \in seen[w] : j < i /\ rows[j].fact = rows[i].fact

(* One turn of maintenance's loop over the duplicates in its copy.  The    *)
(* UPDATE of archive tests the id only, whatever became of the row since.  *)
ArchiveDuplicate(w, i) ==
  /\ w \in Cli
  /\ pc[w] = "fetched"
  /\ i \in seen[w]
  /\ Repeats(w, i)
  /\ rows' = [rows EXCEPT ![i].status = "archived"]
  /\ Goto(w, "remove", {i})
  /\ Keep(w, seen[w] \ {i})
  /\ UNCHANGED <<born, index, embedded, outdated, undropped, fresh, intact>>

(* No duplicate is left: maintenance inserts the summary of its copy.      *)
Summarize(w, fact) ==
  /\ w \in Cli
  /\ pc[w] = "fetched"
  /\ seen[w] # {}
  /\ ~\E i \in seen[w] : Repeats(w, i)
  /\ InsertRow(w, "semantic", fact, "never", None)

(* A day without rows has no summary.                                      *)
NoSummary(w) ==
  /\ w \in Cli
  /\ pc[w] = "fetched"
  /\ seen[w] = {}
  /\ Goto(w, "idle", {})
  /\ UNCHANGED <<rows, born, index, seen, embedded, outdated, undropped, fresh, intact>>

(* purge_expired, the UPDATE: only when it changed a row does the command  *)
(* go on to clean the index.                                               *)
Purge(w) ==
  LET due == {i \in Id : rows[i].status = "active" /\ rows[i].expiry = "past"}
  IN /\ w \in Cli
     /\ pc[w] = "idle"
     /\ due # {}
     /\ rows' = [i \in Id |-> IF i \in due THEN [rows[i] EXCEPT !.status = "archived"]
                                           ELSE rows[i]]
     /\ Goto(w, "purge", {})
     /\ UNCHANGED <<born, index, seen, embedded, outdated, undropped, fresh, intact>>

(* purge_expired, the second query: every archived row past its expiry,    *)
(* those of earlier runs included.                                         *)
PurgeSelect(w) ==
  LET gone == {i \in Id : rows[i].status = "archived" /\ rows[i].expiry = "past"}
  IN /\ pc[w] = "purge"
     /\ IF gone = {} THEN Goto(w, "idle", {}) ELSE Goto(w, "remove", gone)
     /\ UNCHANGED <<rows, born, index, seen, embedded, outdated, undropped, fresh, intact>>

(* Mutant of Remove: one entry of the id is deleted, there or not.         *)
RemoveOneEntry(w, i) ==
  /\ pc[w] = "remove"
  /\ i \in ids[w]
  /\ IndexFree(w)
  /\ index' = [index EXCEPT ![i] = @ - 1]
  /\ Goto(w, IF ids[w] # {i} THEN "remove"
             ELSE IF seen[w] # {} THEN "fetched" ELSE "idle", ids[w] \ {i})
  /\ UNCHANGED <<rows, born, seen, embedded, outdated, undropped, fresh, intact>>

(* index.remove of one id: a turn of purge's loop, or the end of archive,  *)
(* after which maintenance goes on with its copy.                          *)
Remove(w, i) ==
  /\ pc[w] = "remove"
  /\ i \in ids[w]
  /\ IndexFree(w)
  /\ index' = [index EXCEPT ![i] = 0]
  /\ outdated' = outdated \ {i}
  /\ Goto(w, IF ids[w] # {i} THEN "remove"
             ELSE IF seen[w] # {} THEN "fetched" ELSE "idle", ids[w] \ {i})
  /\ UNCHANGED <<rows, born, seen, embedded, undropped, fresh, intact>>
-----------------------------------------------------------------------------
(* Mutant of RebuildRead: the embedder state is recorded first, so that no *)
(* other process starts the same rebuild.                                  *)
RebuildReadRecords(w) ==
  /\ pc[w] = "idle"
  /\ Goto(w, "clear", Eligible)
  /\ fresh' = [fresh EXCEPT ![w] = TRUE]
  /\ embedded' = TRUE
  /\ UNCHANGED <<rows, born, index, seen, outdated, undropped, intact>>

(* rebuild_index, eligible_index_rows.                                     *)
RebuildRead(w) ==
  /\ pc[w] = "idle"
  /\ Goto(w, "clear", Eligible)
  /\ fresh' = [fresh EXCEPT ![w] = TRUE]
  /\ UNCHANGED <<rows, born, index, seen, embedded, outdated, undropped, intact>>

Rebuild(w) == Serving(w) /\ RebuildRead(w)

(* ensure_index_current, in initialize: the thread that initializes is the *)
(* provider's only one, and rebuilds only for another embedder.            *)
EnsureIndexCurrent(w) ==
  /\ w \in Gateway
  /\ ~embedded
  /\ \A x \in Gateway : pc[x] = "idle"
  /\ RebuildRead(w)

(* SemanticIndex.rebuild takes the lock and drops every entry.  On lancedb *)
(* a drop that fails is ignored: the table that is still there is opened   *)
(* again, and the rebuild goes on with the entries it finds in it.         *)
RebuildClear(w) ==
  /\ pc[w] = "clear"
  /\ IndexFree(w)
  /\ Goto(w, "fill", ids[w])
  /\ \/ /\ index' = [i \in Id |-> 0]
        /\ outdated' = {}
        /\ undropped' = FALSE
        /\ intact' = (intact /\ fresh[w])
     \/ /\ Backend = "lancedb"
        /\ \A i \in Id : index[i] <= MaxEntries
        /\ undropped' = TRUE
        /\ UNCHANGED <<index, outdated, intact>>
  /\ UNCHANGED <<rows, born, seen, embedded, fresh>>

(* Mutant of RebuildFill: the rows replace what others added meanwhile.    *)
RebuildFillReplaces(w) ==
  /\ pc[w] = "fill"
  /\ index' = [i \in Id |-> IF i \in ids[w] THEN 1 ELSE 0]
  /\ Goto(w, "persist", {})
  /\ intact' = (intact \/ fresh[w])
  /\ fresh' = [fresh EXCEPT ![w] = FALSE]
  /\ UNCHANGED <<rows, born, seen, embedded, outdated, undropped>>

(* SemanticIndex.rebuild adds the rows it was given and frees the lock.    *)
RebuildFill(w) ==
  /\ pc[w] = "fill"
  /\ index' = AddTo(ids[w])
  /\ Goto(w, "persist", {})
  /\ intact' = (intact \/ fresh[w])
  /\ fresh' = [fresh EXCEPT ![w] = FALSE]
  /\ UNCHANGED <<rows, born, seen, embedded, outdated, undropped>>

(* _persist_embedder_state.                                                *)
RebuildPersist(w) ==
  /\ pc[w] = "persist"
  /\ embedded' = TRUE
  /\ Goto(w, "idle", {})
  /\ UNCHANGED <<rows, born, index, seen, outdated, undropped, fresh, intact>>

(* Every process ends and the next ones run with another embedder version  *)
(* or with other dimensions.                                               *)
Upgrade ==
  /\ embedded
  /\ \A w \in Workers : pc[w] = "idle"
  /\ embedded' = FALSE
  /\ outdated' = Indexed
  /\ undropped' = FALSE
  /\ UNCHANGED <<rows, born, index, pc, ids, seen, fresh, intact>>
-----------------------------------------------------------------------------
(* index.search: the best Limit entries, without the lock and in an order  *)
(* the model leaves open.  lancedb ranks a window of all principals'       *)
(* entries first, so this principal may get fewer than Limit.              *)
Search(w) ==
  \E H \in SUBSET Indexed :
    /\ w \in Gateway
    /\ Serving(w)
    /\ pc[w] = "idle"
    /\ Cardinality(H) <= Limit
    /\ Backend = "stub" => H = Indexed \/ Cardinality(H) = Limit
    /\ Goto(w, "hits", H)
    /\ UNCHANGED <<rows, born, index, seen, embedded, outdated, undropped, fresh, intact>>

(* One turn of search_semantic's loop: the row of a hit is read by id and  *)
(* expiry.                                                                 *)
ReadHit(w, i) ==
  /\ pc[w] = "hits"
  /\ i \in ids[w]
  /\ seen' = [seen EXCEPT ![w] = IF rows[i].expiry = "past" THEN @ ELSE @ \cup {i}]
  /\ ids' = [ids EXCEPT ![w] = @ \ {i}]
  /\ UNCHANGED <<rows, born, index, pc, embedded, outdated, undropped, fresh, intact>>

(* assemble_recall formats and reinforces what was found.                  *)
Recall(w) ==
  /\ pc[w] = "hits"
  /\ ids[w] = {}
  /\ seen' = [seen EXCEPT ![w] = {}]
  /\ Goto(w, "idle", {})
  /\ UNCHANGED <<rows, born, index, embedded, outdated, undropped, fresh, intact>>

(* A call raises or its process ends between two of its steps; the end of  *)
(* a process is this step of each of its threads.                          *)
Interrupt(w) ==
  /\ pc[w] # "idle"
  /\ Goto(w, "idle", {})
  /\ seen' = [seen EXCEPT ![w] = {}]
  /\ intact' = (intact /\ pc[w] \notin {"upsert", "fill"})
  /\ fresh' = [x \in Workers |-> fresh[x] /\ x # w /\ pc[w] # "upsert"]
  /\ UNCHANGED <<rows, born, index, embedded, outdated, undropped>>
-----------------------------------------------------------------------------
(* A worker starts a call.                                                 *)
Start(w) ==
  \/ Fetch(w)
  \/ \E f \in Facts : Mirror(w, f)
  \/ RecordTurn(w)
  \/ \E f \in Facts, e \in TTLs \ {"never"} : InsertExpiring(w, f, e)
  \/ Purge(w)
  \/ Rebuild(w)
  \/ EnsureIndexCurrent(w)
  \/ Search(w)

(* A worker goes on with the call it is in.                                *)
Continue(w) ==
  \/ ReinforceExact(w)
  \/ \E f \in Facts, old \in Id \cup {None} : Promote(w, f, old)
  \/ Upsert(w)
  \/ \E i \in Id : ArchiveDuplicate(w, i)
  \/ \E f \in Facts : Summarize(w, f)
  \/ NoSummary(w)
  \/ PurgeSelect(w)
  \/ \E i \in Id : Remove(w, i)
  \/ RebuildClear(w)
  \/ RebuildFill(w)
  \/ RebuildPersist(w)
  \/ \E i \in Id : ReadHit(w, i)
  \/ Recall(w)

Next ==
  \/ \E i \in Id : Tick(i)
  \/ \E w \in Workers : Start(w) \/ Continue(w) \/ Interrupt(w)
  \/ Upgrade

Spec == Init /\ [][Next]_vars

(* Threads that are inside a call are scheduled; nobody has to start one.  *)
FairSpec == Spec /\ \A w \in Workers : WF_vars(Continue(w))
-----------------------------------------------------------------------------
Indexing(i) == \E w \in Workers : pc[w] \in {"upsert", "fill"} /\ i \in ids[w]

(* The table and the index are two stores without a common transaction.    *)
(* As long as no upsert or rebuild was cut short and no rebuild wiped an   *)
(* update it had not read, every live durable row is in the index or held  *)
(* by a worker that is about to put it there; and a rebuild that nothing   *)
(* overtook makes this true again after whatever happened before.          *)
Searchable == intact => \A i \in Id : Live(i) => index[i] > 0 \/ Indexing(i)

(* The index never holds an id the table does not know or an episodic row, *)
(* whatever is interrupted: insert_memory commits first and indexes after. *)
NoPhantoms ==
  \A i \in Indexed : rows[i].status # "none" /\ rows[i].layer = "semantic"

(* Supersession keeps the history: the two rows of a replacement name each *)
(* other unless a later row replaced the same one again, the newer row     *)
(* replaces the older, and a row once replaced is never active again, not  *)
(* even when maintenance archived it in between.                           *)
HistoryKept ==
  \A i \in Id :
    /\ rows[i].supersededBy # None =>
         /\ rows[i].supersededBy > i
         /\ rows[rows[i].supersededBy].supersedes = i
         /\ rows[i].status # "active"
    /\ rows[i].supersedes # None =>
         LET old == rows[i].supersedes
         IN old < i /\ rows[old].supersededBy >= i

(* consolidate_turn decides on a copy of the rows it read before.  With a  *)
(* single thread that promotes turns, which is how the host calls          *)
(* sync_turn, no row is replaced twice, whatever other threads mirror and  *)
(* commands archive between the read and the insert.                       *)
SingleReplacement ==
  (\A v, w \in Consolidators : v = w) =>
    \A i, j \in Id : rows[i].supersedes = rows[j].supersedes /\ i # j
                       => rows[i].supersedes = None

(* The stored embedder state is a promise about every entry of the index:  *)
(* when it names the running embedder, no entry of another one is left,    *)
(* wherever a rebuild was interrupted and whichever process ran it.  One   *)
(* case breaks the promise: since the embedder changed, a rebuild could    *)
(* not drop the table, ignored that and recorded the state all the same;   *)
(* the next rebuild that does drop it makes the promise true again.        *)
EmbedderStateHonest == embedded => outdated = {} \/ undropped

(* The table implements the life cycle: no step deletes or revives a row,  *)
(* and a replacement and the end of what it replaces are one step.         *)
Lifecycle == INSTANCE MemoryLifecycle WITH status <- [i \in Id |-> rows[i].status]
LifecycleKept == Lifecycle!Spec

(* A row that was committed is eventually searchable or no longer live,    *)
(* provided index updates are not lost.                                    *)
EventuallyIndexed ==
  []intact => \A i \in Id : Live(i) ~> (index[i] > 0 \/ ~Live(i))

(* The invariants above are not inductive by themselves.  What carries     *)
(* them: exactly the ids up to born have been written; a worker holds only *)
(* ids that have been, rows about to enter the index are durable and rows  *)
(* about to leave it are not active; and a rebuild that nothing overtook   *)
(* holds every live row that no one else is about to index.                *)
Counted ==
  \A i \in Id : IF i <= born THEN rows[i].status # "none" ELSE rows[i] = Blank
Held ==
  \A w \in Workers : \A i \in ids[w] \cup seen[w] : rows[i].status # "none"
Routed ==
  \A w \in Workers :
    /\ pc[w] \in {"purge", "remove"} => w \in Cli
    /\ \A i \in ids[w] :
         /\ pc[w] \in {"upsert", "clear", "fill"} => rows[i].layer = "semantic"
         /\ pc[w] = "remove" => rows[i].status # "active"
FreshCovers ==
  \A x \in Workers : fresh[x] =>
    /\ pc[x] \in {"clear", "fill"}
    /\ \A i \in Id : Live(i) =>
         i \in ids[x] \/ \E w \in Workers : pc[w] = "upsert" /\ i \in ids[w]
OutdatedGone ==
  outdated # {} /\ ~undropped =>
    ~embedded /\ \A w \in Workers : pc[w] \notin {"fill", "persist"}
Accounted == Counted /\ Held /\ Routed /\ NoPhantoms

(* The documents promise that recall prefers the record that replaced      *)
(* another: a search that returns a superseded record also returns its     *)
(* replacement when that is live and indexed.                              *)
ReplacementPreferred ==
  \A w \in Workers : pc[w] = "hits" /\ ids[w] = {} =>
    \A i \in seen[w] : rows[i].status = "superseded" =>
      LET new == rows[i].supersededBy
      IN Live(new) /\ index[new] > 0 => new \in seen[w]
=============================================================================
