# Verification of the layered memory provider

This directory holds TLA+ models of the memory provider in
`plugins/memory/layered_lancedb_sqlite`, the TLC configurations that check them
on small instances, and theorems about them whose proofs TLAPS checks. Paths
below are relative to the plugin directory unless they say otherwise.

Run `tlc -config StoreIndex.cfg MCMemoryStore` to repeat a run and
`tlapm MemoryStore_proofs.tla` to repeat the proofs of a module.

## 1. The system

The provider is a plugin of the Hermes agent. One process hosts one provider
object; the host calls it from threads of its own, the provider mirrors notes on
two threads of its own, and command-line runs open the same files from other
processes.

| Component | State it keeps | Operations | What makes it correct |
|---|---|---|---|
| `storage.py` `SQLiteStore` | tables `memories` (canonical), `provenance`, `maintenance_state`; a connection and a lock per process | insert (with supersession), reinforce, archive, fetch, search, purge, backfill, rebuild, embedder state | nothing is deleted or revived; a replacement and the end of what it replaces are one step; what is committed becomes searchable |
| `storage.py` `SemanticIndex` | a lancedb table, or one JSON file (the stub); a lock per process | upsert, remove, search, rebuild | derived from the table: no live row missing, no unknown row, one embedder |
| `__init__.py` provider | `_runtime`, `_namespace`, `_store`, `_prefetch_cache`, `_background` | initialize, prefetch, queue_prefetch, sync_turn, on_session_switch, on_session_end, on_memory_write, shutdown | reads and writes go to the session they are for; a note and a summary are filed under theirs although they are mirrored later; a shutdown releases the store |
| `background.py` | two threads, `_pending`, `errors` | submit, drain, shutdown | whoever drains waits for what was submitted; the drain ends |
| `namespace.py` | none | request -> runtime -> namespace | one caller, one principal |
| `policy.py` | none | write decisions, recall scopes | nobody sees another's private memory; the workspace pool is written by authorized callers |
| `promotion_service.py`, `memory_write_service.py`, `recall_service.py` | none of their own | consolidate a turn, mirror a note, assemble a recall | the decision holds for the row that is written |
| `maintenance_service.py` | a state record per principal and day, in the store | compact-user, compact-daily | idempotent per day; stays with one principal |
| `identity_sidecar.py` | one file per session, written by another process | write, read with an age limit | never names somebody else |
| `config.py` | `config.yaml`, `.env` files | load, override, save | precedence of sources |
| `cli.py` | none | dispatch of the commands | |
| `governance.py` | none | classify, fingerprint, overlap, rank | one live row per statement; the newest contradicted row gives way |
| `prompt_format.py`, root shims | none | formatting; re-exports | |

Interactions. `sync_turn` inserts an episodic row and, when the turn is for the
bound session, promotes: it reads the live durable rows, decides and inserts in
separate transactions. `on_memory_write` and `on_session_end` hand `mirror_memory`
to the pool with the namespace of the moment. `on_session_switch` drains the pool,
rebinds `_runtime` and `_namespace` one after the other and evicts cached recalls.
Maintenance commands change the same rows from another process. `SQLiteStore`
commits under its lock and updates the index after releasing it. `initialize`
rebuilds the index when its embedder changed.

What is hard here: two stores without a common transaction; two processes with a
lock each; decisions on copies of rows; a switch that is two assignments while
another thread reads; drains that give up; identities that are carried over from
call to call; a maintenance run that is a dozen transactions and may end at any of
them; an index that is one file, truncated and rewritten by several processes.

## 2. The modules

| Module | What it is |
|---|---|
| `MemoryLifecycle` | abstract specification: what the table promises about one record |
| `MemoryStore` | the table and the index of one principal under threads, processes, interruptions and upgrades |
| `MCMemoryStore` | its instances for TLC |
| `MemoryStore_proofs` | its theorems |
| `Namespace` | pure: request -> runtime -> principal |
| `Policy` | pure (extends `Namespace`): write decisions, recall scopes, row filters |
| `Access` | composes both with a table of rows: who gets to see what |
| `MCAccess` | two people, their requests, three configurations |
| `Access_proofs` | its theorems |
| `Promotion` | what becomes of one person's statements: classification, overlap, supersession, ranking |
| `MCPromotion` | four sayings and their words |
| `Promotion_proofs` | its theorems |
| `Maintenance` | compact-user and compact-daily with the state record of one day, in several processes |
| `MCMaintenance` | its instances for TLC |
| `Maintenance_proofs` | its theorems |
| `AtomicIndex` | abstract specification: what the index promises about its operations |
| `StubIndex` | the JSON file of the index, one write at a time, among threads and processes |
| `MCStubIndex` | two threads and a command |
| `StubIndex_proofs` | its theorems |
| `SessionBinding` | abstract specification: what a provider promises about sessions |
| `ProviderSession` | the provider object between the host's worker, a prefetch thread and the pool |
| `MCProviderSession` | its instances for TLC |
| `ProviderSession_proofs` | its theorems |

### 2.1 The store: `MemoryStore`

State: `rows` is the table (status, layer, content, the two links, expiry),
`index` the number of entries per id (lancedb appends, so there may be two),
`embedded` and `outdated` the stored embedder state and the entries it is wrong
about. Each worker has a program counter `pc`, the `ids` it still has to index,
remove or look up, and `seen`, the copy of rows it read. `fresh`, `intact` and
`undropped` are history variables: whether anything overtook a rebuild since its
read, whether an index update has been lost, and whether a rebuild has gone on with
a table that it could not drop.

A step is what the code does under one acquisition of a lock. So `insert_memory`
is `InsertRow` (INSERT, the UPDATE of the superseded row, commit) and then
`Upsert`; `archive` is `ArchiveDuplicate` and then `Remove`; `purge_expired` is
`Purge`, `PurgeSelect` and one `Remove` per id; `rebuild_index` is `RebuildRead`,
`RebuildClear`, `RebuildFill` and `RebuildPersist`, the middle two under one hold
of the index lock of that process, and on lancedb `RebuildClear` has a second outcome,
because a failed `drop_table` is ignored (`storage.py:162-165`): the old entries stay,
and the rebuild adds to them and stores the new embedder state; `search_semantic` is `Search` and one `ReadHit`
per hit. `consolidate_turn` is `Fetch` and then `ReinforceExact` or `Promote`;
maintenance is `Fetch`, `ArchiveDuplicate` and `Remove` for each duplicate, then
`Summarize` or `NoSummary`. `Interrupt` ends a worker's call between any two steps: an exception,
or the end of its process. `Upgrade` restarts everything with another embedder.

Abstractions. Contents are model values: equal content is equal fingerprint, and
which row overlaps a candidate is an arbitrary choice among the rows read. Time is
`Tick`: an expiry passes. The order of hits is arbitrary. Counters
(`reinforcement_count`, `access_count`) are left out, so `reinforce` changes
nothing here. The low-confidence archive at the end of `consolidate_turn` is not an
action here because no turn reaches it (`Promotion` has it and shows that: `Sure`).

`StubIndex` looks below one index step, `Promotion` and `Maintenance` inside the
calls of which `MemoryStore` only sees the transactions. That `Upsert` and `Remove`
are one step each, and a rebuild a clearing and a filling with nothing between, is
what `StubIndex` is shown to implement (`OperationsAtomic`). `MemoryStore` takes it
for granted also when two processes are at the stub's file at once; there `StubIndex`
shows what is lost, and `Searchable` must be read together with `Complete`. For
lancedb a step is a call of the library.

`MemoryLifecycle` is what the table promises about one row: it is written, replaced
or archived, never deleted or revived, and the end of what a row replaces is the
step that writes the row. `MemoryStore` implements it with the table under every
writer, `Promotion` with the decisions of `consolidate_turn` on old copies.

### 2.2 Identity and access: `Namespace`, `Policy`, `Access`

`Request` lists what each source of identity finds: arguments, headers, the message
body, the sidecar. `RuntimeOf` is `runtime_from_kwargs`, `Rebind` what
`on_session_switch` makes of it, `ActiveRuntime` what `_active_namespace` does for
another session id, `NamespaceOf` is `resolve_namespace`. `Policy` has the three
decisions and the scopes of a recall, with the WHERE clauses as `InScope`.

The state of `Access` is the `config`, the `caller`, the `runtime`, the `rows` of the
table and the `cache` of `prefetch`: answers, each a row with the principal, the session
and the platform of the recall that showed it. The platform is history: the key of
`_prefetch_cache` has none. `Access` gives each row two history fields the code has not: `authors`, the people
whose words it holds, and `origins`, the platforms they were said on. A sidecar that
is missing, too old or half-written is one that holds nothing. Its actions
are `Initialize`, `OnSessionSwitch`, `SyncTurn`, `Mirror`, `Compact` and `Prefetch`,
which keeps any part of what a recall may show. `initialize` leaves the cache alone; a
switch evicts the entries of one session when it is a reset or a rewind, and none
otherwise.
`AccessAssumption` says what a deployment gives: a request names no identity but
its sender's, people share no identity and no session id. Whether a switch may hand
a provider to another person is the constant `SwitchPersons`.

Since a runtime never depends on the table, any number of providers over one table
are one provider that is initialized again and again. Limits, expiry, ranking,
supersession and the day filter only remove rows from a recall, so `Recalled` is an
upper bound of what `assemble_recall` shows, and `Answers`, which adds what the cache
holds under the principal and session of the call, one of what `prefetch` answers. That
is the safe side for every property about what is shown. `PrivateRecall` is about
`Answers`. `PlatformScoped` is about the platform that a recall was assembled on, because
a cached one is served on whatever platform the session has moved to since: there the
code does not do what the `README.md:85-86` of the repository says (section 5).
`ReadYourWrites` is about the recall that is assembled next. The fallback of
`_split_principal` for rows that carry no `principal_source` is left out: rows of
this version always carry one in the user layer.

### 2.3 The provider object: `ProviderSession`

State: `runtime` and `namespace` (the session id in each), the `cache`, `tasks` and
`pending` of the pool, the queue of the host's worker, the position of the worker,
of the host and of one prefetch in provider code, and the `turns` written. `rows` holds
for each task the row it mirrors: the session the note or the summary is of, and the one
it is filed under, which is the namespace at the call. History: whether a boundary before
that session was due at the call (`early` in a row), whether an entry is still cached
although its session's entries have been evicted (`stale` in an entry), `upset`, `raced`.

The host is external and modelled as the comments in `__init__.py:213-218` and
`:236-242`, `README.md:205-220` and
`openspec/changes/archive/2026-07-27-hermes-0-19-compat/design.md:6-14` describe it:
one FIFO worker runs turns and deferred boundaries, prefetches run beside it, and a
shutdown comes when the worker has nothing left. A host that abandons a worker
stuck in a call and shuts down around it is not modelled.

Each of `drain`'s waits is a step (`DrainNext`), it ends by clearing the list
(`DrainDone`) or by an exception (`DrainRaises`), after which the call that drained
is over. `Bind`, `Rename`, `Scan` and `Evict` are the four steps of
`on_session_switch` that another thread can come between. `Evict` keeps the cache
unchanged in one of its outcomes: adding to a dictionary while a comprehension
iterates over it raises. `TaskEnd` is `mirror_memory` with the namespace it was given;
what the policy decides about the row is in `Access`. A prefetch that finds its key in
the cache ends with that (`PrefetchHit`). `Faults` says whether tasks may fail and waits may time
out. `sync_turn` is one step: nothing else moves what it reads.

`SessionBinding` is what is left of this for somebody who looks at sessions only:
`current`, `bound`, the turns `filed` and whether the store is `open`. The mapping
takes `runtime` for `bound` and forgets queue, pool, cache and positions. It keeps
what must hold whatever fails: the provider may lag behind the host or skip a
session, and never returns to one.

### 2.4 The statements of a person: `Promotion`

State: the durable `rows` in the order of their creation, the threshold
`minScore`, and the position of the one thread that runs `consolidate_turn`: its
`turn`, its copy `existing` of the live rows, the row it has inserted. A text is a
saying and a form (letter case, spacing); the fingerprint and the set of words
depend on the saying only, whole texts are equal when both are. So
`find_superseded` can meet an overlapping row that differs in form only, as in the
code. `Candidate` is `classify_turn`, the comparison with `promotion_min_score` and
`fetch_existing_durable`; `Reinforce` and `Promote` are the two branches; `ArchiveLow`
is the second look at a row of little confidence. `Mirror` and `Archive` are what
other threads and commands do between these steps. `last` and `overtaken` are
history: the last turn consolidated, and whether a row of the copy was archived
meanwhile.

`Confidence` has the three outcomes of `classify_turn`, with the explicit pattern
tested before the transient one. The policy's verdict on a turn is its `pool`.

### 2.5 Daily maintenance: `Maintenance`

State: `content` and `rows` of layer `semantic_user`, the `clock`, the `record` of
`maintenance_state` for each principal of one day, and for each process the `run` it
is in. A process is at `next` between two principals, at `mark` before it writes
`started`, then at `fetch`, `compact` and `written`; each step is one transaction.
`Fail` is an exception between the two records, which `compact_user_day` writes down
as `failed`; `Raise` is one outside of that, or in writing it down; `Crash` is the
end of the process. The daily command goes on after a failure.

The clock has three values because `insert_memory` takes its time stamp before it
waits for the lock: in the `night` a row of the day may still be committed, and a
summary may be stamped either way; once it is `settled` none comes. `late` in a
record and `overlapped`, `upset` are history, to say which runs a property is about.
Replacement and expiry are one action, `Retire`.

### 2.6 The file of the stub index: `StubIndex`

State: the live rows of the `table` with their platforms, the `file`, and for each
worker its place, what it does to the index, what it adds or removes (`entries`) and
what it is about to write (`out`). The lock is per process (`LockFree`).
`Path.write_text` is `Truncate`, `WritePart` and the end of the writing; when two
processes wrote meanwhile the text may end up torn. `rebuild_index` reads the table,
waits for the lock, saves an empty list and fills it. `backfill-platform` is
`Backfill` and the rebuild that follows. A worker that loads a torn file raises.

Three history variables say when the promise is void. `met` are the workers whose work
on the file another's has met; `disturbed` is set when workers of two processes meet,
when a load raises and when a process ends. `overtaken` is set when, in one process, a
thread gets the lock while a rebuild has read the table and waits at `clear`: the lock
is no help there, because `rebuild_index` reads the table before it takes it. One
process and no crash are enough to lose a row so: a rebuild reads the table, another
thread inserts and upserts a row, and the rebuild clears the file and fills it from what
it has read. Both are reset by a rebuild that met nobody and leaves nobody at the file:
it has put back all that the table holds.

`AtomicIndex` has the contents of the index, what each worker has still to do to
them, and whether it is calm. The mapping to it takes `~disturbed` for calm; the
contents are the file's, or what the one worker between its load and the end of its
writing is about to write: an operation takes effect when it has computed its result.
A rebuild that is overtaken is calm: it wipes what was written there too. Once
disturbed, `AtomicIndex` promises no more than one entry for an id.

A search reads the file at any moment without the lock, changes nothing and is no
action. A blank file reads as an empty index, a torn one as an error, and both are
states of the file for a while in every write.

## 3. Runs

| Run | Instance | What it asks |
|---|---|---|
| `store_index` | 2 provider threads, 1 command, 2 rows, 2 contents, expiry, lancedb, limit 1 | `TypeOK`, `Searchable`, `NoPhantoms`, `EmbedderStateHonest` |
| `store_history` | 1 provider thread (promotes), 1 command, 3 rows, 3 contents, stub, fairness | `HistoryKept`, `SingleReplacement`, refinement `LifecycleKept`, liveness `EventuallyIndexed` |
| `store_recall` | 1 thread, 2 rows, stub, limit 1 | refutes `ReplacementPreferred` |
| `access_private` | 2 people, their requests, 3 sessions and maintenance, 3 configurations, 2 rows | `TypeOK`, `PrivateRecall`, `SharedVouched`, `NonPrimaryConfined`, `DecisionsAgree`, `PrincipalOwned`, `PlatformScoped`, `OneMemory`, action property `ReadYourWrites` |
| `access_switch` | switches between people, requests that pass identities | refutes `PrincipalIsCallers` |
| `provider_order` | 2 sessions, 1 turn, 2 notes, 1 rewind, a prefetch, faults, fairness | `TurnsFiled`, `TurnsPromoted`, `NothingAfterClose`, `NotesFiled`, `SwitchCompletes`, `EvictedStaysOut`, refinement `BindingKept`, liveness `ShutdownCloses`, `SwitchReturns` |
| `provider_torn` | 2 sessions, a prefetch | refutes `PrefetchFollows` |
| `provider_switch_fault` | 2 sessions, 1 note, faults | refutes `SwitchTakesEffect` |
| `promotion` | 4 sayings, 2 forms, 2 pools, thresholds 50 and 80, 3 rows | `NoRepeats`, `Remembered`, `NewestReplaced`, refinement `LifecycleKept` |
| `maintenance` | 2 processes, 1 principal, limit 2, with and without force, 4 rows | `ContentKept`, `DayCovered`, `OneSummary`, `ArchivedOnce`, `DailyHonest`, action property `CompletedStays` |
| `maintenance_retry` | 1 process, 2 principals, 4 rows | refutes `SafeRetry` |
| `stub_index` | 2 threads of one process and a command, 1 old row, 2 new ones, 1 crash | `TypeOK`, `Complete`, `Whole`, refinement `OperationsAtomic` |

Each of the six detailed modules has a type invariant. Those of `ProviderSession`, `Promotion` and
`Maintenance` say no more than their variables' types and are left to the proofs.

What the passing runs show, beyond their names:

- `Searchable` and `Complete` say when an index may be trusted: as long as nothing
  that matters was cut short or overtaken, and again after a rebuild that nothing
  met. They name the cases in which it may not be: an upsert wiped by a rebuild that
  read the table before, be it of a thread of the same process, and two processes at the
  JSON file at once.
- `EmbedderStateHonest` says what the stored embedder state is worth: the embedder it
  names made every entry, except after a drop that failed and was ignored.
- `NotesFiled` is about rows that are written after the switches that follow the call. A
  summary is submitted by the boundary that drains and rebinds right after, a note
  possibly while that boundary is on its way, and a drain that was given up or that
  forgot a task lets the task run when the provider is elsewhere. Each is still filed by
  its call: no row is ever filed under a later session than its own. Without faults a row
  may be filed under an earlier one in a single case, a note that comes while a boundary
  before its session is still due (`early`).
- `ContentKept` needs no such exception: however many commands archive from old
  copies, the oldest of equal rows is never archived, because every one of them
  keeps the first of its copy, and nothing revives a row.
- `DayCovered` is what a `completed` record is worth: it holds for runs after the
  day that were not cut, and fails for a run on the day itself.
- `Remembered` and `NewestReplaced` are about a copy of the table read earlier. They
  hold because one thread promotes, and except an archival in between.
- `OneMemory` and `ReadYourWrites` ask whether the parts fit: namespace resolution
  finds the same principal for every session of a known caller, and the recall scopes
  reach every layer the write decisions send a row to, with the two read side by
  side for every configuration of the run.
- `BindingKept` holds with faults, where `TurnsPromoted` and `SwitchCompletes` do
  not: what is given up is lost, and nothing is done late in the wrong session.

Bounds. Two rows and two contents give an insert racing a rebuild, an archive or a
purge of another row or the same one; a supersession that crosses an archive needs
no more than three rows (the replaced one, its replacement, and a second candidate
or a duplicate), which `store_history` has. Two provider threads and one process
give both kinds of exclusion, within an index lock and across two. `Limit` 1 is
enough for one hit to displace another. `MaxEntries` 1 has no drop fail once an id has
two entries: failed drops would let an index grow without bound. For access two people are a person and
another one; two rows are a source and the summary of it, or one row and its cached
answer (`MaxRows` bounds both together). Two sessions are one
boundary with jobs before and after it; two notes and its summary fill both threads
of the pool and leave one task waiting; a rewind is a second reason to drain and to
evict. In `promotion` three rows are a statement, another that replaces it, and the
first again; the sayings give no overlap, overlap with one and overlap with two, and
one is explicit and transient at once (nothing comes of one that is transient only). In
`maintenance` three rows of the day are one over the limit, the fourth is the
summary; two processes overlap at every step, and one after the other they retry. It has
one principal: that the daily command goes on to the next one after a failure, and still
reports it, rests on the theorem `DailyReportsHonestly`, which is for any number of them.
`Maintenance` and `Promotion` take the order in which rows are committed for the order
of their time stamps.
In `stub_index` two threads share a lock and a third worker does not; an old row is
what backfill works on. Symmetry is used for contents, processes, threads, forms and
pools, in runs that check no liveness only.

Deadlock is not checked where the system may stop: a provider after its shutdown
(`SwitchReturns` and `ShutdownCloses` say instead that nobody waits for ever), and a
table that has no room for another row (`promotion`).

Fairness. `MemoryStore`: weak fairness of `Continue(w)`, a thread inside a call goes
on; nobody has to start one. `ProviderSession`: weak fairness of the worker, the
pool, a prefetch and a shutdown under way. These are operating-system threads and
the calls they are in wait for nothing but locks that are released and tasks that
end; no fairness is assumed of the host starting anything, of `Interrupt`, of `Tick`
or of a timeout (`TimeOut` may happen and never has to). `EventuallyIndexed` assumes
in its statement that no index update is lost, because nothing but a rebuild repairs
one; `ShutdownCloses` and `SwitchReturns` that no task fails and no wait is given up.

## 4. What is proved

All theorems are for every value of the constants that satisfies the named
assumptions (`StoreAssumption`, `NamespaceAssumption`, `AccessAssumption`,
`ProviderAssumption`, `PromotionAssumption`, `MaintenanceAssumption`,
`StubAssumption`).

**Store.** `StoreTyped` is the type invariant. The other invariants are not
inductive: a worker that holds an id it will index later could hold anything.
`StoreAccounted` carries them: exactly the ids up to `born` are written
(`Counted`), workers hold written ids only (`Held`), what is about to be indexed is
durable and what is about to be removed is not active (`Routed`). On top of it
`StoreSearchable` adds `FreshCovers` (a rebuild that nothing overtook holds every
live row nobody else is about to index), `StoreEmbedderHonest` adds `OutdatedGone` (as
long as entries of another embedder are left, and no failed drop has left them, no
worker is past the clearing of a rebuild),
`StoreSingleReplacement` adds that the promoting thread's copy holds only rows
nobody has replaced. `StoreNoPhantoms` and `StoreHistoryKept` follow from
`StoreAccounted` and their own step lemmas. `StoreImplementsLifecycle` is the
refinement of `MemoryLifecycle`: every step is `Write`, `Replace`, `Archive` or a
stutter. Only `StoreAccounted` is needed: an archive or a replacement must meet a
row that exists.

**Access.** `SameDecision` compares promotion and mirroring for every configuration
and namespace. `TypeCorrect` is the type invariant. The others hold when a switch
stays with its caller (`~SwitchPersons`); the inductive invariant is that the
runtime names its caller only (`Mine`) and that every row is good in itself
(`GoodRows`: it is filed under its author's identity, or under the shared principal
in a session of its author; a row in the pool was vouched for; a non-primary row was
allowed). `PrivateRecalls`, `SharedIsVouched`, `Confined` and `UserRowsOwned` follow
from it, `PrivateRecalls` with one more part: a cached answer outside the workspace pool
holds words of the one whose session is in its key and of nobody else (`GoodCache`);
`DecisionsAlwaysAgree` follows from `SameDecision` and `TypeCorrect`.
`RecallStaysOnPlatform` rests on `Homed`: a row outside the pool that is no summary
holds words of the platform in its columns and of no other, and so does a cached answer
of the platform its recall was assembled on, where recalls are scoped (`HomedCache`).
`SessionsShareMemory` needs the types only. Its lemma `CarriedKeeps` follows a runtime
through `_active_namespace` and `runtime_from_kwargs`: with an e-mail address or an id
at hand nothing is looked for in a sidecar, and every field arrives, a second id
included. It needs that the absence of an argument is no value of one
(`NamespaceAssumption`). `WritesAreRead` holds for switches of any kind. It needs that
somebody is being served (`Served`: the session is the caller's and there is a request,
so that there is a sidecar to recall with), and goes through the layers a decision can
choose: each is in a scope that the same configuration and identity open.

**Provider.** `ProviderTyped` needs one more fact, `AtWork`: the worker has a job
exactly while it is in provider code. `TurnsAreFiled`: `_runtime` and `_namespace`
name the same session except while the worker is between the two assignments, when
it files no turn (`Bound`). `ClosesLast`: after the host began to shut down the
worker submits nothing and the host takes no notes, so what the pool's own wait has
seen end is all there is (`Stopping`). These hold for queues of any length.
`SwitchesComplete` and `TurnsArePromoted` rest on the order of the worker's queue
(`Ordered`): only a boundary is for another session than the job before it, and for the
next one; the first job follows on the session that the worker leaves behind; where no
boundary follows, it is the session the host is in; and a worker at a job that is no
boundary has the provider in the session of that job. It is kept by an append, a removal at the head and by
every step that leaves the queue alone, one lemma each. `StaleStaysOut` is inductive as it
stands: an eviction that met no prefetch works on the cache as it is. `ProviderImplementsBinding` holds with faults, where
`Ordered` does not. `Sequential` takes its place: from the provider over the worker's
job and its queue to the host, no session is earlier than one before it in the line.
A drain that is given up skips a boundary, and keeps that. `NotesAreFiled` needs both:
`Sequential`, with the namespace never ahead of the provider (`Trailing`), bounds the
session a row is filed under whatever has failed, and `Ordered` makes it the row's own,
for a note when no boundary is due (`NoteFiled`) and for a summary at the head of the
queue (`SummaryFiled`). What mirrors a row later changes nothing about it.

**Promotion.** `PromotedOnce`, `LastIsRemembered` and `ReplacesNewest` share one
inductive invariant: a row is compared with, and replaces, older rows only (`Past`);
the copy in use lacks no live row of its pool except notes newer than all of it, and
holds only live rows unless one was overtaken (`Copy`); and a row just inserted is as
sure as the threshold asks (`Sure`), so that the second look archives nothing. No
lemma depends on how the sayings overlap. `PromotionImplementsLifecycle` needs less:
an insertion is a `Write` or a `Replace` of a row that exists, whatever the copy says
about it (`InsertionIsAStep`), and no archiving touches a row not yet written.

**Maintenance.** `ArchivingKeepsContent` takes, for an archived row, the oldest row
of equal content, which no command can archive. `NoRowArchivedTwice` says that the
copy of the only command under way holds no archived row. `CompletedDaysAreCovered`
follows a run from its fetch to its record (`Covering`): when the clock is settled
the rows of the day only become fewer, so what the copy held, less the duplicates,
covers what is left. `OneSummaryADay`, `DailyReportsHonestly` and `CompletedIsFinal`
rest on `Working`, what a command that is alone can rely on: it left no completed
day behind unless forced, and the record says "started" while it is on a day. For
`OneSummaryADay`, a summary is there only when the record is completed or the one
command is about to write that (`Undisturbed`).

**Stub index.** `IndexTyped` says with the types that the file holds one entry for
an id. `IndexComplete` has three invariants. What a worker holds is keyed and agrees
with the table (`Consistent`). One worker of a process is at the file, and two that
could disturb each other have met, which `disturbed` or `overtaken` records (`Apart`,
`Upset`). A worker that has met nobody carries
every row that nobody else is due to index, unless a rebuild that has just read the
table waits behind it (`Covering`). `FileWhole` adds that an undisturbed file nobody
writes is whole (`Readable`). `StubImplementsAtomic` rests on `Consistent` and
`Apart`. It needs `~disturbed` only, so it holds for a rebuild that is overtaken as well:
while nothing is disturbed a worker under the lock is alone at the file
(`Alone`), so what it is about to write is the whole index and what it read is still
there when it saves. A step that ends with `disturbed` is none of `AtomicIndex`'s
operations, and then only the types have to be kept (`MappingTyped`).

Only model-checked: `EventuallyIndexed`, `SwitchReturns` and `ShutdownCloses`
(liveness under fairness is out of the prover's reach). Every safety property that a
passing run checks is a theorem.

## 5. Findings

1. `store_recall`: a superseded row stays in the index and is read back without its
   status (`storage.py:573`), so a search returns it in place of its replacement.
2. `access_switch`: a switch that passes only a user id keeps the previous user's
   e-mail address, which outranks it (`__init__.py:255`).
3. `provider_torn`: a prefetch for the new session between the assignments of
   `_runtime` and `_namespace` (`__init__.py:267`) reads the old session.
4. `provider_switch_fault`: once a background task has failed, every drain raises
   (`background.py:23`), so no switch takes effect any more and a shutdown does not
   release the store.
5. `maintenance_retry`: a command that ends between the insert of a summary
   (`maintenance_service.py:280`) and the `completed` record (`:147`) leaves the
   summary behind, and the retry writes a second one.

Met on the way, without a run:

- A daily summary is stored under the platform `gateway` whatever platforms its
  contents are from (`maintenance_service.py:61`), although the `README.md:85-86` of
  the repository says that scoped recall stays on its platform. `PlatformScoped`
  excepts summaries for that reason.
- A prefetch in flight during `/undo` puts the old recall back into the cache
  (`__init__.py:164`) that `tests/test_provider.py:449-450` wants evicted.
  `EvictedStaysOut` excepts an eviction that meets a prefetch.
- A failed `drop_table` is ignored (`storage.py:162-165`): the old table is opened again,
  and the new embedder state is stored over entries that the old embedder made, although
  `README.md:283-284` of the repository and `README.md:77` of the plugin say that a new
  `EMBEDDER_VERSION` has the index rebuilt. Nothing rebuilds it afterwards, because the
  state says that it is current. `EmbedderStateHonest` excepts it (`undropped`).
- The key of `_prefetch_cache` has no platform (`__init__.py:152-157`), and neither
  `initialize` nor a switch that is neither a reset nor a rewind empties it: a session
  that moves to another platform is served what was recalled on the one before, also
  with `recall_platform_scoped`, although `README.md:85-86` of the repository says that
  this "restricts recall of a user's own memory to the current platform".
  `PlatformScoped` says so of the recalls that are assembled only.
- A rebuild reads the table before it takes the index lock (`storage.py:804`): what
  another thread of the process indexes in between is wiped, without a crash and without
  a second process. `Searchable` and `Complete` except it.
- After a switch that was given up, the summary of the next session is filed under the
  session before it (`__init__.py:296`), as every note is. `NotesFiled` excepts it.
- `default_ttl_hours` is read nowhere although `README.md:96-98` says writes are
  stamped with it.
- Word overlap is measured against the smaller set (`governance.py:79-81`) where
  `docs/modules/governance.md:49` and `docs/glossary.md` speak of Jaccard
  similarity, and only the newest overlapping row is superseded.
- A text that asks to be remembered is kept also when it is about today: the
  explicit pattern is tested first.
- Promoted rows carry no `user_*` columns (`promotion_service.py:42`) although
  `README.md:69-75` says every row does.
- The command line reads no `.env` overrides (`cli.py:84`), so it may open another
  store than the provider.
- `drain` spends its timeout on each future in turn (`background.py:22`), so two
  drains of three seconds may take longer than the host's five that
  `README.md:216-220` reckons with.

## 6. Not modelled

- `prompt_format.py` and the root shims: text in, text out; re-exports.
- `config.py` and the storage path: pure functions of files and the environment. The
  switches that policy, promotion and maintenance read are constants or variables of
  those modules.
- `validate`, the column migration, and provenance rows: bookkeeping that nothing
  here reads back, except that `backfill-platform` knows some platforms from it.
- The clock of `drain`: a timeout is a choice, so the sum of several waits is not
  expressed.
- The sidecar's writer and its clock: what a reader finds is an input of `Access`.
- Transactions left open by an exception inside `insert_memory`, which SQLite raises
  on a busy or full database only.
- Which texts the patterns of `classify_turn` match, and the words of a text: sets
  and functions given as constants.
- Vectors, scores and ranking of hits; `reinforcement_count` and `access_count`.
- A host that abandons a worker stuck in a call and shuts down around it.

## 7. Plan

Done: the store with its life cycle; namespace, policy and access; the provider
object with faults; promotion and governance; daily maintenance; the stub's file.
Three abstract specifications (`MemoryLifecycle`, `SessionBinding`, `AtomicIndex`)
are implemented, by proof, by the modules that detail them.

Left, in this order:

1. An open transaction after a failed statement in `insert_memory`
   (`storage.py:332`), as a step of its own in `MemoryStore`, with what then remains
   of `HistoryKept`.
2. `DrainBudget`: `drain` with a clock, one future after the other.
3. `Sidecar`: writer, age limit and torn reads, feeding `Access`.
4. `ConfigSources`: precedence of file, environment and arguments as operators
   checked against a reference definition, with the provider's and the command
   line's storage path compared.
