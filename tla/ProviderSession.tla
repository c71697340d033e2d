--------------------------- MODULE ProviderSession ---------------------------
(***************************************************************************)
(* One provider among the threads that call it.  The host takes notes and  *)
(* moves from session to session; its single worker runs, in order, the    *)
(* turns to sync and the deferred session boundaries; a prefetch runs      *)
(* beside both, on a thread that the host gives up on after a while; and   *)
(* the provider's own pool of two threads mirrors notes and session ends.  *)
(*                                                                         *)
(* The host is external: its worker and the deferred boundary are modelled *)
(* as the provider's comments and README describe them.  Every request     *)
(* names the session it is for.  Session n + 1 follows session n.          *)
(***************************************************************************)
EXTENDS Naturals, Sequences, FiniteSets, SequencesExt

CONSTANTS
  MaxSessions,  \* bound on the sessions of the process
  MaxTurns,     \* bound on the turns to sync
  MaxNotes,     \* bound on the notes taken (on_memory_write)
  MaxRewinds,   \* bound on /undo
  Faults        \* may a pooled task fail, or a wait for one time out?

ASSUME ProviderAssumption ==
  /\ MaxSessions \in Nat \ {0} /\ MaxTurns \in Nat /\ MaxNotes \in Nat
  /\ MaxRewinds \in Nat /\ Faults \in BOOLEAN

Sessions == 1..MaxSessions
PoolSize == 2                       \* max_workers
Job == [kind : {"turn", "boundary", "rewind"}, session : Sessions]
NoJob == [kind |-> "none", session |-> 0]

VARIABLES
  current,    \* the session the host is in
  issued,     \* how many turns, notes and rewinds the host has issued
  queue,      \* the jobs of the host's worker
  job,        \* the job it is at
  pc,         \* where the worker and the host are in provider code
  waiting,    \* the futures each of them still waits for in a drain
  runtime,    \* _runtime.session_id
  namespace,  \* _namespace.session_id
  tasks,      \* what the pool was given: how far each task is
  rows,       \* the row that each task mirrors
  pending,    \* BackgroundTasks._pending, as numbers of tasks
  turns,      \* the episodic rows: whose turn, filed where, promoted or not
  cache,      \* _prefetch_cache: the session of a key; history: evicted, and still there
  scanned,    \* the cache as the eviction at work read it
  prefetch,   \* the prefetch in flight
  store,      \* "open" or "closed"
  upset,      \* history: a task has failed, or a wait has been given up
  raced       \* history: a prefetch was under way at an eviction

vars == <<current, issued, queue, job, pc, waiting, runtime, namespace, tasks, rows,
          pending, turns, cache, scanned, prefetch, store, upset, raced>>
switchVars == <<runtime, namespace, cache, scanned, raced>>
poolVars == <<tasks, rows, pending, waiting>>

Drainers == {"worker", "host"}
TaskStates == {"queued", "running", "done", "failed"}
(* A note or a summary: the session it is of, the one it is filed under,   *)
(* and whether a boundary before that session was due when it was accepted *)
(* (history).                                                              *)
Row == [session : Sessions, filed : Sessions, early : BOOLEAN]
Entry == [session : Sessions, stale : BOOLEAN]
Idle == [pc |-> "idle", asked |-> 1, runtime |-> 1, resolved |-> 1]

TypeOK ==
  /\ current \in Sessions
  /\ issued \in [turn : 0..MaxTurns, note : 0..MaxNotes, rewind : 0..MaxRewinds]
  /\ queue \in Seq(Job) /\ job \in Job \cup {NoJob}
  /\ pc \in [worker : {"idle", "drain", "bind", "rename", "scan", "evict"},
             host : {"serving", "drain", "wait", "down"}]
  /\ waiting \in [Drainers -> Seq(1..Len(tasks))]
  /\ runtime \in Sessions /\ namespace \in Sessions
  /\ tasks \in Seq(TaskStates)
  /\ rows \in Seq(Row) /\ Len(rows) = Len(tasks)
  /\ pending \in Seq(1..Len(tasks))
  /\ turns \subseteq [session : Sessions, filed : Sessions, promoted : BOOLEAN]
  /\ cache \subseteq Entry /\ scanned \subseteq Entry
  /\ \A d, e \in cache : d.session = e.session => d = e
  /\ prefetch \in [pc : {"idle", "runtime", "namespace", "put", "hit"}, asked : Sessions,
                   runtime : Sessions, resolved : Sessions]
  /\ store \in {"open", "closed"}
  /\ upset \in BOOLEAN /\ raced \in BOOLEAN

Init ==
  /\ current = 1 /\ issued = [turn |-> 0, note |-> 0, rewind |-> 0]
  /\ queue = <<>> /\ job = NoJob
  /\ pc = [worker |-> "idle", host |-> "serving"]
  /\ waiting = [d \in Drainers |-> <<>>]
  /\ runtime = 1 /\ namespace = 1
  /\ tasks = <<>> /\ rows = <<>> /\ pending = <<>>
  /\ turns = {}
  /\ cache = {} /\ scanned = {}
  /\ prefetch = Idle
  /\ store = "open"
  /\ upset = FALSE /\ raced = FALSE
-----------------------------------------------------------------------------
(* The host.                                                               *)
Serving == pc["host"] = "serving"
Issue(what, bound) == issued[what] < bound /\ issued' = [issued EXCEPT ![what] = @ + 1]

HostTurn ==
  /\ Serving /\ Issue("turn", MaxTurns)
  /\ queue' = Append(queue, [kind |-> "turn", session |-> current])
  /\ UNCHANGED <<current, job, pc, turns, store, upset, switchVars, poolVars,
                 prefetch>>

(* /new: on_session_end and on_session_switch(reset=True), deferred.       *)
HostNewSession ==
  /\ Serving /\ current < MaxSessions
  /\ current' = current + 1
  /\ queue' = Append(queue, [kind |-> "boundary", session |-> current + 1])
  /\ UNCHANGED <<issued, job, pc, turns, store, upset, switchVars, poolVars,
                 prefetch>>

(* /undo: on_session_switch(rewound=True) for the session it is in.        *)
HostRewind ==
  /\ Serving /\ Issue("rewind", MaxRewinds)
  /\ queue' = Append(queue, [kind |-> "rewind", session |-> current])
  /\ UNCHANGED <<current, job, pc, turns, store, upset, switchVars, poolVars,
                 prefetch>>
-----------------------------------------------------------------------------
(* BackgroundTasks.submit, with the namespace of the moment among the      *)
(* arguments of mirror_memory.                                             *)
Submit(session, early) ==
  /\ tasks' = Append(tasks, "queued")
  /\ rows' = Append(rows, [session |-> session, filed |-> namespace, early |-> early])
  /\ pending' = Append(pending, Len(tasks) + 1)

Running == {t \in DOMAIN tasks : tasks[t] = "running"}

(* Mutant: a task needs what a thread that drains is holding.              *)
TaskStartUndrained ==
  /\ \A d \in Drainers : pc[d] # "drain"
  /\ Cardinality(Running) < PoolSize
  /\ \E t \in DOMAIN tasks :
       /\ tasks[t] = "queued" /\ \A u \in 1..(t - 1) : tasks[u] # "queued"
       /\ tasks' = [tasks EXCEPT ![t] = "running"]
  /\ UNCHANGED <<current, issued, queue, job, pc, waiting, pending, turns, store,
                 upset, rows, switchVars, prefetch>>

TaskStart ==
  /\ Cardinality(Running) < PoolSize
  /\ \E t \in DOMAIN tasks :
       /\ tasks[t] = "queued" /\ \A u \in 1..(t - 1) : tasks[u] # "queued"
       /\ tasks' = [tasks EXCEPT ![t] = "running"]
  /\ UNCHANGED <<current, issued, queue, job, pc, waiting, pending, turns, store,
                 upset, rows, switchVars, prefetch>>

(* Mutant: mirror_memory is given the provider, and finds the namespace    *)
(* that is in force when it runs.                                          *)
TaskEndResolves ==
  /\ \E t \in Running, how \in {"done"} \cup (IF Faults THEN {"failed"} ELSE {}) :
       /\ tasks' = [tasks EXCEPT ![t] = IF store = "closed" THEN "failed" ELSE how]
       /\ upset' = (upset \/ how = "failed")
       /\ rows' = [rows EXCEPT ![t].filed = namespace]
  /\ UNCHANGED <<current, issued, queue, job, pc, waiting, pending, turns, store,
                 switchVars, prefetch>>

(* mirror_memory ends, with its row kept or with an error recorded.        *)
TaskEnd ==
  /\ \E t \in Running, how \in {"done"} \cup (IF Faults THEN {"failed"} ELSE {}) :
       /\ tasks' = [tasks EXCEPT ![t] = IF store = "closed" THEN "failed" ELSE how]
       /\ upset' = (upset \/ how = "failed")
  /\ UNCHANGED <<current, issued, queue, job, pc, waiting, rows, pending, turns,
                 store, switchVars, prefetch>>

(* A boundary is due until _namespace is that of its session.              *)
BoundaryDue ==
  \/ \E k \in DOMAIN queue : queue[k].kind = "boundary"
  \/ job.kind = "boundary" /\ pc["worker"] \in {"drain", "bind", "rename"}

(* on_memory_write names no session: the row goes where the provider is.   *)
HostNote ==
  /\ Serving /\ Issue("note", MaxNotes) /\ Submit(current, BoundaryDue)
  /\ UNCHANGED <<current, queue, job, pc, waiting, turns, store, upset,
                 switchVars, prefetch>>

(* BackgroundTasks.drain waits for a copy of the list, one future after    *)
(* the other, and empties the list in the end.  The first future that      *)
(* failed, or is not done in time, ends it with an exception.              *)
Awaited(d) == tasks[Head(waiting[d])]
DrainNext(d) ==
  /\ pc[d] = "drain" /\ waiting[d] # <<>> /\ Awaited(d) = "done"
  /\ waiting' = [waiting EXCEPT ![d] = Tail(@)]
  /\ UNCHANGED <<current, issued, queue, job, pc, tasks, pending, turns, store,
                 upset, rows, switchVars, prefetch>>

(* Mutant: the switch that was given up is tried again, after the rest.    *)
GivesUpRetries(d) ==
  /\ pc[d] = "drain" /\ waiting[d] # <<>>
  /\ upset' = TRUE
  /\ waiting' = [waiting EXCEPT ![d] = <<>>]
  /\ IF d = "worker"
     THEN pc' = [pc EXCEPT ![d] = "idle"] /\ job' = NoJob /\ queue' = Append(queue, job)
     ELSE pc' = [pc EXCEPT ![d] = "down"] /\ UNCHANGED <<job, queue>>
  /\ UNCHANGED <<current, issued, tasks, pending, turns, store,
                 rows, switchVars, prefetch>>

(* The exception leaves on_session_switch, or shutdown, where it was.      *)
GivesUp(d) ==
  /\ pc[d] = "drain" /\ waiting[d] # <<>>
  /\ upset' = TRUE
  /\ waiting' = [waiting EXCEPT ![d] = <<>>]
  /\ IF d = "worker" THEN pc' = [pc EXCEPT ![d] = "idle"] /\ job' = NoJob
                     ELSE pc' = [pc EXCEPT ![d] = "down"] /\ UNCHANGED job
  /\ UNCHANGED <<current, issued, queue, tasks, pending, turns, store,
                 rows, switchVars, prefetch>>
DrainRaises(d) == GivesUp(d) /\ Awaited(d) = "failed"
DrainTimesOut(d) == GivesUp(d) /\ Faults /\ Awaited(d) \in {"queued", "running"}

DrainDone(d) ==
  /\ pc[d] = "drain" /\ waiting[d] = <<>>
  /\ pending' = <<>>
  /\ pc' = [pc EXCEPT ![d] = IF d = "worker" THEN "bind" ELSE "wait"]
  /\ UNCHANGED <<current, issued, queue, job, waiting, tasks, turns, store,
                 upset, rows, switchVars, prefetch>>
-----------------------------------------------------------------------------
(* Mutant: the namespace in force is taken, whatever session is asked for. *)
ResolvedBound(session, bound, named) == named

(* Where a call for a session reads and writes: _active_namespace.         *)
Resolved(session, bound, named) == IF session = bound THEN named ELSE session

(* The worker at its next job.  A turn goes through in one step: nothing   *)
(* else moves what it reads.                                               *)
Takes(kind) ==
  /\ pc["worker"] = "idle" /\ queue # <<>> /\ Head(queue).kind = kind
  /\ queue' = Tail(queue)

(* Mutant: the turns of another session are promoted, not those of this.   *)
SyncTurnInverted ==
  /\ Takes("turn")
  /\ LET session == Head(queue).session
     IN turns' = turns \cup {[session |-> session,
                              filed |-> Resolved(session, runtime, namespace),
                              promoted |-> session # runtime]}
  /\ UNCHANGED <<current, issued, job, pc, store, upset, switchVars, poolVars,
                 prefetch>>

(* sync_turn                                                               *)
SyncTurn ==
  /\ Takes("turn")
  /\ LET session == Head(queue).session
     IN turns' = turns \cup {[session |-> session,
                              filed |-> Resolved(session, runtime, namespace),
                              promoted |-> session = runtime]}
  /\ UNCHANGED <<current, issued, job, pc, store, upset, switchVars, poolVars,
                 prefetch>>

(* on_session_end, which submits a summary unless there are no messages,   *)
(* and the start of on_session_switch.                                     *)
StartBoundary ==
  /\ Takes("boundary")
  /\ job' = Head(queue)
  /\ pc' = [pc EXCEPT !["worker"] = "drain"]
  /\ \/ Submit(Head(queue).session - 1, FALSE)
     \/ UNCHANGED <<tasks, rows, pending>>
  /\ waiting' = [waiting EXCEPT !["worker"] = pending']
  /\ UNCHANGED <<current, issued, turns, store, upset, switchVars,
                 prefetch>>

StartRewind ==
  /\ Takes("rewind")
  /\ job' = Head(queue)
  /\ pc' = [pc EXCEPT !["worker"] = "drain"]
  /\ waiting' = [waiting EXCEPT !["worker"] = pending]
  /\ UNCHANGED <<current, issued, tasks, pending, turns, store, upset,
                 rows, switchVars, prefetch>>

(* The rest of on_session_switch: _runtime, then _namespace, then the      *)
(* cache without the entries of the session that was left or rewound.      *)
At(here, there) == pc["worker"] = here /\ pc' = [pc EXCEPT !["worker"] = there]
Stale == IF job.kind = "boundary" THEN job.session - 1 ELSE job.session

Bind ==
  /\ At("bind", "rename")
  /\ runtime' = job.session
  /\ UNCHANGED <<current, issued, queue, job, namespace, turns, cache, scanned,
                 store, upset, raced, poolVars, prefetch>>
(* Mutant: the namespace is not resolved again.                            *)
RenameForgotten ==
  /\ At("rename", "scan")
  /\ UNCHANGED <<current, issued, queue, job, runtime, namespace, turns, cache,
                 scanned, store, upset, raced, poolVars, prefetch>>
Rename ==
  /\ At("rename", "scan")
  /\ namespace' = job.session
  /\ UNCHANGED <<current, issued, queue, job, runtime, turns, cache, scanned,
                 store, upset, raced, poolVars, prefetch>>
Scan ==
  /\ At("scan", "evict")
  /\ scanned' = cache
  /\ UNCHANGED <<current, issued, queue, job, runtime, namespace, turns, cache,
                 store, upset, raced, poolVars, prefetch>>
(* The entries that are left when those of a session have been evicted.    *)
Passed(entries) ==
  {[session |-> e.session, stale |-> e.stale \/ e.session = Stale] : e \in entries}

(* Mutant: the wrong slot of the keys is compared, and nothing matches.    *)
EvictWrongSlot ==
  /\ At("evict", "idle")
  /\ cache' = Passed(scanned)
  /\ raced' = (raced \/ prefetch.pc # "idle" \/ cache # scanned)
  /\ scanned' = {} /\ job' = NoJob
  /\ UNCHANGED <<current, issued, queue, runtime, namespace, turns, store, upset,
                 poolVars, prefetch>>
(* A cache that grows while it is scanned raises an exception, or loses    *)
(* what was added.                                                         *)
Evict ==
  /\ At("evict", "idle")
  /\ \/ cache' = Passed({e \in scanned : e.session # Stale})
     \/ cache # scanned /\ UNCHANGED cache
  /\ raced' = (raced \/ prefetch.pc # "idle" \/ cache # scanned)
  /\ scanned' = {} /\ job' = NoJob
  /\ UNCHANGED <<current, issued, queue, runtime, namespace, turns, store, upset,
                 poolVars, prefetch>>
-----------------------------------------------------------------------------
(* prefetch: _active_namespace reads _runtime and then, for that session,  *)
(* _namespace; the cache or the table answers; the cache keeps the answer. *)
PrefetchCall ==
  /\ Serving /\ prefetch.pc = "idle"
  /\ prefetch' = [Idle EXCEPT !.pc = "runtime", !.asked = current]
  /\ UNCHANGED <<current, issued, queue, job, pc, turns, store, upset,
                 switchVars, poolVars>>
PrefetchRuntime ==
  /\ prefetch.pc = "runtime"
  /\ prefetch' = [prefetch EXCEPT !.pc = "namespace", !.runtime = runtime]
  /\ UNCHANGED <<current, issued, queue, job, pc, turns, store, upset,
                 switchVars, poolVars>>
PrefetchRead ==
  /\ prefetch.pc = "namespace" /\ store = "open"
  /\ LET session == Resolved(prefetch.asked, prefetch.runtime, namespace)
         hit == \E entry \in cache : entry.session = session
     IN prefetch' = [prefetch EXCEPT !.pc = IF hit THEN "hit" ELSE "put",
                                     !.resolved = session]
  /\ UNCHANGED <<current, issued, queue, job, pc, turns, store, upset,
                 switchVars, poolVars>>
PrefetchPut ==
  /\ prefetch.pc = "put"
  /\ cache' = {entry \in cache : entry.session # prefetch.resolved}
              \cup {[session |-> prefetch.resolved, stale |-> FALSE]}
  /\ prefetch' = Idle
  /\ UNCHANGED <<current, issued, queue, job, pc, runtime, namespace, turns,
                 scanned, store, upset, raced, poolVars>>
PrefetchHit ==
  /\ prefetch.pc = "hit"
  /\ prefetch' = Idle
  /\ UNCHANGED <<current, issued, queue, job, pc, turns, store, upset,
                 switchVars, poolVars>>
(* A closed store raises.                                                  *)
PrefetchRaises ==
  /\ prefetch.pc = "namespace" /\ store = "closed"
  /\ prefetch' = Idle
  /\ UNCHANGED <<current, issued, queue, job, pc, turns, store, upset,
                 switchVars, poolVars>>
-----------------------------------------------------------------------------
(* shutdown, which the host calls when its worker has nothing left to do.  *)
Shutdown ==
  /\ Serving /\ queue = <<>> /\ pc["worker"] = "idle"
  /\ pc' = [pc EXCEPT !["host"] = "drain"]
  /\ waiting' = [waiting EXCEPT !["host"] = pending]
  /\ UNCHANGED <<current, issued, queue, job, tasks, pending, turns, store,
                 upset, rows, switchVars, prefetch>>

(* Mutant: the pool is told to stop and not waited for.                    *)
FinishedAtOnce == TRUE

(* executor.shutdown(wait=True) comes back when every task has ended.      *)
Finished == \A t \in DOMAIN tasks : tasks[t] \in {"done", "failed"}

Close ==
  /\ pc["host"] = "wait" /\ Finished
  /\ pc' = [pc EXCEPT !["host"] = "down"]
  /\ store' = "closed"
  /\ UNCHANGED <<current, issued, queue, job, turns, upset, switchVars, poolVars,
                 prefetch>>

Pool == TaskStart \/ TaskEnd
Drain(d) == DrainNext(d) \/ DrainRaises(d) \/ DrainDone(d)
Worker ==
  \/ SyncTurn \/ StartBoundary \/ StartRewind
  \/ Drain("worker") \/ Bind \/ Rename \/ Scan \/ Evict
Host == HostTurn \/ HostNewSession \/ HostRewind \/ HostNote
Teardown == Drain("host") \/ Close
Prefetch ==
  PrefetchRuntime \/ PrefetchRead \/ PrefetchPut \/ PrefetchHit \/ PrefetchRaises

TimeOut == \E d \in Drainers : DrainTimesOut(d)

Next ==
  \/ Host \/ Worker \/ Pool \/ TimeOut
  \/ PrefetchCall \/ Prefetch \/ Shutdown \/ Teardown

Spec == Init /\ [][Next]_vars

(* Threads that can run do; tasks end; nobody has to call the provider, and*)
(* no wait has to time out for another thread to go on.                    *)
FairSpec ==
  Spec /\ WF_vars(Worker) /\ WF_vars(Pool) /\ WF_vars(Teardown) /\ WF_vars(Prefetch)
-----------------------------------------------------------------------------
(* A turn is filed under the session it was synced for, also when the      *)
(* provider is still bound to an earlier one.                              *)
TurnsFiled == \A turn \in turns : turn.filed = turn.session

(* Because the worker keeps turns and boundaries in order, each turn finds *)
(* the provider bound to its session and is promoted, as long as no task   *)
(* fails and no wait is given up.                                          *)
TurnsPromoted == ~upset => \A turn \in turns : turn.promoted

(* The store is closed under no task, whatever waits were given up before. *)
NothingAfterClose ==
  store = "closed" => \A t \in DOMAIN tasks : tasks[t] \in {"done", "failed"}

(* A note or a summary is filed under the session it is of, although it is *)
(* mirrored later, when switches may have taken place: a summary always,   *)
(* and a note unless the boundary before its session was still due, as long*)
(* as no task fails and no wait is given up.  Whatever fails, and however  *)
(* far behind the host the provider is, none is filed under a session later*)
(* than its own.                                                           *)
NotesFiled ==
  \A t \in DOMAIN tasks : tasks[t] = "done" =>
    /\ rows[t].filed <= rows[t].session
    /\ ~rows[t].early /\ ~upset => rows[t].filed = rows[t].session

(* Once the worker is through with what it was given, the provider is in   *)
(* the session that the host is in: every switch has taken effect, ...     *)
SwitchTakesEffect ==
  queue = <<>> /\ pc["worker"] = "idle" => runtime = current /\ namespace = current

(* ... as long as no task fails and no wait is given up.                   *)
SwitchCompletes == ~upset => SwitchTakesEffect

(* A shutdown ends with the store released, unless a drain raised.         *)
ShutdownCloses == []~upset => (pc["host"] = "drain" ~> store = "closed")

(* A boundary that was queued is carried out, unless a drain raised: nobody*)
(* waits for somebody who waits for it.                                    *)
SwitchReturns ==
  []~upset => \A s \in Sessions \ {1} : current = s ~> runtime >= s

(* A prefetch reads the session it was asked for, also while a boundary is *)
(* pending.                                                                *)
PrefetchFollows ==
  prefetch.pc \in {"put", "hit"} => prefetch.resolved = prefetch.asked

(* What was assembled before its session's entries were evicted, because   *)
(* the session was left or its transcript shortened, is not served after-  *)
(* wards, unless a prefetch was under way at the eviction.                 *)
EvictedStaysOut == ~raced => \A entry \in cache : ~entry.stale

Binding == INSTANCE SessionBinding WITH
             bound <- runtime,
             filed <- {[session |-> turn.filed, promoted |-> turn.promoted] : turn \in turns},
             open <- store = "open"

(* The provider follows the host without ever going back, whatever failed  *)
(* or was given up on the way: a turn never reaches the table after the    *)
(* provider has left its session, a boundary that is carried out late does *)
(* not undo a later one, and a closed provider neither moves nor writes.   *)
BindingKept == Binding!Spec
=============================================================================
