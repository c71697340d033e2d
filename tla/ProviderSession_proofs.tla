----------------------- MODULE ProviderSession_proofs -----------------------
(***************************************************************************)
(* Proofs about ProviderSession, for any number of sessions, turns, notes  *)
(* and rewinds, with or without faults.                                    *)
(***************************************************************************)
EXTENDS ProviderSession, TLAPS

WorkerStates == {"idle", "drain", "bind", "rename", "scan", "evict"}
HostStates == {"serving", "drain", "wait", "down"}

(* What the types rest on: outside "idle" the worker is at a job, a        *)
(* boundary leaves an earlier session, and an eviction works on a copy of  *)
(* the cache.                                                              *)
Leaves(j) == j.kind = "boundary" => j.session > 1
AtWork ==
  /\ pc.worker # "idle" => job \in Job /\ Leaves(job)
  /\ \A k \in 1..Len(queue) : Leaves(queue[k])
  /\ \A d, e \in scanned : d.session = e.session => d = e

LEMMA Queued ==
  ASSUME NEW q \in Seq(Job), NEW j \in Job, Leaves(j), \A k \in 1..Len(q) : Leaves(q[k])
  PROVE  /\ Append(q, j) \in Seq(Job)
         /\ \A k \in 1..Len(Append(q, j)) : Leaves(Append(q, j)[k])
<1> QED  OBVIOUS

LEMMA Taken ==
  ASSUME NEW q \in Seq(Job), q # <<>>, \A k \in 1..Len(q) : Leaves(q[k])
  PROVE  /\ Tail(q) \in Seq(Job) /\ Head(q) \in Job /\ Leaves(Head(q))
         /\ \A k \in 1..Len(Tail(q)) : Leaves(Tail(q)[k])
<1> QED  OBVIOUS

LEMMA Issued ==
  ASSUME issued \in [turn : 0..MaxTurns, note : 0..MaxNotes, rewind : 0..MaxRewinds],
         Issue("turn", MaxTurns) \/ Issue("note", MaxNotes) \/ Issue("rewind", MaxRewinds)
  PROVE  issued' \in [turn : 0..MaxTurns, note : 0..MaxNotes, rewind : 0..MaxRewinds]
<1>1. CASE Issue("turn", MaxTurns)
  <2>1. issued.turn + 1 \in 0..MaxTurns
    BY <1>1, ProviderAssumption DEF Issue, ProviderAssumption
  <2> QED  BY <1>1, <2>1 DEF Issue
<1>2. CASE Issue("note", MaxNotes)
  <2>1. issued.note + 1 \in 0..MaxNotes
    BY <1>2, ProviderAssumption DEF Issue, ProviderAssumption
  <2> QED  BY <1>2, <2>1 DEF Issue
<1>3. CASE Issue("rewind", MaxRewinds)
  <2>1. issued.rewind + 1 \in 0..MaxRewinds
    BY <1>3, ProviderAssumption DEF Issue, ProviderAssumption
  <2> QED  BY <1>3, <2>1 DEF Issue
<1> QED  BY <1>1, <1>2, <1>3

LEMMA Submitted ==
  ASSUME TypeOK, NEW session \in Sessions, NEW early \in BOOLEAN, Submit(session, early)
  PROVE  /\ tasks' \in Seq(TaskStates) /\ pending' \in Seq(1..Len(tasks'))
         /\ waiting \in [Drainers -> Seq(1..Len(tasks'))]
         /\ rows' \in Seq(Row) /\ Len(rows') = Len(tasks')
<1>1. tasks' \in Seq(TaskStates) /\ Len(tasks') = Len(tasks) + 1 /\ Len(tasks) \in Nat
  BY DEF Submit, TypeOK, TaskStates
<1>2. \A w \in Seq(1..Len(tasks)) : w \in Seq(1..Len(tasks'))
  BY <1>1
<1>3. pending' \in Seq(1..Len(tasks'))
  BY <1>1, <1>2 DEF Submit, TypeOK
<1>4. waiting \in [Drainers -> Seq(1..Len(tasks'))]
  BY <1>2 DEF TypeOK
<1>5. rows' \in Seq(Row) /\ Len(rows') = Len(tasks')
  <2>1. [session |-> session, filed |-> namespace, early |-> early] \in Row
    BY DEF TypeOK, Row
  <2> QED  BY <1>1, <2>1 DEF Submit, TypeOK
<1> QED  BY <1>1, <1>3, <1>4, <1>5

LEMMA TypedInit == Init => TypeOK /\ AtWork
<1> SUFFICES ASSUME Init PROVE TypeOK /\ AtWork
  OBVIOUS
<1>1. 1 \in Sessions
  BY ProviderAssumption DEF ProviderAssumption, Sessions
<1>2. /\ issued \in [turn : 0..MaxTurns, note : 0..MaxNotes, rewind : 0..MaxRewinds]
      /\ tasks = <<>> /\ rows = <<>> /\ pending = <<>> /\ queue = <<>>
      /\ waiting \in [Drainers -> Seq(1..Len(tasks))]
      /\ prefetch = Idle
  BY ProviderAssumption DEF Init, ProviderAssumption
<1>4. TypeOK
  <2>1. /\ queue \in Seq(Job) /\ tasks \in Seq(TaskStates) /\ pending \in Seq(1..Len(tasks))
        /\ rows \in Seq(Row) /\ Len(rows) = Len(tasks)
    BY <1>2
  <2>2. Idle \in [pc : {"idle", "runtime", "namespace", "put", "hit"}, asked : Sessions,
                  runtime : Sessions, resolved : Sessions]
    BY <1>1 DEF Idle
  <2> QED  BY <1>1, <1>2, <2>1, <2>2 DEF Init, TypeOK
<1>3. AtWork
  BY DEF Init, AtWork
<1> QED  BY <1>3, <1>4

LEMMA TypedStep == TypeOK /\ AtWork /\ [Next]_vars => TypeOK' /\ AtWork'
<1> SUFFICES ASSUME TypeOK, AtWork, [Next]_vars PROVE TypeOK' /\ AtWork'
  OBVIOUS
<1>1. CASE HostTurn \/ HostRewind
  <2>1. PICK j \in Job : queue' = Append(queue, j) /\ j.kind # "boundary"
    BY <1>1 DEF HostTurn, HostRewind, TypeOK, Job
  <2>2. queue' \in Seq(Job) /\ \A k \in 1..Len(queue') : Leaves(queue'[k])
    BY <2>1, Queued DEF TypeOK, AtWork, Leaves
  <2>3. issued' \in [turn : 0..MaxTurns, note : 0..MaxNotes, rewind : 0..MaxRewinds]
    BY <1>1, Issued DEF HostTurn, HostRewind, TypeOK
  <2> QED
    BY <1>1, <2>2, <2>3
       DEF HostTurn, HostRewind, TypeOK, AtWork, switchVars, poolVars
<1>2. CASE HostNewSession
  <2>1. current' \in Sessions /\ current' > 1
    BY <1>2, ProviderAssumption DEF HostNewSession, TypeOK, Sessions, ProviderAssumption
  <2>2. PICK j \in Job : queue' = Append(queue, j) /\ Leaves(j)
    BY <1>2, <2>1 DEF HostNewSession, Job, Leaves
  <2>3. queue' \in Seq(Job) /\ \A k \in 1..Len(queue') : Leaves(queue'[k])
    BY <2>2, Queued DEF TypeOK, AtWork
  <2> QED
    BY <1>2, <2>1, <2>3
       DEF HostNewSession, TypeOK, AtWork, switchVars, poolVars
<1>3. CASE HostNote
  <2>1. issued' \in [turn : 0..MaxTurns, note : 0..MaxNotes, rewind : 0..MaxRewinds]
    BY <1>3, Issued DEF HostNote, TypeOK
  <2>2. PICK early \in BOOLEAN : Submit(current, early)
    BY <1>3 DEF HostNote, BoundaryDue
  <2>3. current \in Sessions
    BY DEF TypeOK
  <2>4. /\ tasks' \in Seq(TaskStates) /\ pending' \in Seq(1..Len(tasks'))
        /\ waiting \in [Drainers -> Seq(1..Len(tasks'))]
        /\ rows' \in Seq(Row) /\ Len(rows') = Len(tasks')
    BY <2>2, <2>3, Submitted
  <2> QED  BY <1>3, <2>1, <2>4 DEF HostNote, TypeOK, AtWork, switchVars
<1>4. CASE SyncTurn
  <2>1. /\ queue' \in Seq(Job) /\ Head(queue) \in Job
        /\ \A k \in 1..Len(queue') : Leaves(queue'[k])
    BY <1>4, Taken DEF SyncTurn, Takes, TypeOK, AtWork
  <2>2. Resolved(Head(queue).session, runtime, namespace) \in Sessions
    BY <2>1 DEF Resolved, TypeOK, Job
  <2>3. turns' \subseteq [session : Sessions, filed : Sessions, promoted : BOOLEAN]
    <3>1. PICK s \in Sessions, f \in Sessions, promoted \in BOOLEAN :
            turns' = turns \cup {[session |-> s, filed |-> f, promoted |-> promoted]}
      BY <1>4, <2>1, <2>2 DEF SyncTurn, Job
    <3> QED  BY <3>1 DEF TypeOK
  <2> QED
    BY <1>4, <2>1, <2>3
       DEF SyncTurn, TypeOK, AtWork, switchVars, poolVars
<1>5. CASE StartBoundary \/ StartRewind
  <2>1. /\ queue' \in Seq(Job) /\ job' \in Job /\ Leaves(job')
        /\ \A k \in 1..Len(queue') : Leaves(queue'[k])
    BY <1>5, Taken DEF StartBoundary, StartRewind, Takes, TypeOK, AtWork
  <2>2. /\ tasks' \in Seq(TaskStates) /\ pending' \in Seq(1..Len(tasks'))
        /\ waiting \in [Drainers -> Seq(1..Len(tasks'))]
        /\ rows' \in Seq(Row) /\ Len(rows') = Len(tasks')
    <3>1. CASE UNCHANGED <<tasks, rows, pending>>
      BY <3>1 DEF TypeOK
    <3>2. CASE StartBoundary /\ Submit(Head(queue).session - 1, FALSE)
      <4>1. Head(queue) \in Job /\ Head(queue).session > 1
        BY <3>2, Taken DEF StartBoundary, Takes, TypeOK, AtWork, Leaves
      <4>2. Head(queue).session - 1 \in Sessions
        BY <4>1, ProviderAssumption DEF Job, Sessions, ProviderAssumption
      <4> QED  BY <3>2, <4>2, Submitted
    <3> QED  BY <1>5, <3>1, <3>2 DEF StartBoundary, StartRewind
  <2>3. waiting' \in [Drainers -> Seq(1..Len(tasks'))]
    BY <1>5, <2>2 DEF StartBoundary, StartRewind, TypeOK
  <2>4. pc' \in [worker : WorkerStates, host : HostStates]
    BY <1>5 DEF StartBoundary, StartRewind, TypeOK, WorkerStates, HostStates
  <2> QED
    BY <1>5, <2>1, <2>2, <2>3, <2>4
       DEF StartBoundary, StartRewind, TypeOK, AtWork, switchVars,
           WorkerStates, HostStates
<1>6. ASSUME NEW d \in Drainers, Drain(d) \/ DrainTimesOut(d) PROVE TypeOK' /\ AtWork'
  <2>1. CASE DrainNext(d)
    <3>1. Tail(waiting[d]) \in Seq(1..Len(tasks))
      BY <2>1 DEF DrainNext, TypeOK
    <3>2. waiting' \in [Drainers -> Seq(1..Len(tasks))]
      BY <2>1, <3>1 DEF DrainNext, TypeOK
    <3> QED  BY <2>1, <3>2 DEF DrainNext, TypeOK, AtWork, switchVars
  <2>2. CASE GivesUp(d)
    <3>1. waiting' \in [Drainers -> Seq(1..Len(tasks))]
      BY <2>2 DEF GivesUp, TypeOK
    <3>2. /\ pc' \in [worker : WorkerStates, host : HostStates]
          /\ job' \in Job \cup {NoJob}
          /\ pc'.worker # "idle" => pc'.worker = pc.worker /\ job' = job
      BY <2>2 DEF GivesUp, TypeOK, WorkerStates, HostStates, Drainers
    <3> QED
      BY <2>2, <3>1, <3>2
         DEF GivesUp, TypeOK, AtWork, switchVars, WorkerStates, HostStates
  <2>3. CASE DrainDone(d)
    <3>1. /\ pc' \in [worker : WorkerStates, host : HostStates]
          /\ pc'.worker # "idle" => pc.worker # "idle"
      BY <2>3 DEF DrainDone, TypeOK, WorkerStates, HostStates, Drainers
    <3> QED
      BY <2>3, <3>1
         DEF DrainDone, TypeOK, AtWork, switchVars, WorkerStates, HostStates
  <2> QED  BY <1>6, <2>1, <2>2, <2>3 DEF Drain, DrainRaises, DrainTimesOut
<1>7. CASE Bind \/ Rename \/ Scan
  <2>1. job \in Job /\ job.session \in Sessions
    BY <1>7 DEF Bind, Rename, Scan, At, AtWork, Job
  <2>2. pc' \in [worker : WorkerStates, host : HostStates] /\ pc.worker # "idle"
    BY <1>7 DEF Bind, Rename, Scan, At, TypeOK, WorkerStates, HostStates
  <2> QED
    BY <1>7, <2>1, <2>2
       DEF Bind, Rename, Scan, TypeOK, AtWork, poolVars,
           WorkerStates, HostStates
<1>8. CASE Evict
  <2>1. Stale \in Sessions
    BY <1>8, ProviderAssumption
       DEF Evict, At, AtWork, Leaves, Stale, Job, Sessions, ProviderAssumption
  <2>3. cache' \subseteq Entry /\ \A d, e \in cache' : d.session = e.session => d = e
    <3>1. PICK entries \in SUBSET scanned : cache' = Passed(entries) \/ cache' = cache
      BY <1>8 DEF Evict
    <3>2. entries \subseteq Entry /\ \A d, e \in entries : d.session = e.session => d = e
      BY DEF TypeOK, AtWork
    <3>3. Passed(entries) \subseteq Entry
      <4> SUFFICES ASSUME NEW e \in entries
                   PROVE  [session |-> e.session, stale |-> e.stale \/ e.session = Stale]
                            \in Entry
        BY DEF Passed
      <4>1. e.session \in Sessions
        BY <3>2 DEF Entry
      <4>2. (e.stale \/ e.session = Stale) \in BOOLEAN
        OBVIOUS
      <4> QED  BY <4>1, <4>2, Zenon DEF Entry
    <3>4. \A d, e \in Passed(entries) : d.session = e.session => d = e
      BY <3>2 DEF Passed
    <3> QED  BY <3>1, <3>3, <3>4 DEF TypeOK
  <2>4. /\ pc' \in [worker : WorkerStates, host : HostStates] /\ pc'.worker = "idle"
        /\ job' = NoJob
    BY <1>8 DEF Evict, At, TypeOK, WorkerStates, HostStates
  <2>5. raced' \in BOOLEAN
    BY <1>8 DEF Evict, TypeOK
  <2> QED
    BY <1>8, <2>3, <2>4, <2>5
       DEF Evict, TypeOK, AtWork, poolVars, WorkerStates, HostStates
<1>9. CASE Pool
  <2>1. /\ tasks' \in Seq(TaskStates) /\ Len(tasks') = Len(tasks)
    <3>1. PICK t \in DOMAIN tasks, how \in TaskStates : tasks' = [tasks EXCEPT ![t] = how]
      BY <1>9 DEF Pool, TaskStart, TaskEnd, Running, TaskStates
    <3> QED  BY <3>1 DEF TypeOK
  <2>2. upset' \in BOOLEAN
    BY <1>9 DEF Pool, TaskStart, TaskEnd, TypeOK
  <2> QED
    BY <1>9, <2>1, <2>2
       DEF Pool, TaskStart, TaskEnd, TypeOK, AtWork, switchVars
<1> DEFINE Prefetching == [pc : {"idle", "runtime", "namespace", "put", "hit"},
                           asked : Sessions, runtime : Sessions, resolved : Sessions]
<1>a. Idle \in Prefetching
  BY ProviderAssumption DEF Idle, Sessions, ProviderAssumption
<1>10. CASE PrefetchCall \/ PrefetchRuntime \/ PrefetchHit \/ PrefetchRaises
  <2>1. prefetch' \in Prefetching
    <3>1. CASE PrefetchCall
      BY <1>a, <3>1 DEF PrefetchCall, TypeOK
    <3>2. CASE PrefetchRuntime
      BY <3>2 DEF PrefetchRuntime, TypeOK
    <3>3. CASE PrefetchHit \/ PrefetchRaises
      BY <1>a, <3>3 DEF PrefetchHit, PrefetchRaises
    <3> QED  BY <1>10, <3>1, <3>2, <3>3
  <2> QED
    BY <1>10, <2>1 DEF PrefetchCall, PrefetchRuntime, PrefetchHit, PrefetchRaises, TypeOK,
                       AtWork, switchVars, poolVars
<1>11. CASE PrefetchRead
  <2>1. PICK s \in Sessions : s = Resolved(prefetch.asked, prefetch.runtime, namespace)
    BY DEF Resolved, TypeOK
  <2>2. PICK there \in {"put", "hit"} :
          prefetch' = [prefetch EXCEPT !.pc = there, !.resolved = s]
    BY <1>11, <2>1 DEF PrefetchRead
  <2>3. prefetch' \in Prefetching
    BY <2>2 DEF TypeOK
  <2> QED  BY <1>11, <2>3 DEF PrefetchRead, TypeOK, AtWork, switchVars, poolVars
<1>12. CASE PrefetchPut
  <2>1. [session |-> prefetch.resolved, stale |-> FALSE] \in Entry
    BY DEF TypeOK, Entry
  <2>2. cache' \subseteq Entry /\ \A d, e \in cache' : d.session = e.session => d = e
    <3>1. PICK new \in Entry :
            /\ new.session = prefetch.resolved
            /\ cache' = {entry \in cache : entry.session # prefetch.resolved} \cup {new}
      BY <1>12, <2>1 DEF PrefetchPut
    <3> QED  BY <3>1 DEF TypeOK
  <2>3. prefetch' \in Prefetching
    BY <1>12, <1>a DEF PrefetchPut
  <2> QED  BY <1>12, <2>2, <2>3 DEF PrefetchPut, TypeOK, AtWork, poolVars
<1>13. CASE Shutdown \/ Close
  <2>1. waiting' \in [Drainers -> Seq(1..Len(tasks))]
    BY <1>13 DEF Shutdown, Close, TypeOK, poolVars
  <2>2. /\ pc' \in [worker : WorkerStates, host : HostStates] /\ pc'.worker = pc.worker
    BY <1>13 DEF Shutdown, Close, TypeOK, WorkerStates, HostStates
  <2> QED
    BY <1>13, <2>1, <2>2
       DEF Shutdown, Close, TypeOK, AtWork, switchVars, poolVars,
           WorkerStates, HostStates
<1>14. CASE UNCHANGED vars
  BY <1>14 DEF vars, TypeOK, AtWork
<1> QED
  BY <1>1, <1>2, <1>3, <1>4, <1>5, <1>6, <1>7, <1>8, <1>9, <1>10, <1>11, <1>12, <1>13,
     <1>14
     DEF Next, Host, Worker, Teardown, TimeOut, Prefetch, Drainers

(* Every variable keeps its type, among them that every future waited for  *)
(* is that of a task and that a session has one entry in the cache (TypeOK).*)
THEOREM ProviderTyped == Spec => []TypeOK
BY TypedInit, TypedStep, PTL DEF Spec
-----------------------------------------------------------------------------
(* Between calls of on_session_switch, _namespace is that of _runtime.     *)
Bound ==
  /\ pc \in [worker : WorkerStates, host : HostStates]
  /\ IF pc.worker = "rename" THEN runtime = job.session ELSE namespace = runtime

(* Once the host shuts the provider down nothing is queued any more; and   *)
(* the store is closed after the pool, by the last step of the shutdown.   *)
Stopping ==
  /\ tasks \in Seq(TaskStates)
  /\ pc.host # "serving" => queue = <<>> /\ pc.worker = "idle"
  /\ store = "closed" =>
       pc.host = "down" /\ \A t \in DOMAIN tasks : tasks[t] \in {"done", "failed"}
-----------------------------------------------------------------------------
LEMMA BoundInit == Init => Bound
BY DEF Init, Bound, WorkerStates, HostStates

LEMMA BoundStep == Bound /\ [Next]_vars => Bound'
<1> SUFFICES ASSUME Bound, [Next]_vars PROVE Bound'
  OBVIOUS
<1> USE DEF Bound, WorkerStates, HostStates
<1>1. CASE Host
  BY <1>1 DEF Host, HostTurn, HostNewSession, HostRewind, HostNote, switchVars
<1>2. CASE SyncTurn
  BY <1>2 DEF SyncTurn, Takes, switchVars
<1>3. CASE StartBoundary \/ StartRewind
  BY <1>3 DEF StartBoundary, StartRewind, Takes, switchVars
<1>4. ASSUME NEW d \in Drainers, Drain(d) \/ DrainTimesOut(d) PROVE Bound'
  BY <1>4 DEF Drain, DrainNext, DrainRaises, DrainTimesOut,
           GivesUp, DrainDone, Drainers, switchVars
<1>5. CASE Bind \/ Rename
  BY <1>5 DEF Bind, Rename, At
<1>6. CASE Scan \/ Evict
  BY <1>6 DEF Scan, Evict, At
<1>7. CASE Pool
  BY <1>7 DEF Pool, TaskStart, TaskEnd, switchVars
<1>8. CASE PrefetchCall \/ Prefetch
  BY <1>8 DEF PrefetchCall, Prefetch, PrefetchRuntime, PrefetchRead, PrefetchPut,
              PrefetchHit, PrefetchRaises, switchVars
<1>9. CASE Shutdown \/ Close
  BY <1>9 DEF Shutdown, Close, switchVars
<1>10. CASE UNCHANGED vars
  BY <1>10 DEF vars
<1>11. TimeOut \/ Drain("worker") \/ Drain("host") => Bound'
  BY <1>4 DEF TimeOut, Drainers
<1> HIDE DEF Bound, WorkerStates, HostStates
<1> QED
  BY <1>1, <1>2, <1>3, <1>5, <1>6, <1>7, <1>8, <1>9, <1>10, <1>11
     DEF Next, Worker, Teardown

LEMMA AlwaysBound == Spec => []Bound
BY BoundInit, BoundStep, PTL DEF Spec

(* Every turn is filed under the session it was synced for, even when the  *)
(* switches before it were given up half-way (TurnsFiled).                 *)
THEOREM TurnsAreFiled == Spec => []TurnsFiled
<1>1. Init => TurnsFiled
  BY DEF Init, TurnsFiled
<1>2. Bound /\ TurnsFiled /\ [Next]_vars => TurnsFiled'
  <2> SUFFICES ASSUME Bound, TurnsFiled, [Next]_vars PROVE TurnsFiled'
    OBVIOUS
  <2>1. CASE SyncTurn
    <3>1. namespace = runtime
      BY <2>1 DEF SyncTurn, Takes, Bound
    <3>2. PICK session : turns' = turns \cup {[session |-> session, filed |-> session,
                                               promoted |-> session = runtime]}
      BY <2>1, <3>1 DEF SyncTurn, Resolved
    <3> QED  BY <3>2 DEF TurnsFiled
  <2>2. ASSUME turns' = turns PROVE TurnsFiled'
    BY <2>2 DEF TurnsFiled
  <2>3. CASE Host \/ StartBoundary \/ StartRewind
    BY <2>2, <2>3 DEF Host, HostTurn, HostNewSession, HostRewind, HostNote,
                      StartBoundary, StartRewind
  <2>4. ASSUME NEW d \in Drainers, Drain(d) \/ DrainTimesOut(d) PROVE TurnsFiled'
    BY <2>2, <2>4 DEF Drain, DrainNext, DrainRaises, DrainTimesOut,
           GivesUp, DrainDone
  <2>5. CASE Bind \/ Rename \/ Scan \/ Evict
    BY <2>2, <2>5 DEF Bind, Rename, Scan, Evict
  <2>6. CASE Pool \/ Shutdown \/ Close
    BY <2>2, <2>6 DEF Pool, TaskStart, TaskEnd, Shutdown, Close
  <2>7. CASE PrefetchCall \/ Prefetch
    BY <2>2, <2>7 DEF PrefetchCall, Prefetch, PrefetchRuntime, PrefetchRead, PrefetchPut,
                      PrefetchHit, PrefetchRaises
  <2>8. CASE UNCHANGED vars
    BY <2>2, <2>8 DEF vars
  <2> QED
    BY <2>1, <2>3, <2>4, <2>5, <2>6, <2>7, <2>8 DEF Next, TimeOut, Worker, Teardown, Drainers
<1> QED  BY <1>1, <1>2, AlwaysBound, PTL DEF Spec
-----------------------------------------------------------------------------
LEMMA StoppingInit == Init => Stopping
BY DEF Init, Stopping

LEMMA StoppingStep == Bound /\ Stopping /\ [Next]_vars => Stopping'
<1> SUFFICES ASSUME Bound, Stopping, [Next]_vars PROVE Stopping'
  OBVIOUS
<1>1. pc \in [worker : WorkerStates, host : HostStates]
  BY DEF Bound
<1>2. Append(tasks, "queued") \in Seq(TaskStates)
  BY DEF Stopping, TaskStates
<1>3. CASE Host
  <2>1. pc.host = "serving" /\ pc' = pc /\ store' = store /\ tasks' \in Seq(TaskStates)
    BY <1>2, <1>3 DEF Host, HostTurn, HostNewSession, HostRewind, HostNote, Serving, Submit,
                      Stopping, poolVars
  <2> QED  BY <2>1 DEF Stopping
<1>4. CASE SyncTurn
  BY <1>4 DEF SyncTurn, Takes, Stopping, poolVars
<1>5. CASE StartBoundary \/ StartRewind
  <2>1. pc.host = "serving"
    BY <1>5 DEF StartBoundary, StartRewind, Takes, Stopping
  <2>2. /\ pc'.host = "serving" /\ store' = store /\ tasks' \in Seq(TaskStates)
    BY <1>1, <1>2, <1>5, <2>1 DEF StartBoundary, StartRewind, Submit, Stopping
  <2> QED  BY <2>1, <2>2 DEF Stopping
<1>6. CASE Drain("worker") \/ DrainTimesOut("worker")
  <2>1. pc.worker = "drain" /\ pc.host = "serving"
    BY <1>6 DEF Drain, DrainNext, DrainRaises, DrainTimesOut,
           GivesUp, DrainDone, Stopping
  <2>2. pc'.host = "serving" /\ store' = store /\ tasks' = tasks
    BY <1>1, <1>6, <2>1 DEF Drain, DrainNext, DrainRaises, DrainTimesOut,
           GivesUp, DrainDone
  <2> QED  BY <2>1, <2>2 DEF Stopping
<1>7. CASE Drain("host") \/ DrainTimesOut("host")
  <2>1. pc.host = "drain" /\ store # "closed"
    BY <1>7 DEF Drain, DrainNext, DrainRaises, DrainTimesOut,
           GivesUp, DrainDone, Stopping
  <2>2. /\ pc'.worker = pc.worker /\ store' = store /\ tasks' = tasks /\ queue' = queue
    BY <1>1, <1>7, <2>1 DEF Drain, DrainNext, DrainRaises, DrainTimesOut,
           GivesUp, DrainDone
  <2> QED  BY <2>1, <2>2 DEF Stopping
<1>8. CASE Bind \/ Rename \/ Scan \/ Evict
  <2>1. pc.worker # "idle" /\ pc.host = "serving"
    BY <1>8 DEF Bind, Rename, Scan, Evict, At, Stopping
  <2>2. pc'.host = "serving" /\ store' = store /\ tasks' = tasks
    BY <1>1, <1>8, <2>1 DEF Bind, Rename, Scan, Evict, At, poolVars
  <2> QED  BY <2>1, <2>2 DEF Stopping
<1>9. CASE Pool
  <2>1. store # "closed"
    BY <1>9 DEF Pool, TaskStart, TaskEnd, Running, Stopping
  <2>2. pc' = pc /\ queue' = queue /\ store' = store
    BY <1>9 DEF Pool, TaskStart, TaskEnd
  <2>3. tasks' \in Seq(TaskStates)
    BY <1>9 DEF Pool, TaskStart, TaskEnd, Running, Stopping, TaskStates
  <2> QED  BY <2>1, <2>2, <2>3 DEF Stopping
<1>10. CASE PrefetchCall \/ Prefetch
  BY <1>10 DEF PrefetchCall, Prefetch, PrefetchRuntime, PrefetchRead, PrefetchPut,
               PrefetchHit, PrefetchRaises, Stopping, poolVars
<1>11. CASE Shutdown
  BY <1>1, <1>11 DEF Shutdown, Serving, Stopping
<1>12. CASE Close
  BY <1>1, <1>12 DEF Close, Finished, Stopping, poolVars
<1>13. CASE UNCHANGED vars
  BY <1>13 DEF vars, Stopping
<1> QED
  BY <1>3, <1>4, <1>5, <1>6, <1>7, <1>8, <1>9, <1>10, <1>11, <1>12, <1>13
     DEF Next, TimeOut, Drainers, Worker, Teardown

(* No task of the pool is left when the store is closed, also after waits  *)
(* that failed or were given up (NothingAfterClose).                       *)
THEOREM ClosesLast == Spec => []NothingAfterClose
<1>1. Stopping => NothingAfterClose
  BY DEF Stopping, NothingAfterClose
<1> QED  BY <1>1, StoppingInit, StoppingStep, AlwaysBound, PTL DEF Spec
-----------------------------------------------------------------------------
(* The order of the worker's queue.  Base is the session the worker leaves *)
(* behind when it is through with its job; of the queued jobs only a       *)
(* boundary is for another session than the one before it, and for the next*)
(* one; where no boundary follows, it is the session that the host is in;  *)
(* and only a boundary moves the provider.                                 *)
Base == IF pc.worker = "idle" THEN runtime ELSE job.session
Before(k) == IF k = 1 THEN Base ELSE queue[k - 1].session
Follows(j, session) == j.session = IF j.kind = "boundary" THEN session + 1 ELSE session
Ordered ==
  /\ \A k \in 1..Len(queue) : Follows(queue[k], Before(k))
  /\ \A k \in 1..(Len(queue) + 1) :
       (\A l \in k..Len(queue) : queue[l].kind # "boundary") => Before(k) = current
  /\ pc.worker \in {"rename", "scan", "evict"} => runtime = job.session
  /\ pc.worker # "idle" /\ job.kind # "boundary" =>
       runtime = job.session /\ namespace = job.session
InOrder == ~upset => Ordered

(* What Ordered says of the job that the worker is at.                     *)
JobOrdered ==
  /\ pc.worker \in {"rename", "scan", "evict"} => runtime = job.session
  /\ pc.worker # "idle" /\ job.kind # "boundary" =>
       runtime = job.session /\ namespace = job.session

LEMMA OrderedAppend ==
  ASSUME TypeOK, Ordered, NEW j \in Job, queue' = Append(queue, j),
         UNCHANGED <<job, runtime, namespace, pc>>, current' = j.session,
         Follows(j, current)
  PROVE  Ordered'
<1>1. /\ queue' \in Seq(Job) /\ Len(queue') = Len(queue) + 1 /\ Len(queue) \in Nat
      /\ \A k \in 1..Len(queue) : queue'[k] = queue[k]
      /\ queue'[Len(queue) + 1] = j
  BY DEF TypeOK
<1>2. \A k \in 1..(Len(queue) + 1) : Before(k)' = Before(k)
  BY <1>1 DEF Before, Base
<1>3. Before(Len(queue) + 1) = current
  BY <1>1 DEF Ordered
<1>4. ASSUME NEW k \in 1..Len(queue') PROVE Follows(queue'[k], Before(k)')
  <2>1. Before(k)' = Before(k)
    BY <1>1, <1>2
  <2>2. k \in 1..Len(queue) \/ k = Len(queue) + 1
    BY <1>1
  <2> QED  BY <1>1, <1>3, <2>1, <2>2 DEF Ordered
<1>5. ASSUME NEW k \in 1..(Len(queue') + 1),
             \A l \in k..Len(queue') : queue'[l].kind # "boundary"
      PROVE  Before(k)' = current'
  <2>1. CASE k = Len(queue') + 1
    <3>1. k # 1 /\ k - 1 = Len(queue) + 1
      BY <1>1, <2>1
    <3> QED  BY <1>1, <3>1 DEF Before
  <2>2. CASE k \in 1..(Len(queue) + 1)
    <3>1. /\ \A l \in k..Len(queue) : l \in k..Len(queue') /\ queue[l] = queue'[l]
          /\ Len(queue) + 1 \in k..Len(queue')
      BY <1>1, <2>2
    <3>2. Before(k) = current /\ j.kind # "boundary"
      BY <1>1, <1>5, <2>2, <3>1 DEF Ordered
    <3> QED  BY <1>2, <2>2, <3>2 DEF Follows
  <2> QED  BY <1>1, <2>1, <2>2
<1>6. JobOrdered'
  BY DEF Ordered, JobOrdered
<1> QED  BY <1>4, <1>5, <1>6 DEF Ordered, JobOrdered

LEMMA OrderedTail ==
  ASSUME TypeOK, Ordered, queue # <<>>, queue' = Tail(queue), current' = current,
         Base' = Head(queue).session, JobOrdered'
  PROVE  Ordered'
<1>1. /\ Len(queue) \in Nat /\ Len(queue) >= 1 /\ Len(queue') = Len(queue) - 1
      /\ Head(queue) = queue[1]
      /\ \A k \in 1..(Len(queue) - 1) : queue'[k] = queue[k + 1]
  BY DEF TypeOK
<1>2. \A k \in 1..Len(queue) : Before(k)' = Before(k + 1)
  BY <1>1 DEF Before
<1>3. \A k \in 1..Len(queue') : Follows(queue'[k], Before(k)')
  BY <1>1, <1>2 DEF Ordered
<1>4. ASSUME NEW k \in 1..(Len(queue') + 1),
             \A l \in k..Len(queue') : queue'[l].kind # "boundary"
      PROVE  Before(k)' = current'
  <2>1. k \in 1..Len(queue) /\ k + 1 \in 1..(Len(queue) + 1)
    BY <1>1
  <2>2. ASSUME NEW l \in (k + 1)..Len(queue) PROVE queue[l].kind # "boundary"
    <3>1. l - 1 \in k..Len(queue') /\ l - 1 \in 1..(Len(queue) - 1) /\ (l - 1) + 1 = l
      BY <1>1, <2>1
    <3> QED  BY <1>1, <1>4, <3>1
  <2> QED  BY <1>2, <2>1, <2>2 DEF Ordered
<1> QED  BY <1>3, <1>4 DEF Ordered, JobOrdered

LEMMA OrderedKept ==
  ASSUME TypeOK, Ordered, UNCHANGED <<queue, current>>, Base' = Base, JobOrdered'
  PROVE  Ordered'
<1>1. Len(queue) \in Nat /\ \A k \in 1..(Len(queue) + 1) : Before(k)' = Before(k)
  BY DEF Before, TypeOK
<1> QED  BY <1>1 DEF Ordered, JobOrdered

LEMMA InOrderStep == TypeOK /\ Bound /\ InOrder /\ [Next]_vars => InOrder'
<1> SUFFICES ASSUME TypeOK, Bound, InOrder, [Next]_vars PROVE InOrder'
  OBVIOUS
<1>0. ASSUME UNCHANGED <<queue, current, job, runtime, namespace, pc>>, upset => upset'
      PROVE  InOrder'
  BY <1>0, OrderedKept DEF InOrder, Base, Ordered, JobOrdered
<1>1. CASE HostTurn \/ HostRewind \/ HostNewSession
  <2>1. PICK j \in Job : /\ queue' = Append(queue, j) /\ current' = j.session
                         /\ Follows(j, current)
    <3>1. CASE HostTurn \/ HostRewind
      <4>1. [kind |-> "turn", session |-> current] \in Job
            /\ [kind |-> "rewind", session |-> current] \in Job
        BY DEF TypeOK, Job
      <4> QED  BY <3>1, <4>1 DEF HostTurn, HostRewind, Follows
    <3>2. CASE HostNewSession
      <4>1. [kind |-> "boundary", session |-> current + 1] \in Job
        BY <3>2, ProviderAssumption DEF HostNewSession, TypeOK, Job, Sessions
      <4> QED  BY <3>2, <4>1 DEF HostNewSession, Follows
    <3> QED  BY <1>1, <3>1, <3>2
  <2>2. UNCHANGED <<job, runtime, namespace, pc, upset>>
    BY <1>1 DEF HostTurn, HostRewind, HostNewSession, switchVars
  <2> QED  BY <2>1, <2>2, OrderedAppend DEF InOrder
<1>2. CASE SyncTurn
  <2>1. /\ queue # <<>> /\ queue' = Tail(queue) /\ Head(queue).kind = "turn"
        /\ pc.worker = "idle" /\ UNCHANGED <<current, runtime, pc, job, upset>>
    BY <1>2 DEF SyncTurn, Takes, switchVars
  <2>2. queue[1] = Head(queue) /\ 1 \in 1..Len(queue)
    BY <2>1 DEF TypeOK
  <2>3. ASSUME Ordered PROVE Base' = Head(queue).session
    BY <2>1, <2>2, <2>3 DEF Ordered, Follows, Before, Base
  <2>4. JobOrdered'
    BY <2>1 DEF JobOrdered
  <2> QED  BY <2>1, <2>3, <2>4, OrderedTail DEF InOrder
<1>3. CASE StartBoundary \/ StartRewind
  <2>1. /\ queue # <<>> /\ queue' = Tail(queue) /\ job' = Head(queue)
        /\ pc'.worker = "drain" /\ UNCHANGED <<current, runtime, namespace, upset>>
        /\ pc.worker = "idle"
    BY <1>3 DEF StartBoundary, StartRewind, Takes, TypeOK, switchVars
  <2>2. Base' = Head(queue).session
    BY <2>1 DEF Base
  <2>3. queue[1] = Head(queue) /\ 1 \in 1..Len(queue)
    BY <2>1 DEF TypeOK
  <2>4. ASSUME Ordered PROVE JobOrdered'
    BY <2>1, <2>3, <2>4 DEF Ordered, JobOrdered, Follows, Before, Base, Bound
  <2> QED  BY <2>1, <2>2, <2>4, OrderedTail DEF InOrder
<1>4. ASSUME NEW d \in Drainers, Drain(d) \/ DrainTimesOut(d) PROVE InOrder'
  <2>1. CASE DrainNext(d)
    BY <1>0, <2>1 DEF DrainNext, switchVars
  <2>2. CASE GivesUp(d)
    BY <2>2 DEF GivesUp, InOrder
  <2>3. CASE DrainDone(d)
    <3>1. /\ pc'.worker = pc.worker \/ (pc.worker = "drain" /\ pc'.worker = "bind")
          /\ UNCHANGED <<queue, current, job, runtime, namespace, upset>>
      <4>1. pc[d] = "drain" /\ UNCHANGED <<queue, current, job, runtime, namespace, upset>>
        BY <2>3 DEF DrainDone, switchVars
      <4>2. CASE d = "worker"
        BY <2>3, <4>1, <4>2 DEF DrainDone, TypeOK
      <4>3. CASE d = "host"
        BY <2>3, <4>1, <4>3 DEF DrainDone, TypeOK
      <4> QED  BY <1>4, <4>2, <4>3 DEF Drainers
    <3>2. Base' = Base
      BY <3>1 DEF Base
    <3>3. Ordered => JobOrdered'
      BY <3>1 DEF Ordered, JobOrdered
    <3> QED  BY <3>1, <3>2, <3>3, OrderedKept DEF InOrder
  <2> QED  BY <1>4, <2>1, <2>2, <2>3 DEF Drain, DrainRaises, DrainTimesOut
<1>5. CASE Bind
  <2>1. /\ pc.worker = "bind" /\ pc'.worker = "rename" /\ runtime' = job.session
        /\ UNCHANGED <<queue, current, job, namespace, upset>>
    BY <1>5 DEF Bind, At, TypeOK
  <2>2. Base' = Base
    BY <2>1 DEF Base
  <2>3. Ordered => JobOrdered'
    BY <2>1 DEF Ordered, JobOrdered
  <2> QED  BY <2>1, <2>2, <2>3, OrderedKept DEF InOrder
<1>6. CASE Rename \/ Scan
  <2>1. /\ pc.worker \in {"rename", "scan"} /\ pc'.worker \in {"scan", "evict"}
        /\ UNCHANGED <<queue, current, job, runtime, upset>>
        /\ namespace' = namespace \/ namespace' = job.session
    BY <1>6 DEF Rename, Scan, At, TypeOK
  <2>2. Base' = Base
    BY <2>1 DEF Base
  <2>3. Ordered => JobOrdered'
    BY <2>1 DEF Ordered, JobOrdered
  <2> QED  BY <2>1, <2>2, <2>3, OrderedKept DEF InOrder
<1>7. CASE Evict
  <2>1. /\ pc.worker = "evict" /\ pc'.worker = "idle"
        /\ UNCHANGED <<queue, current, runtime, upset>>
    BY <1>7 DEF Evict, At, TypeOK
  <2>2. Ordered => Base' = Base
    BY <2>1 DEF Base, Ordered
  <2>3. JobOrdered'
    BY <2>1 DEF JobOrdered
  <2> QED  BY <2>1, <2>2, <2>3, OrderedKept DEF InOrder
<1>8. CASE HostNote \/ Pool
  BY <1>0, <1>8 DEF HostNote, Pool, TaskStart, TaskEnd, switchVars
<1>9. CASE PrefetchCall \/ Prefetch
  BY <1>0, <1>9 DEF PrefetchCall, Prefetch, PrefetchRuntime, PrefetchRead, PrefetchPut,
                    PrefetchHit, PrefetchRaises, switchVars
<1>10. CASE Shutdown \/ Close
  <2>1. /\ pc'.worker = pc.worker
        /\ UNCHANGED <<queue, current, job, runtime, namespace, upset>>
    BY <1>10 DEF Shutdown, Close, TypeOK, switchVars
  <2>2. Base' = Base
    BY <2>1 DEF Base
  <2>3. Ordered => JobOrdered'
    BY <2>1 DEF Ordered, JobOrdered
  <2> QED  BY <2>1, <2>2, <2>3, OrderedKept DEF InOrder
<1>11. CASE UNCHANGED vars
  BY <1>0, <1>11 DEF vars
<1> QED
  BY <1>1, <1>2, <1>3, <1>4, <1>5, <1>6, <1>7, <1>8, <1>9, <1>10, <1>11
     DEF Next, Host, Worker, Teardown, TimeOut, Drainers

LEMMA AlwaysInOrder == Spec => [](TypeOK /\ InOrder /\ Bound)
<1>1. Init => InOrder
  BY DEF Init, InOrder, Ordered, Follows, Before, Base
<1> QED  BY <1>1, InOrderStep, ProviderTyped, AlwaysBound, PTL DEF Spec

(* Without a fault every switch has taken effect once the worker is through *)
(* with what it was given (SwitchCompletes).                               *)
THEOREM SwitchesComplete == Spec => []SwitchCompletes
<1>1. TypeOK /\ InOrder /\ Bound => SwitchCompletes
  BY DEF InOrder, Ordered, Before, Base, Bound, SwitchCompletes, SwitchTakesEffect
<1> QED  BY <1>1, AlwaysInOrder, PTL

(* ... and every turn has found the provider bound to its session, so that *)
(* it was promoted (TurnsPromoted).                                        *)
THEOREM TurnsArePromoted == Spec => []TurnsPromoted
<1>1. Init => TurnsPromoted
  BY DEF Init, TurnsPromoted
<1>2. TypeOK /\ InOrder /\ TurnsPromoted /\ [Next]_vars => TurnsPromoted'
  <2> SUFFICES ASSUME TypeOK, InOrder, TurnsPromoted, [Next]_vars PROVE TurnsPromoted'
    OBVIOUS
  <2>1. CASE SyncTurn
    <3>1. /\ queue # <<>> /\ Head(queue).kind = "turn" /\ pc.worker = "idle"
          /\ upset' = upset
      BY <2>1 DEF SyncTurn, Takes
    <3>2. queue[1] = Head(queue) /\ 1 \in 1..Len(queue)
      BY <3>1 DEF TypeOK
    <3>3. ~upset => Head(queue).session = runtime
      BY <3>1, <3>2 DEF InOrder, Ordered, Follows, Before, Base
    <3>4. PICK f : turns' = turns \cup {[session |-> Head(queue).session, filed |-> f,
                                         promoted |-> Head(queue).session = runtime]}
      BY <2>1 DEF SyncTurn
    <3>5. ASSUME ~upset, NEW turn \in turns' PROVE turn.promoted
      <4>1. CASE turn \in turns
        BY <3>5, <4>1 DEF TurnsPromoted
      <4>2. CASE turn = [session |-> Head(queue).session, filed |-> f,
                         promoted |-> Head(queue).session = runtime]
        BY <3>3, <3>5, <4>2
      <4> QED  BY <3>4, <3>5, <4>1, <4>2
    <3> QED  BY <3>1, <3>5 DEF TurnsPromoted
  <2>2. ASSUME turns' = turns, upset => upset' PROVE TurnsPromoted'
    BY <2>2 DEF TurnsPromoted
  <2>3. CASE Host \/ StartBoundary \/ StartRewind
    BY <2>2, <2>3 DEF Host, HostTurn, HostNewSession, HostRewind, HostNote,
                      StartBoundary, StartRewind
  <2>4. ASSUME NEW d \in Drainers, Drain(d) \/ DrainTimesOut(d) PROVE TurnsPromoted'
    BY <2>2, <2>4 DEF Drain, DrainNext, DrainRaises, DrainTimesOut, GivesUp, DrainDone
  <2>5. CASE Bind \/ Rename \/ Scan \/ Evict
    BY <2>2, <2>5 DEF Bind, Rename, Scan, Evict
  <2>6. CASE Pool \/ Shutdown \/ Close
    BY <2>2, <2>6 DEF Pool, TaskStart, TaskEnd, Shutdown, Close
  <2>7. CASE PrefetchCall \/ Prefetch
    BY <2>2, <2>7 DEF PrefetchCall, Prefetch, PrefetchRuntime, PrefetchRead, PrefetchPut,
                      PrefetchHit, PrefetchRaises
  <2>8. CASE UNCHANGED vars
    BY <2>2, <2>8 DEF vars
  <2> QED
    BY <2>1, <2>3, <2>4, <2>5, <2>6, <2>7, <2>8 DEF Next, TimeOut, Worker, Teardown, Drainers
<1> QED  BY <1>1, <1>2, AlwaysInOrder, PTL DEF Spec
-----------------------------------------------------------------------------
LEMMA EvictedStep == EvictedStaysOut /\ [Next]_vars => EvictedStaysOut'
<1> SUFFICES ASSUME EvictedStaysOut, [Next]_vars PROVE EvictedStaysOut'
  OBVIOUS
<1>1. ASSUME UNCHANGED <<cache, raced>> PROVE EvictedStaysOut'
  BY <1>1 DEF EvictedStaysOut
<1>2. CASE Evict
  <2>1. CASE raced'
    BY <2>1 DEF EvictedStaysOut
  <2>2. CASE ~raced'
    <3>1. ~raced /\ cache = scanned /\ cache' = Passed({e \in scanned : e.session # Stale})
      BY <1>2, <2>2 DEF Evict
    <3>2. ASSUME NEW entry \in cache' PROVE ~entry.stale
      <4>1. PICK e \in cache : /\ e.session # Stale
                               /\ entry = [session |-> e.session,
                                           stale |-> e.stale \/ e.session = Stale]
        BY <3>1, <3>2 DEF Passed
      <4>2. (e.stale \/ e.session = Stale) = FALSE
        BY <3>1, <4>1 DEF EvictedStaysOut
      <4>3. entry.stale = (e.stale \/ e.session = Stale)
        BY <4>1, Zenon
      <4> QED  BY <4>2, <4>3
    <3> QED  BY <3>2 DEF EvictedStaysOut
  <2> QED  BY <2>1, <2>2
<1>3. CASE PrefetchPut
  <2>1. raced' = raced /\ \A entry \in cache' : entry \in cache \/ entry.stale = FALSE
    BY <1>3 DEF PrefetchPut
  <2> QED  BY <2>1 DEF EvictedStaysOut
<1>4. CASE PrefetchCall \/ PrefetchRuntime \/ PrefetchRead \/ PrefetchHit \/ PrefetchRaises
  BY <1>1, <1>4 DEF PrefetchCall, PrefetchRuntime, PrefetchRead, PrefetchHit,
                    PrefetchRaises, switchVars
<1>5. CASE Host \/ SyncTurn \/ StartBoundary \/ StartRewind
  BY <1>1, <1>5 DEF Host, HostTurn, HostNewSession, HostRewind, HostNote, SyncTurn,
                    StartBoundary, StartRewind, switchVars
<1>6. ASSUME NEW d \in Drainers, Drain(d) \/ DrainTimesOut(d) PROVE EvictedStaysOut'
  BY <1>1, <1>6 DEF Drain, DrainNext, DrainRaises, DrainTimesOut, GivesUp, DrainDone,
                    switchVars
<1>7. CASE Bind \/ Rename \/ Scan
  BY <1>1, <1>7 DEF Bind, Rename, Scan
<1>8. CASE Pool \/ Shutdown \/ Close
  BY <1>1, <1>8 DEF Pool, TaskStart, TaskEnd, Shutdown, Close, switchVars
<1>9. CASE UNCHANGED vars
  BY <1>1, <1>9 DEF vars
<1> QED
  BY <1>2, <1>3, <1>4, <1>5, <1>6, <1>7, <1>8, <1>9
     DEF Next, Worker, Teardown, Prefetch, TimeOut, Drainers

(* What was assembled before an eviction is not served after it, unless a  *)
(* prefetch was under way at an eviction (EvictedStaysOut).                *)
THEOREM StaleStaysOut == Spec => []EvictedStaysOut
<1>1. Init => EvictedStaysOut
  BY DEF Init, EvictedStaysOut
<1> QED  BY <1>1, EvictedStep, PTL DEF Spec
-----------------------------------------------------------------------------
(* What holds of the order also after faults: from the provider through    *)
(* the worker's job and its queue to the host no session comes before one  *)
(* that is earlier in the line, and a boundary is for a later one than all *)
(* before it.                                                              *)
Reaches(session, j) ==
  session <= j.session /\ (j.kind = "boundary" => session < j.session)
Sequential ==
  /\ runtime <= Base /\ Base <= current
  /\ \A k \in 1..Len(queue) : Reaches(Base, queue[k]) /\ queue[k].session <= current
  /\ \A k, l \in 1..Len(queue) : k < l => Reaches(queue[k].session, queue[l])

LEMMA Numbered ==
  ASSUME TypeOK, AtWork
  PROVE  /\ Base \in Nat /\ runtime \in Nat /\ current \in Nat
         /\ \A k \in 1..Len(queue) : queue[k].session \in Nat
<1>1. Sessions \subseteq Nat
  BY ProviderAssumption DEF Sessions
<1>2. Base \in Sessions
  BY DEF Base, TypeOK, AtWork, Job
<1>3. \A k \in 1..Len(queue) : queue[k] \in Job
  BY DEF TypeOK
<1>4. \A j \in Job : j.session \in Nat
  BY <1>1 DEF Job
<1> QED  BY <1>1, <1>2, <1>3, <1>4 DEF TypeOK

LEMMA SequentialAppend ==
  ASSUME TypeOK, AtWork, Sequential, NEW j \in Job, queue' = Append(queue, j),
         UNCHANGED <<job, runtime, pc>>, current' = j.session, Reaches(current, j)
  PROVE  Sequential'
<1>1. /\ queue' \in Seq(Job) /\ Len(queue') = Len(queue) + 1 /\ Len(queue) \in Nat
      /\ \A k \in 1..Len(queue) : queue'[k] = queue[k]
      /\ queue'[Len(queue) + 1] = j
  BY DEF TypeOK
<1>2. /\ Base' = Base /\ Base \in Nat /\ runtime \in Nat /\ current \in Nat
      /\ j.session \in Nat /\ \A k \in 1..Len(queue) : queue[k].session \in Nat
  BY Numbered, ProviderAssumption DEF Base, Job, Sessions
<1>3. ASSUME NEW k \in 1..Len(queue')
      PROVE  /\ Reaches(Base, queue'[k]) /\ queue'[k].session <= j.session
             /\ \A l \in 1..Len(queue') : k < l => Reaches(queue'[k].session, queue'[l])
  <2>1. k \in 1..Len(queue) \/ k = Len(queue) + 1
    BY <1>1
  <2>2. Reaches(Base, queue'[k]) /\ queue'[k].session <= j.session
    BY <1>1, <1>2, <2>1 DEF Sequential, Reaches
  <2>3. ASSUME NEW l \in 1..Len(queue'), k < l
        PROVE  Reaches(queue'[k].session, queue'[l])
    <3>1. k \in 1..Len(queue)
      BY <1>1, <2>3
    <3>2. CASE l \in 1..Len(queue)
      BY <1>1, <2>3, <3>1, <3>2 DEF Sequential
    <3>3. CASE l = Len(queue) + 1
      BY <1>1, <1>2, <3>1, <3>3 DEF Sequential, Reaches
    <3> QED  BY <1>1, <3>2, <3>3
  <2> QED  BY <2>2, <2>3
<1>4. runtime' <= Base' /\ Base' <= current'
  BY <1>2 DEF Sequential, Reaches
<1> QED  BY <1>2, <1>3, <1>4 DEF Sequential

LEMMA SequentialTail ==
  ASSUME TypeOK, AtWork, Sequential, queue # <<>>, queue' = Tail(queue),
         UNCHANGED <<current, runtime>>, Base' \in {Base, Head(queue).session}
  PROVE  Sequential'
<1>1. /\ Len(queue) \in Nat /\ Len(queue) >= 1 /\ Len(queue') = Len(queue) - 1
      /\ Head(queue) = queue[1] /\ 1 \in 1..Len(queue)
      /\ \A k \in 1..(Len(queue) - 1) : queue'[k] = queue[k + 1]
  BY DEF TypeOK
<1>2. /\ Base \in Nat /\ runtime \in Nat /\ current \in Nat
      /\ \A k \in 1..Len(queue) : queue[k].session \in Nat
  BY Numbered
<1>3. /\ Base <= Base' /\ Base' <= current /\ Base' \in Nat
      /\ \A k \in 2..Len(queue) : Reaches(Base', queue[k])
  BY <1>1, <1>2 DEF Sequential, Reaches
<1>4. ASSUME NEW k \in 1..Len(queue') PROVE k + 1 \in 2..Len(queue) /\ queue'[k] = queue[k + 1]
  BY <1>1
<1>5. runtime' <= Base' /\ Base' <= current'
  BY <1>2, <1>3 DEF Sequential
<1>6. \A k \in 1..Len(queue') : Reaches(Base', queue'[k]) /\ queue'[k].session <= current'
  BY <1>3, <1>4 DEF Sequential
<1>7. ASSUME NEW k \in 1..Len(queue'), NEW l \in 1..Len(queue'), k < l
      PROVE  Reaches(queue'[k].session, queue'[l])
  <2>1. k + 1 < l + 1
    BY <1>1, <1>7
  <2> QED  BY <1>4, <2>1 DEF Sequential
<1> QED  BY <1>5, <1>6, <1>7 DEF Sequential

LEMMA SequentialKept ==
  ASSUME TypeOK, AtWork, Sequential, UNCHANGED <<queue, current>>,
         runtime' \in {runtime, Base}, Base' \in {runtime', Base}
  PROVE  Sequential'
<1>1. /\ Base \in Nat /\ runtime \in Nat /\ current \in Nat
      /\ \A k \in 1..Len(queue) : queue[k].session \in Nat
  BY Numbered
<1>2. runtime' <= Base' /\ Base' <= Base
  BY <1>1 DEF Sequential
<1> QED  BY <1>1, <1>2 DEF Sequential, Reaches

LEMMA SequentialStep == TypeOK /\ AtWork /\ Sequential /\ [Next]_vars => Sequential'
<1> SUFFICES ASSUME TypeOK, AtWork, Sequential, [Next]_vars PROVE Sequential'
  OBVIOUS
<1>0. ASSUME UNCHANGED <<queue, current, runtime, job>>, pc'.worker = pc.worker
      PROVE  Sequential'
  BY <1>0, SequentialKept DEF Base
<1>1. CASE HostTurn \/ HostRewind \/ HostNewSession
  <2>1. PICK j \in Job : /\ queue' = Append(queue, j) /\ current' = j.session
                         /\ Reaches(current, j)
    <3>1. CASE HostTurn \/ HostRewind
      <4>1. /\ [kind |-> "turn", session |-> current] \in Job
            /\ [kind |-> "rewind", session |-> current] \in Job /\ current <= current
        BY ProviderAssumption DEF TypeOK, Job, Sessions
      <4> QED  BY <3>1, <4>1 DEF HostTurn, HostRewind, Reaches
    <3>2. CASE HostNewSession
      <4>1. [kind |-> "boundary", session |-> current + 1] \in Job
            /\ current < current + 1 /\ current <= current + 1
        BY <3>2, ProviderAssumption DEF HostNewSession, TypeOK, Job, Sessions
      <4>2. PICK j \in Job : j = [kind |-> "boundary", session |-> current + 1]
        BY <4>1
      <4>3. Reaches(current, j) /\ j.session = current + 1
        BY <4>1, <4>2 DEF Reaches
      <4> QED  BY <3>2, <4>2, <4>3 DEF HostNewSession
    <3> QED  BY <1>1, <3>1, <3>2
  <2>2. UNCHANGED <<job, runtime, pc>>
    BY <1>1 DEF HostTurn, HostRewind, HostNewSession, switchVars
  <2> QED  BY <2>1, <2>2, SequentialAppend
<1>2. CASE SyncTurn
  <2>1. queue # <<>> /\ queue' = Tail(queue) /\ UNCHANGED <<current, runtime, pc, job>>
    BY <1>2 DEF SyncTurn, Takes, switchVars
  <2> QED  BY <2>1, SequentialTail DEF Base
<1>3. CASE StartBoundary \/ StartRewind
  <2>1. /\ queue # <<>> /\ queue' = Tail(queue) /\ job' = Head(queue)
        /\ pc'.worker = "drain" /\ UNCHANGED <<current, runtime>>
    BY <1>3 DEF StartBoundary, StartRewind, Takes, TypeOK, switchVars
  <2> QED  BY <2>1, SequentialTail DEF Base
<1>4. ASSUME NEW d \in Drainers, Drain(d) \/ DrainTimesOut(d) PROVE Sequential'
  <2>1. CASE DrainNext(d)
    BY <1>0, <2>1 DEF DrainNext, switchVars
  <2>2. CASE GivesUp(d)
    <3>1. UNCHANGED <<queue, current, runtime>>
      BY <2>2 DEF GivesUp, switchVars
    <3>2. \/ pc'.worker = "idle"
          \/ pc'.worker = pc.worker /\ job' = job
      BY <2>2 DEF GivesUp, TypeOK, Drainers
    <3> QED  BY <3>1, <3>2, SequentialKept DEF Base
  <2>3. CASE DrainDone(d)
    <3>1. pc[d] = "drain" /\ UNCHANGED <<queue, current, job, runtime>>
      BY <2>3 DEF DrainDone, switchVars
    <3>2. pc'.worker = pc.worker \/ (pc.worker = "drain" /\ pc'.worker = "bind")
      <4>1. CASE d = "worker"
        BY <2>3, <3>1, <4>1 DEF DrainDone, TypeOK
      <4>2. CASE d = "host"
        BY <2>3, <4>2 DEF DrainDone, TypeOK
      <4> QED  BY <1>4, <4>1, <4>2 DEF Drainers
    <3> QED  BY <3>1, <3>2, SequentialKept DEF Base
  <2> QED  BY <1>4, <2>1, <2>2, <2>3 DEF Drain, DrainRaises, DrainTimesOut
<1>5. CASE Bind
  <2>1. /\ pc.worker = "bind" /\ pc'.worker = "rename" /\ runtime' = job.session
        /\ UNCHANGED <<queue, current, job>>
    BY <1>5 DEF Bind, At, TypeOK
  <2> QED  BY <2>1, SequentialKept DEF Base
<1>6. CASE Rename \/ Scan \/ Evict
  <2>1. /\ pc.worker # "idle" /\ UNCHANGED <<queue, current, runtime>>
        /\ pc'.worker = "idle" \/ (pc'.worker # "idle" /\ job' = job)
    BY <1>6 DEF Rename, Scan, Evict, At, TypeOK
  <2> QED  BY <2>1, SequentialKept DEF Base
<1>7. CASE HostNote \/ Pool
  BY <1>0, <1>7 DEF HostNote, Pool, TaskStart, TaskEnd, switchVars
<1>8. CASE PrefetchCall \/ Prefetch
  BY <1>0, <1>8 DEF PrefetchCall, Prefetch, PrefetchRuntime, PrefetchRead, PrefetchPut,
                    PrefetchHit, PrefetchRaises, switchVars
<1>9. CASE Shutdown \/ Close
  BY <1>0, <1>9 DEF Shutdown, Close, TypeOK, switchVars
<1>10. CASE UNCHANGED vars
  BY <1>0, <1>10 DEF vars
<1> QED
  BY <1>1, <1>2, <1>3, <1>4, <1>5, <1>6, <1>7, <1>8, <1>9, <1>10
     DEF Next, Host, Worker, Teardown, TimeOut, Drainers

(* The namespace is never ahead of the provider, nor therefore of the host.*)
Trailing == namespace \in Nat /\ namespace <= runtime

LEMMA TrailingStep ==
  TypeOK /\ AtWork /\ Bound /\ Sequential /\ Trailing /\ [Next]_vars => Trailing'
<1> SUFFICES ASSUME TypeOK, AtWork, Bound, Sequential, Trailing, [Next]_vars
             PROVE  Trailing'
  OBVIOUS
<1>0. ASSUME UNCHANGED <<runtime, namespace>> PROVE Trailing'
  BY <1>0 DEF Trailing
<1>1. CASE Bind
  <2>1. runtime' = job.session /\ namespace' = namespace /\ Base = job.session
    BY <1>1 DEF Bind, At, Base
  <2> QED  BY <2>1, Numbered DEF Sequential, Trailing
<1>2. CASE Rename
  <2>1. namespace' = runtime /\ runtime' = runtime
    BY <1>2 DEF Rename, At, Bound
  <2> QED  BY <2>1, Numbered DEF Trailing
<1>3. CASE Host \/ SyncTurn \/ StartBoundary \/ StartRewind
  BY <1>0, <1>3 DEF Host, HostTurn, HostNewSession, HostRewind, HostNote, SyncTurn,
                    StartBoundary, StartRewind, switchVars
<1>4. ASSUME NEW d \in Drainers, Drain(d) \/ DrainTimesOut(d) PROVE Trailing'
  BY <1>0, <1>4 DEF Drain, DrainNext, DrainRaises, DrainTimesOut, GivesUp, DrainDone,
                    switchVars
<1>5. CASE Scan \/ Evict \/ Pool \/ Shutdown \/ Close
  BY <1>0, <1>5 DEF Scan, Evict, Pool, TaskStart, TaskEnd, Shutdown, Close, switchVars
<1>6. CASE PrefetchCall \/ Prefetch
  BY <1>0, <1>6 DEF PrefetchCall, Prefetch, PrefetchRuntime, PrefetchRead, PrefetchPut,
                    PrefetchHit, PrefetchRaises, switchVars
<1>7. CASE UNCHANGED vars
  BY <1>0, <1>7 DEF vars
<1> QED
  BY <1>1, <1>2, <1>3, <1>4, <1>5, <1>6, <1>7
     DEF Next, Worker, Teardown, TimeOut, Drainers

(* What NotesFiled says of the rows mirrored holds of every row that a task*)
(* was given.                                                              *)
Filed(row) == /\ row.filed <= row.session
              /\ ~row.early /\ ~upset => row.filed = row.session
RowsFiled == \A t \in 1..Len(rows) : Filed(rows[t])

Orderly == TypeOK /\ AtWork /\ Bound /\ InOrder /\ Sequential /\ Trailing

(* A note that no boundary was due before belongs to where the provider is.*)
LEMMA NoteFiled ==
  ASSUME Orderly
  PROVE  /\ namespace <= current
         /\ ~BoundaryDue /\ ~upset => namespace = current
<1>1. namespace <= current
  BY Numbered DEF Orderly, Sequential, Trailing
<1>2. ASSUME ~BoundaryDue, ~upset PROVE namespace = current
  <2>1. Len(queue) \in Nat /\ \A k \in 1..Len(queue) : queue[k].kind # "boundary"
    BY <1>2 DEF BoundaryDue, Orderly, TypeOK
  <2>2. Base = current
    BY <1>2, <2>1 DEF Orderly, InOrder, Ordered, Before
  <2>3. namespace = Base
    BY <1>2 DEF BoundaryDue, Orderly, InOrder, Ordered, Bound, Base, WorkerStates
  <2> QED  BY <2>2, <2>3
<1> QED  BY <1>1, <1>2

(* The summary of the session that a boundary ends belongs there too.      *)
LEMMA SummaryFiled ==
  ASSUME Orderly, Takes("boundary")
  PROVE  /\ namespace <= Head(queue).session - 1
         /\ ~upset => namespace = Head(queue).session - 1
<1>1. /\ pc.worker = "idle" /\ Head(queue) = queue[1] /\ 1 \in 1..Len(queue)
      /\ queue[1].kind = "boundary"
  BY DEF Takes, Orderly, TypeOK
<1>2. /\ namespace = Base /\ Base \in Nat /\ queue[1].session \in Nat
  BY <1>1, Numbered DEF Orderly, Bound, Base
<1>3. Base < queue[1].session
  BY <1>1 DEF Orderly, Sequential, Reaches
<1>4. ~upset => queue[1].session = Base + 1
  BY <1>1 DEF Orderly, InOrder, Ordered, Follows, Before
<1> QED  BY <1>1, <1>2, <1>3, <1>4

LEMMA RowsFiledStep == Orderly /\ RowsFiled /\ [Next]_vars => RowsFiled'
<1> SUFFICES ASSUME Orderly, RowsFiled, [Next]_vars PROVE RowsFiled'
  OBVIOUS
<1>0. ASSUME rows' = rows, upset => upset' PROVE RowsFiled'
  BY <1>0 DEF RowsFiled, Filed
<1>1. ASSUME NEW session, NEW early, Submit(session, early), upset' = upset,
             namespace <= session, ~early /\ ~upset => namespace = session
      PROVE  RowsFiled'
  <2>1. PICK new : new = [session |-> session, filed |-> namespace, early |-> early]
    OBVIOUS
  <2>2. rows' = Append(rows, new)
    BY <1>1, <2>1 DEF Submit
  <2>3. /\ new.filed <= new.session
        /\ ~new.early /\ ~upset => new.filed = new.session
    BY <1>1, <2>1
  <2>4. \A t \in 1..Len(rows') :
          rows'[t] = new \/ (t \in 1..Len(rows) /\ rows'[t] = rows[t])
    BY <2>2 DEF Orderly, TypeOK
  <2> QED  BY <1>1, <2>3, <2>4 DEF RowsFiled, Filed
<1>2. CASE HostNote
  BY <1>1, <1>2, NoteFiled DEF HostNote
<1>3. CASE StartBoundary
  BY <1>0, <1>1, <1>3, SummaryFiled DEF StartBoundary
<1>4. CASE HostTurn \/ HostNewSession \/ HostRewind \/ SyncTurn \/ StartRewind
  BY <1>0, <1>4 DEF HostTurn, HostNewSession, HostRewind, SyncTurn, StartRewind, poolVars
<1>5. ASSUME NEW d \in Drainers, Drain(d) \/ DrainTimesOut(d) PROVE RowsFiled'
  BY <1>0, <1>5 DEF Drain, DrainNext, DrainRaises, DrainTimesOut, GivesUp, DrainDone
<1>6. CASE Bind \/ Rename \/ Scan \/ Evict
  BY <1>0, <1>6 DEF Bind, Rename, Scan, Evict, poolVars
<1>7. CASE Pool \/ Shutdown \/ Close
  BY <1>0, <1>7 DEF Pool, TaskStart, TaskEnd, Shutdown, Close, poolVars
<1>8. CASE PrefetchCall \/ Prefetch
  BY <1>0, <1>8 DEF PrefetchCall, Prefetch, PrefetchRuntime, PrefetchRead, PrefetchPut,
                    PrefetchHit, PrefetchRaises, poolVars
<1>9. CASE UNCHANGED vars
  BY <1>0, <1>9 DEF vars
<1> QED
  BY <1>2, <1>3, <1>4, <1>5, <1>6, <1>7, <1>8, <1>9
     DEF Next, Host, Worker, Teardown, TimeOut, Drainers

(* A summary is filed under the session it sums up, and a note under the   *)
(* one it was taken in unless a boundary before that was still due, if     *)
(* nothing failed and no wait was given up; and in any case neither is     *)
(* filed under a later session than its own (NotesFiled).                  *)
THEOREM NotesAreFiled == Spec => []NotesFiled
<1>1. Init => Sequential /\ Trailing /\ RowsFiled
  BY DEF Init, Sequential, Base, Trailing, RowsFiled
<1>2. TypeOK /\ RowsFiled => NotesFiled
  BY DEF TypeOK, RowsFiled, Filed, NotesFiled
<1>3. Init => Orderly /\ RowsFiled
  <2>1. Init => InOrder
    BY DEF Init, InOrder, Ordered, Follows, Before, Base
  <2> QED  BY <1>1, <2>1, TypedInit, BoundInit DEF Orderly
<1>4. Orderly /\ [Next]_vars => Orderly'
  BY TypedStep, BoundStep, InOrderStep, SequentialStep, TrailingStep DEF Orderly
<1>5. Orderly => TypeOK
  BY DEF Orderly
<1> QED  BY <1>2, <1>3, <1>4, <1>5, RowsFiledStep, PTL DEF Spec
-----------------------------------------------------------------------------
(* The provider follows the host in the order of its sessions, whatever    *)
(* fails on the way: it never goes back, writes no turn of a session that  *)
(* it has left, promotes only those of the session it is bound to, and does*)
(* nothing once it is closed (BindingKept).                                *)
THEOREM ProviderImplementsBinding == Spec => BindingKept
<1> DEFINE filed == {[session |-> turn.filed, promoted |-> turn.promoted] : turn \in turns}
           mapped == <<current, runtime, filed, store = "open">>
           Inv == TypeOK /\ AtWork /\ Bound /\ Stopping /\ Sequential
<1>1. Init => Inv
  <2>1. Init => Sequential
    BY DEF Init, Sequential, Base
  <2> QED  BY <2>1, TypedInit, BoundInit, StoppingInit
<1>2. Inv /\ [Next]_vars => Inv'
  BY TypedStep, BoundStep, StoppingStep, SequentialStep
<1>3. Init => Binding!Init
  BY DEF Init, Binding!Init
<1>4. Inv /\ [Next]_vars => [Binding!Next]_Binding!vars
  <2> SUFFICES ASSUME Inv, [Next]_vars PROVE Binding!Next \/ mapped' = mapped
    BY DEF Binding!vars
  <2>1. ASSUME UNCHANGED <<current, runtime, turns, store>> PROVE mapped' = mapped
    BY <2>1
  <2>2. pc.host = "serving" \/ pc.host = "wait" => store = "open"
    BY DEF Stopping, TypeOK
  <2>3. queue # <<>> \/ pc.worker # "idle" => store = "open"
    BY <2>2 DEF Stopping
  <2>4. CASE HostNewSession
    <3>1. store = "open" /\ current' = current + 1 /\ UNCHANGED <<runtime, turns, store>>
      BY <2>2, <2>4 DEF HostNewSession, Serving, switchVars
    <3> QED  BY <3>1 DEF Binding!Next, Binding!Advance
  <2>5. CASE SyncTurn
    <3>1. /\ queue # <<>> /\ pc.worker = "idle" /\ namespace = runtime
          /\ UNCHANGED <<current, runtime, store>>
      BY <2>5 DEF SyncTurn, Takes, Bound, switchVars
    <3>2. PICK s : /\ s = Head(queue).session
                   /\ turns' = turns \cup {[session |-> s, filed |-> s,
                                            promoted |-> s = runtime]}
      BY <2>5, <3>1 DEF SyncTurn, Resolved
    <3>3. s = queue[1].session /\ 1 \in 1..Len(queue) /\ s \in Nat
      BY <3>1, <3>2, Numbered DEF TypeOK
    <3>4. s \in runtime..current
      BY <3>1, <3>3, Numbered DEF Sequential, Reaches, Base
    <3>5. filed' = filed \cup {[session |-> s, promoted |-> s = runtime]}
      <4> DEFINE Abs(turn) == [session |-> turn.filed, promoted |-> turn.promoted]
      <4>1. PICK new : new = [session |-> s, filed |-> s, promoted |-> s = runtime]
        OBVIOUS
      <4>2. turns' = turns \cup {new} /\ Abs(new) = [session |-> s, promoted |-> s = runtime]
        BY <3>2, <4>1
      <4>3. filed = {Abs(turn) : turn \in turns} /\ filed' = {Abs(turn) : turn \in turns'}
        OBVIOUS
      <4> HIDE DEF Abs, filed
      <4> QED  BY <4>2, <4>3
    <3>6. Binding!File(s)
      BY <2>3, <3>1, <3>5 DEF Binding!File
    <3> QED  BY <3>4, <3>6 DEF Binding!Next
  <2>6. CASE Bind
    <3>1. /\ pc.worker = "bind" /\ runtime' = job.session
          /\ UNCHANGED <<current, turns, store>>
      BY <2>6 DEF Bind, At
    <3>2. job.session \in runtime..current
      BY <3>1, Numbered DEF Sequential, Base
    <3>3. Binding!Bind(job.session)
      BY <2>3, <3>1 DEF Binding!Bind
    <3> QED  BY <3>2, <3>3 DEF Binding!Next
  <2>7. CASE Close
    <3>1. store = "open" /\ store' = "closed" /\ UNCHANGED <<current, runtime, turns>>
      BY <2>2, <2>7 DEF Close, switchVars
    <3> QED  BY <3>1 DEF Binding!Next, Binding!Close
  <2>8. CASE HostTurn \/ HostRewind \/ HostNote \/ StartBoundary \/ StartRewind
    BY <2>1, <2>8 DEF HostTurn, HostRewind, HostNote, StartBoundary, StartRewind, switchVars
  <2>9. ASSUME NEW d \in Drainers, Drain(d) \/ DrainTimesOut(d) PROVE mapped' = mapped
    BY <2>1, <2>9 DEF Drain, DrainNext, DrainRaises, DrainTimesOut, GivesUp, DrainDone,
                      switchVars
  <2>10. CASE Rename \/ Scan \/ Evict \/ Pool \/ Shutdown
    BY <2>1, <2>10 DEF Rename, Scan, Evict, Pool, TaskStart, TaskEnd, Shutdown, switchVars
  <2>11. CASE PrefetchCall \/ Prefetch
    BY <2>1, <2>11 DEF PrefetchCall, Prefetch, PrefetchRuntime, PrefetchRead, PrefetchPut,
                       PrefetchHit, PrefetchRaises, switchVars
  <2>12. CASE UNCHANGED vars
    BY <2>1, <2>12 DEF vars
  <2> QED
    BY <2>4, <2>5, <2>6, <2>7, <2>8, <2>9, <2>10, <2>11, <2>12
       DEF Next, Host, Worker, Teardown, TimeOut, Drainers
<1> QED
  BY <1>1, <1>2, <1>3, <1>4, PTL DEF Spec, BindingKept, Binding!Spec
=============================================================================
