------------------------------- MODULE Access -------------------------------
(***************************************************************************)
(* Who gets to see what.  People talk to providers that share one memory   *)
(* table; a provider knows its caller only through the request its runtime *)
(* was resolved from.  The rows remember, as history, who said what they   *)
(* hold and on which platform; the code has no such columns.               *)
(*                                                                         *)
(* A runtime never depends on the table, so the providers that share it    *)
(* are one provider initialized again and again.  Its cache outlives that, *)
(* as it does in the code; what another provider keeps in a cache of its   *)
(* own, this one keeps when its switches are not resets.  Expiry,          *)
(* supersession, ranking and limits only take rows out of a recall and are *)
(* left out: what is Recalled here is the most that assembling a recall    *)
(* can find, and any part of it may be what is shown and cached.           *)
(***************************************************************************)
EXTENDS Policy, Naturals, FiniteSets

CONSTANTS
  People,
  Signals,             \* the identities that are a person's
  Owned,               \* the sessions a person takes part in
  Requests,            \* the requests a person's sessions are started with
  Configs,             \* the configurations to look at
  MaintenanceSession,  \* a session "maintenance:<date>:<principal>"
  SwitchPersons,       \* can a session switch hand a provider to somebody else?
  MaxRows              \* bound on the rows of the table and of cached recalls

Named(k) ==
  {k.email, k.id, k.alt, k.header.email, k.header.id,
   k.body, k.sidecar.email, k.sidecar.id} \cap Identities

ASSUME AccessAssumption ==
  /\ Signals \in [People -> SUBSET Identities]
  /\ Owned \in [People -> SUBSET (Sessions \ {MaintenanceSession})]
  /\ Requests \in [People -> SUBSET Request]
  /\ \A p \in People : \A k \in Requests[p] : Named(k) \subseteq Signals[p]
  /\ \A p, q \in People : p # q => /\ Signals[p] \cap Signals[q] = {}
                                   /\ Owned[p] \cap Owned[q] = {}
  /\ Configs \subseteq Config
  /\ MaintenanceSession \in Sessions
  /\ "gateway" \in Platforms
  /\ MaxRows \in Nat

VARIABLES
  config,    \* ProviderConfig
  caller,    \* history: who the provider's current session belongs to
  runtime,   \* _runtime; _namespace is NamespaceOf(config, runtime)
  rows,      \* the memories table
  cache      \* _prefetch_cache: what recalls showed, by their keys

vars == <<config, caller, runtime, rows, cache>>

Row ==
  [layer : {"episodic", "semantic_user", "semantic_shared"},
   principal : Identities \cup {Shared}, session : Sessions, platform : Platforms,
   source : Sources, gateway : BOOLEAN, context : Contexts, asked : BOOLEAN,
   authors : SUBSET People, origins : SUBSET Platforms]

(* One row that a recall shows, with what matters of the key the recall is *)
(* cached under.  The platform it was assembled on is no part of that key, *)
(* it is remembered as history.                                            *)
Answer ==
  [principal : Identities \cup {Shared}, session : Sessions, platform : Platforms,
   row : Row]

TypeOK ==
  /\ config \in Config
  /\ caller \in People
  /\ runtime \in Runtime
  /\ rows \subseteq Row
  /\ cache \subseteq Answer
-----------------------------------------------------------------------------
RowOf(ns, layer, principal, asked, authors, origins) ==
  [layer |-> layer, principal |-> principal, session |-> ns.session,
   platform |-> ns.platform, source |-> ns.source, gateway |-> ns.gateway,
   context |-> ns.context, asked |-> asked, authors |-> authors, origins |-> origins]
Said(ns, layer, principal, said) ==
  RowOf(ns, layer, principal, Requested(ns, said), {caller}, {ns.platform})

(* The durable row a decision leads to, if it leads to one.                *)
Durable(ns, decision, said) ==
  IF decision.allowed THEN {Said(ns, decision.layer, decision.principal, said)} ELSE {}

Store(new) ==
  /\ Cardinality(rows \cup new) + Cardinality(cache) <= MaxRows
  /\ rows' = rows \cup new

Init ==
  /\ config \in Configs
  /\ rows = {}
  /\ cache = {}
  /\ \E p \in People : \E s \in Owned[p], k \in Requests[p] :
       caller = p /\ runtime = RuntimeOf(s, k)

Initialize(p) ==
  /\ caller' = p
  /\ \E s \in Owned[p], k \in Requests[p] : runtime' = RuntimeOf(s, k)
  /\ UNCHANGED <<config, rows, cache>>

(* A reset or a rewind drops the recalls of the session it leaves or that  *)
(* it starts over; any other switch keeps the cache as it is.              *)
OnSessionSwitch(p) ==
  /\ p = caller \/ SwitchPersons
  /\ caller' = p
  /\ \E s \in Owned[p], k \in Requests[p] :
       /\ runtime' = Rebind(runtime, s, k)
       /\ \/ UNCHANGED cache
          \/ \E stale \in {runtime.session, s} :
               cache' = {answer \in cache : answer.session # stale}
  /\ UNCHANGED <<config, rows>>

(* _active_namespace: the current session, or another one of the caller's  *)
(* with what its sidecar file holds at the moment.                         *)
Sidecars == {k.sidecar : k \in Requests[caller]}
Active(s, sidecar) == NamespaceOf(config, ActiveRuntime(runtime, s, sidecar))

(* sync_turn and consolidate_turn: the turn is recorded; what it is found  *)
(* to say is promoted, unless the turn is of another session than the one  *)
(* the provider is bound to.                                               *)
SyncTurn ==
  /\ \E s \in Owned[caller], sidecar \in Sidecars, said, promoted \in BOOLEAN :
       LET ns == Active(s, sidecar)
       IN Store({Said(ns, "episodic", ns.principal, said)}
                \cup IF promoted /\ s = runtime.session
                     THEN Durable(ns, PromotionDecision(config, ns, said), said)
                     ELSE {})
  /\ UNCHANGED <<config, caller, runtime, cache>>

(* on_memory_write and on_session_end, through mirror_memory.              *)
Mirror ==
  /\ \E said \in BOOLEAN :
       LET ns == NamespaceOf(config, runtime)
       IN Store(Durable(ns, MemoryWriteDecision(config, ns, said), said))
  /\ UNCHANGED <<config, caller, runtime, cache>>

(* compact_daily over list_user_principals: rows of one principal, those   *)
(* of the day that the limit lets through, become one summary of theirs.   *)
Summary(ns, decision, part) ==
  RowOf(ns, decision.layer, decision.principal, FALSE,
        UNION {row.authors : row \in part}, UNION {row.origins : row \in part})
UserRows(principal) ==
  {row \in rows : row.layer = "semantic_user" /\ row.principal = principal}
Compact ==
  /\ \E row \in rows :
       LET ns == MaintenanceNamespace(config, row.principal, row.source, MaintenanceSession)
           decision == MaintenanceDecision(ns, ns.principal)
       IN /\ row.layer = "semantic_user"
          /\ decision.allowed
          /\ \E part \in SUBSET UserRows(ns.principal) \ {{}} :
               Store({Summary(ns, decision, part)})
  /\ UNCHANGED <<config, caller, runtime, cache>>

(* assemble_recall, over every scope.                                      *)
Recalled(s, sidecar) ==
  LET ns == Active(s, sidecar)
  IN {row \in rows : \E scope \in RecallScopes(config, ns) : InScope(scope, row)}

AnswerFor(ns, row) ==
  [principal |-> ns.principal, session |-> ns.session, platform |-> ns.platform,
   row |-> row]

(* prefetch finds nothing under its key, assembles a recall and keeps it.  *)
Prefetch ==
  /\ \E s \in Owned[caller], sidecar \in Sidecars :
       \E shown \in SUBSET Recalled(s, sidecar) :
         LET kept == cache \cup {AnswerFor(Active(s, sidecar), row) : row \in shown}
         IN /\ Cardinality(rows) + Cardinality(kept) <= MaxRows
            /\ cache' = kept
  /\ UNCHANGED <<config, caller, runtime, rows>>

(* Mutant of Answers: the key of the cache has no session.                 *)
AnswersAnySession(s, sidecar) ==
  LET ns == Active(s, sidecar)
  IN {AnswerFor(ns, row) : row \in Recalled(s, sidecar)}
     \cup {answer \in cache : answer.principal = ns.principal}

(* What prefetch can answer: a recall assembled now, or one it finds in    *)
(* the cache under the same principal and session.                         *)
Answers(s, sidecar) ==
  LET ns == Active(s, sidecar)
  IN {AnswerFor(ns, row) : row \in Recalled(s, sidecar)}
     \cup {answer \in cache :
              answer.principal = ns.principal /\ answer.session = ns.session}

Next ==
  \/ \E p \in People : Initialize(p) \/ OnSessionSwitch(p)
  \/ SyncTurn
  \/ Mirror
  \/ Compact
  \/ Prefetch

Spec == Init /\ [][Next]_vars
-----------------------------------------------------------------------------
(* Outside the workspace pool a recall shows a person only what that same  *)
(* person said: whatever identities a request names or leaves out, across  *)
(* sessions, switches, promotions and summaries, from the table or from    *)
(* the cache, and also for callers who name no identity and are all filed  *)
(* under the shared principal.                                             *)
PrivateRecall ==
  \A s \in Owned[caller], sidecar \in Sidecars : \A answer \in Answers(s, sidecar) :
    answer.row.layer # "semantic_shared" => answer.row.authors \subseteq {caller}

(* What a gateway caller puts into the workspace pool, by promotion or by  *)
(* mirroring, comes from the primary context of somebody on the writer     *)
(* list, and was asked for where the configuration demands it.             *)
SharedVouched ==
  \A row \in rows :
    row.layer = "semantic_shared" /\ row.gateway =>
      /\ row.context = "primary"
      /\ config.explicit => row.asked
      /\ \A p \in row.authors : Signals[p] \cap config.writers # {}

(* Outside the primary context nothing durable is left behind unless the   *)
(* configuration allows it, except by maintenance, and that never writes   *)
(* outside the user layer.                                                 *)
NonPrimaryConfined ==
  \A row \in rows :
    IF row.session = MaintenanceSession THEN row.layer = "semantic_user"
    ELSE row.context # "primary" /\ row.layer # "episodic" => config.nonPrimary

(* The two ways into durable memory agree on whether and where something   *)
(* is kept, although they test their conditions in different orders.       *)
DecisionsAgree ==
  \A said \in BOOLEAN :
    LET ns == NamespaceOf(config, runtime)
        one == PromotionDecision(config, ns, said)
        other == MemoryWriteDecision(config, ns, said)
    IN one.allowed = other.allowed /\ one.layer = other.layer
       /\ one.principal = other.principal

(* A user row is filed under an identity of everybody whose words it       *)
(* holds, never under the shared principal and never for an unidentified   *)
(* caller; a summary keeps that.                                           *)
PrincipalOwned ==
  \A row \in rows :
    row.layer = "semantic_user" => \A p \in row.authors : row.principal \in Signals[p]

(* After a switch reads and writes are under the identity of the session   *)
(* switched to (openspec memory-namespace-routing: "subsequent reads and   *)
(* writes use the new session identity").                                  *)
PrincipalIsCallers == NamespaceOf(config, runtime).principal \in Signals[caller] \cup {Shared}

(* With recall_platform_scoped a recall is assembled, of the caller's own  *)
(* memory, from what was said on the platform it is assembled on           *)
(* ("restricts recall of a user's own memory to the current platform"),    *)
(* whatever session is asked for and whatever runtime its namespace was    *)
(* made from.  It is the current platform as long as the recall is not     *)
(* from the cache: a cached one is served on the platform the session has  *)
(* moved to as well.  Summaries are left out: they hold what was said on   *)
(* every platform and are filed under "gateway".                           *)
PlatformScoped ==
  config.scoped =>
    \A s \in Owned[caller], sidecar \in Sidecars : \A answer \in Answers(s, sidecar) :
      /\ answer \in cache \/ answer.platform = Active(s, sidecar).platform
      /\ answer.row.layer # "semantic_shared" /\ answer.row.session # MaintenanceSession
           => answer.row.origins \subseteq {answer.platform}

(* A provider that knows who calls, or that talks to nobody but its local  *)
(* user, finds the same memory whichever session a call names: the sidecar *)
(* of that session does not change the principal, nor does anything that   *)
(* is carried over get lost on the way.                                    *)
OneMemory ==
  runtime.platform = "cli" \/ {runtime.email, runtime.id} # {NoIdentity} =>
    \A s \in Owned[caller], sidecar \in Sidecars :
      Active(s, sidecar) = [NamespaceOf(config, runtime) EXCEPT !.session = s]

(* What a call writes, into whichever layer a decision sends it, is within *)
(* the scopes of the recall that is assembled for its session next, with   *)
(* or without an identity and on whatever platform: no memory is kept that *)
(* the one who wrote it cannot reach.  A recall from the cache is older    *)
(* and need not show it.                                                   *)
WrittenIsReachable ==
  \A row \in rows' \ rows :
    row.session # MaintenanceSession =>
      \E sidecar \in Sidecars' : row \in Recalled(row.session, sidecar)'
ReadYourWrites == [][WrittenIsReachable]_vars
=============================================================================
