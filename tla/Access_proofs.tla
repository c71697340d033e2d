---------------------------- MODULE Access_proofs ----------------------------
(***************************************************************************)
(* Proofs about Access, for any number of people, identities, sessions,    *)
(* platforms, requests and configurations.                                 *)
(***************************************************************************)
EXTENDS Access, TLAPS

Within(rt, signals) == {rt.email, rt.id, rt.alt} \cap Identities \subseteq signals

Namespaces ==
  [principal : Identities \cup {Shared}, source : Sources, gateway : BOOLEAN,
   session : Sessions, platform : Platforms, context : Contexts,
   email : Optional, shared : Intents]
-----------------------------------------------------------------------------
(* What a request resolves to names nobody the request does not name.      *)
LEMMA RuntimeOfRequest ==
  ASSUME NEW signals, NEW s \in Sessions, NEW k \in Request, Named(k) \subseteq signals
  PROVE  /\ RuntimeOf(s, k) \in Runtime
         /\ Within(RuntimeOf(s, k), signals)
         /\ RuntimeOf(s, k).session = s
<1> DEFINE email == Or(k.email, k.header.email)
           id == Or(k.id, k.header.id)
           alt == Or(k.alt, NoIdentity)
<1>1. /\ k.email \in Optional \cup {Absent} /\ k.id \in Optional \cup {Absent}
      /\ k.alt \in Optional \cup {Absent}
      /\ k.header.email \in Optional /\ k.header.id \in Optional
      /\ k.header.platform \in Platforms \cup {Absent}
      /\ k.body \in Optional
      /\ k.sidecar.email \in Optional /\ k.sidecar.id \in Optional
      /\ k.platform \in Platforms \cup {Absent}
      /\ k.context \in Contexts \cup {Absent}
      /\ k.shared \in Intents \cup {Absent}
  BY DEF Request
<1>2. \A x \in {k.email, k.id, k.alt, k.header.email, k.header.id,
                k.body, k.sidecar.email, k.sidecar.id} :
        x \in Identities => x \in signals
  BY DEF Named
<1>3. /\ email \in Optional /\ id \in Optional /\ alt \in Optional
      /\ \A x \in {email, id, alt} : x \in Identities => x \in signals
  BY <1>1, <1>2, NamespaceAssumption DEF Or, Optional, NamespaceAssumption
<1>4. PlatformOf(k) \in Platforms
  BY <1>1, NamespaceAssumption DEF PlatformOf, Get, NamespaceAssumption
<1>5. /\ Get(k.context, "primary") \in Contexts
      /\ Get(k.shared, "unset") \in Intents
  BY <1>1 DEF Get, Contexts, Intents
<1>6. /\ Or(k.body, k.sidecar.email) \in Optional
      /\ Or(k.body, k.sidecar.email) \in Identities => Or(k.body, k.sidecar.email) \in signals
  BY <1>1, <1>2, NamespaceAssumption DEF Or, Optional, NamespaceAssumption
<1>7. PICK e, i : /\ e = RuntimeOf(s, k).email /\ e \in {email, Or(k.body, k.sidecar.email)}
                  /\ i = RuntimeOf(s, k).id /\ i \in {id, k.sidecar.id}
  BY DEF RuntimeOf
<1>8. RuntimeOf(s, k) = [session |-> s, platform |-> PlatformOf(k),
                         context |-> Get(k.context, "primary"), email |-> e, id |-> i,
                         alt |-> alt, shared |-> Get(k.shared, "unset")]
  BY <1>7 DEF RuntimeOf
<1>9. /\ e \in Optional /\ i \in Optional
      /\ \A x \in {e, i, alt} : x \in Identities => x \in signals
  BY <1>1, <1>2, <1>3, <1>6, <1>7
<1>10. RuntimeOf(s, k) \in Runtime
  <2> HIDE DEF alt
  <2> QED  BY <1>3, <1>4, <1>5, <1>8, <1>9 DEF Runtime
<1>11. Within(RuntimeOf(s, k), signals)
  <2> HIDE DEF alt
  <2> QED  BY <1>8, <1>9 DEF Within
<1> QED  BY <1>8, <1>10, <1>11

(* A switch stays within the identities of the runtime and the request,    *)
(* and so does resolving another session id.                               *)
LEMMA MergedRequest ==
  ASSUME NEW signals, NEW rt \in Runtime, NEW k \in Request,
         Within(rt, signals), Named(k) \subseteq signals
  PROVE  Merged(rt, k) \in Request /\ Named(Merged(rt, k)) \subseteq signals
<1>1. /\ rt.email \in Optional /\ rt.id \in Optional /\ rt.alt \in Optional
      /\ rt.platform \in Platforms /\ rt.context \in Contexts /\ rt.shared \in Intents
      /\ k.email \in Optional \cup {Absent} /\ k.id \in Optional \cup {Absent}
      /\ k.alt \in Optional \cup {Absent} /\ k.platform \in Platforms \cup {Absent}
      /\ k.context \in Contexts \cup {Absent} /\ k.shared \in Intents \cup {Absent}
      /\ NoIdentity \in Optional
  BY DEF Runtime, Request, Optional
<1>2. /\ k.header \in [email : Optional, id : Optional, platform : Platforms \cup {Absent}]
      /\ k.sidecar \in [email : Optional, id : Optional]
  BY DEF Request
<1>3. /\ Get(k.email, rt.email) \in Optional \cup {Absent}
      /\ Get(k.id, rt.id) \in Optional \cup {Absent}
      /\ Get(k.alt, rt.alt) \in Optional \cup {Absent}
      /\ Get(k.platform, rt.platform) \in Platforms \cup {Absent}
      /\ Get(k.context, rt.context) \in Contexts \cup {Absent}
      /\ Get(k.shared, rt.shared) \in Intents \cup {Absent}
  BY <1>1 DEF Get
<1>4. Merged(rt, k) \in Request
  BY <1>1, <1>2, <1>3 DEF Merged, Request
<1>5. \A x \in {Get(k.email, rt.email), Get(k.id, rt.id), Get(k.alt, rt.alt)} :
        x \in Identities => x \in signals
  BY DEF Get, Within, Named
<1>6. \A x \in {k.header.email, k.header.id, k.sidecar.email, k.sidecar.id} :
        x \in Identities => x \in signals
  BY DEF Named
<1>7. Named(Merged(rt, k)) \subseteq signals
  BY <1>5, <1>6, NamespaceAssumption DEF Named, Merged, NamespaceAssumption
<1> QED  BY <1>4, <1>7

LEMMA CarriedRequest ==
  ASSUME NEW signals, NEW rt \in Runtime, NEW sidecar \in [email : Optional, id : Optional],
         Within(rt, signals), {sidecar.email, sidecar.id} \cap Identities \subseteq signals
  PROVE  Carried(rt, sidecar) \in Request /\ Named(Carried(rt, sidecar)) \subseteq signals
<1>1. /\ rt.email \in Optional /\ rt.id \in Optional /\ rt.alt \in Optional
      /\ rt.platform \in Platforms /\ rt.context \in Contexts /\ rt.shared \in Intents
      /\ NoIdentity \in Optional
  BY DEF Runtime, Optional
<1>2. Carried(rt, sidecar) \in Request
  BY <1>1 DEF Carried, Request
<1>3. Named(Carried(rt, sidecar)) \subseteq signals
  BY NamespaceAssumption DEF Named, Carried, Within, NamespaceAssumption
<1> QED  BY <1>2, <1>3

(* The namespace of a runtime has one of its identities as its principal,  *)
(* or the shared principal.                                                *)
LEMMA NamespaceOfRuntime ==
  ASSUME NEW signals, NEW c \in Config, NEW rt \in Runtime, Within(rt, signals)
  PROVE  /\ NamespaceOf(c, rt) \in Namespaces
         /\ NamespaceOf(c, rt).principal \in signals \cup {Shared}
         /\ NamespaceOf(c, rt).email \in Identities => NamespaceOf(c, rt).email \in signals
         /\ NamespaceOf(c, rt).session = rt.session
<1>1. /\ rt.email \in Optional /\ rt.id \in Optional /\ rt.alt \in Optional
      /\ rt.platform \in Platforms /\ rt.context \in Contexts /\ rt.shared \in Intents
      /\ rt.session \in Sessions
  BY DEF Runtime
<1>2. /\ GatewayPrincipal(c, rt).who \in Identities \cup {Shared}
      /\ GatewayPrincipal(c, rt).who \in signals \cup {Shared}
      /\ GatewayPrincipal(c, rt).source \in Sources
  BY <1>1 DEF GatewayPrincipal, Within, Optional, Sources
<1>3. IsGateway(c, rt) \in BOOLEAN
  BY DEF IsGateway
<1>4. PICK who, source : /\ who \in Identities \cup {Shared} /\ who \in signals \cup {Shared}
                         /\ source \in Sources
                         /\ NamespaceOf(c, rt).principal = who
                         /\ NamespaceOf(c, rt).source = source
  BY <1>2 DEF NamespaceOf, Sources
<1>5. NamespaceOf(c, rt) =
        [principal |-> who, source |-> source, gateway |-> IsGateway(c, rt),
         session |-> rt.session, platform |-> rt.platform, context |-> rt.context,
         email |-> rt.email, shared |-> rt.shared]
  BY <1>4 DEF NamespaceOf
<1>6. NamespaceOf(c, rt) \in Namespaces
  BY <1>1, <1>3, <1>4, <1>5 DEF Namespaces
<1> QED  BY <1>4, <1>5, <1>6 DEF Within
-----------------------------------------------------------------------------
(* The two decisions about durable memory agree, for every configuration   *)
(* and every namespace (DecisionsAgree).                                   *)
THEOREM SameDecision ==
  ASSUME NEW c \in Config, NEW ns \in Namespaces, NEW said \in BOOLEAN
  PROVE  /\ PromotionDecision(c, ns, said).allowed = MemoryWriteDecision(c, ns, said).allowed
         /\ PromotionDecision(c, ns, said).layer = MemoryWriteDecision(c, ns, said).layer
         /\ PromotionDecision(c, ns, said).principal = MemoryWriteDecision(c, ns, said).principal
BY DEF PromotionDecision, MemoryWriteDecision, SharedWriteAllowed, PrivateUser,
       Denied, ToShared, ToUser

(* What an allowed decision looks like.                                    *)
Rightful(c, ns, said, decision) ==
  /\ decision.allowed \in BOOLEAN
  /\ decision.allowed =>
       /\ ns.context # "primary" => c.nonPrimary
       /\ \/ /\ decision.layer = "semantic_shared" /\ decision.principal = Shared
             /\ ns.gateway => SharedWriteAllowed(c, ns, Requested(ns, said))
          \/ /\ decision.layer = "semantic_user" /\ decision.principal = ns.principal
             /\ ns.principal # Shared

LEMMA RightfulDecision ==
  ASSUME NEW c \in Config, NEW ns \in Namespaces, NEW said \in BOOLEAN
  PROVE  /\ Rightful(c, ns, said, PromotionDecision(c, ns, said))
         /\ Rightful(c, ns, said, MemoryWriteDecision(c, ns, said))
BY DEF Rightful, PromotionDecision, MemoryWriteDecision, SharedWriteAllowed, PrivateUser,
       Denied, ToShared, ToUser

(* Maintenance of a principal is allowed for that principal alone, in its  *)
(* own layer, whatever the source it was resolved from.                    *)
LEMMA MaintenanceOwn ==
  ASSUME NEW c \in Config, NEW who \in Identities \cup {Shared}, NEW source \in Sources,
         NEW ns, ns = MaintenanceNamespace(c, who, source, MaintenanceSession),
         NEW decision, decision = MaintenanceDecision(ns, ns.principal),
         decision.allowed
  PROVE  /\ ns \in Namespaces /\ ns.principal = who /\ who \in Identities
         /\ ns.session = MaintenanceSession
         /\ decision.layer = "semantic_user" /\ decision.principal = who
<1>1. ns.principal # Shared /\ decision = ToUser(ns, "maintenance_same_principal_user")
  BY DEF MaintenanceDecision, Denied
<1> DEFINE email == SplitPrincipal(who, source).email
           id == SplitPrincipal(who, source).id
           alt == SplitPrincipal(who, source).alt
           rt == [session |-> MaintenanceSession, platform |-> "gateway",
                  context |-> "maintenance", email |-> email, id |-> id, alt |-> alt,
                  shared |-> "unset"]
<1>2. ns = NamespaceOf(c, rt)
  BY DEF MaintenanceNamespace
<1>3. /\ {email, id, alt} \subseteq {who, NoIdentity}
      /\ rt.email = email /\ rt.id = id /\ rt.alt = alt
  BY DEF SplitPrincipal
<1>4. ns.principal \in {who, Shared}
  <2> HIDE DEF email, id, alt
  <2>1. GatewayPrincipal(c, rt).who \in {who, Shared}
    BY <1>3 DEF GatewayPrincipal
  <2>2. ns.principal \in {GatewayPrincipal(c, rt).who, Shared}
    BY <1>2 DEF NamespaceOf
  <2> QED  BY <2>1, <2>2
<1>5. ns.principal = who /\ who \in Identities
  BY <1>1, <1>4
<1>6. rt \in Runtime
  <2>1. email \in Optional /\ id \in Optional /\ alt \in Optional
    BY <1>5 DEF SplitPrincipal, Optional
  <2>2. MaintenanceSession \in Sessions /\ "gateway" \in Platforms
    BY AccessAssumption DEF AccessAssumption
  <2> HIDE DEF email, id, alt
  <2> QED  BY <2>1, <2>2 DEF Runtime, Contexts, Intents
<1>7. Within(rt, Identities)
  BY DEF Within
<1>8. ns \in Namespaces /\ ns.session = MaintenanceSession
  <2> HIDE DEF email, id, alt
  <2>1. rt.session = MaintenanceSession
    OBVIOUS
  <2> HIDE DEF rt
  <2> QED  BY <1>2, <1>6, <1>7, <2>1, NamespaceOfRuntime
<1> QED  BY <1>1, <1>5, <1>8 DEF ToUser
-----------------------------------------------------------------------------
(* The namespace a call is resolved to.                                    *)
LEMMA ActiveNamespace ==
  ASSUME TypeOK, NEW s \in Owned[caller], NEW sidecar \in Sidecars,
         NEW signals, Within(runtime, signals), Signals[caller] \subseteq signals
  PROVE  /\ Active(s, sidecar) \in Namespaces
         /\ Active(s, sidecar).principal \in signals \cup {Shared}
         /\ Active(s, sidecar).email \in Identities => Active(s, sidecar).email \in signals
         /\ Active(s, sidecar).session = s
<1>1. PICK k \in Requests[caller] : sidecar = k.sidecar
  BY DEF Sidecars
<1>2. k \in Request /\ Named(k) \subseteq Signals[caller] /\ s \in Sessions
  BY AccessAssumption DEF AccessAssumption, TypeOK
<1>3. /\ sidecar \in [email : Optional, id : Optional]
      /\ {sidecar.email, sidecar.id} \cap Identities \subseteq signals
  BY <1>1, <1>2 DEF Request, Named
<1>4. /\ Carried(runtime, sidecar) \in Request
      /\ Named(Carried(runtime, sidecar)) \subseteq signals
  BY <1>3, CarriedRequest DEF TypeOK
<1>5. PICK rt : rt = ActiveRuntime(runtime, s, sidecar)
  OBVIOUS
<1>6. rt \in Runtime /\ Within(rt, signals) /\ rt.session = s
  BY <1>2, <1>4, <1>5, RuntimeOfRequest DEF ActiveRuntime, TypeOK
<1> QED  BY <1>5, <1>6, NamespaceOfRuntime DEF Active, TypeOK

LEMMA SaidRow ==
  ASSUME TypeOK, NEW ns \in Namespaces, NEW said \in BOOLEAN,
         NEW layer \in {"episodic", "semantic_user", "semantic_shared"},
         NEW principal \in Identities \cup {Shared}
  PROVE  Said(ns, layer, principal, said) \in Row
<1>1. /\ ns.session \in Sessions /\ ns.platform \in Platforms /\ ns.source \in Sources
      /\ ns.gateway \in BOOLEAN /\ ns.context \in Contexts
  BY DEF Namespaces
<1>2. Requested(ns, said) \in BOOLEAN
  BY DEF Requested
<1>3. {caller} \subseteq People /\ {ns.platform} \subseteq Platforms
  BY <1>1 DEF TypeOK
<1> QED  BY <1>1, <1>2, <1>3 DEF Said, RowOf, Row

(* A decision leads to at most one row, of the layer and the principal it  *)
(* names.                                                                  *)
LEMMA DurableRow ==
  ASSUME TypeOK, NEW ns \in Namespaces, NEW said \in BOOLEAN,
         NEW decision, Rightful(config, ns, said, decision),
         NEW row \in Durable(ns, decision, said)
  PROVE  /\ row \in Row /\ decision.allowed
         /\ row = Said(ns, decision.layer, decision.principal, said)
<1>1. decision.allowed /\ row = Said(ns, decision.layer, decision.principal, said)
  BY DEF Durable
<1>2. /\ decision.layer \in {"episodic", "semantic_user", "semantic_shared"}
      /\ decision.principal \in Identities \cup {Shared}
  BY <1>1 DEF Rightful, Namespaces
<1> QED  BY <1>1, <1>2, SaidRow

LEMMA SummaryRow ==
  ASSUME TypeOK, NEW ns \in Namespaces, NEW principal \in Identities,
         NEW decision, decision.layer = "semantic_user", decision.principal = principal,
         NEW part \in SUBSET UserRows(principal)
  PROVE  Summary(ns, decision, part) \in Row
<1>1. /\ ns.session \in Sessions /\ ns.platform \in Platforms /\ ns.source \in Sources
      /\ ns.gateway \in BOOLEAN /\ ns.context \in Contexts
  BY DEF Namespaces
<1>2. \A row \in part : row.authors \subseteq People /\ row.origins \subseteq Platforms
  BY DEF TypeOK, Row, UserRows
<1>3. /\ UNION {row.authors : row \in part} \in SUBSET People
      /\ UNION {row.origins : row \in part} \in SUBSET Platforms
  BY <1>2
<1>4. PICK a \in SUBSET People, o \in SUBSET Platforms :
        Summary(ns, decision, part) =
          RowOf(ns, "semantic_user", principal, FALSE, a, o)
  BY <1>3 DEF Summary
<1> QED  BY <1>1, <1>4 DEF RowOf, Row

(* What a new request does: it binds the runtime to a session of its       *)
(* person, and caches nothing.                                             *)
LEMMA RuntimeStep ==
  ASSUME TypeOK, NEW p \in People, Initialize(p) \/ OnSessionSwitch(p)
  PROVE  /\ config' = config /\ rows' = rows /\ caller' = p /\ cache' \subseteq cache
         /\ runtime' \in Runtime /\ runtime'.session \in Owned[p]
         /\ p = caller /\ Within(runtime, Signals[p]) => Within(runtime', Signals[p])
         /\ Initialize(p) => Within(runtime', Signals[p])
<1>1. CASE Initialize(p)
  <2>1. PICK s \in Owned[p], k \in Requests[p] : runtime' = RuntimeOf(s, k)
    BY <1>1 DEF Initialize
  <2>2. s \in Sessions /\ k \in Request /\ Named(k) \subseteq Signals[p]
    BY AccessAssumption DEF AccessAssumption
  <2> QED  BY <1>1, <2>1, <2>2, RuntimeOfRequest DEF Initialize
<1>2. CASE OnSessionSwitch(p) /\ ~Initialize(p)
  <2>1. PICK s \in Owned[p], k \in Requests[p] :
          runtime' = RuntimeOf(s, Merged(runtime, k))
    BY <1>2 DEF OnSessionSwitch, Rebind
  <2>2. s \in Sessions /\ k \in Request /\ Named(k) \subseteq Signals[p]
    BY AccessAssumption DEF AccessAssumption
  <2>3. \A signals : Within(runtime, signals) /\ Named(k) \subseteq signals =>
          /\ runtime' \in Runtime /\ Within(runtime', signals) /\ runtime'.session = s
    BY <2>1, <2>2, MergedRequest, RuntimeOfRequest DEF TypeOK
  <2>6. cache' \subseteq cache
    BY <1>2 DEF OnSessionSwitch
  <2>4. runtime' \in Runtime /\ runtime'.session = s
    BY <2>3, Within(runtime, Identities) /\ Named(k) \subseteq Identities DEF Within, Named
  <2>5. Within(runtime, Signals[p]) => Within(runtime', Signals[p])
    BY <2>2, <2>3
  <2> QED  BY <1>2, <2>4, <2>5, <2>6 DEF OnSessionSwitch
<1> QED  BY <1>1, <1>2

(* What a recall shows is a row of the table, under the principal and the  *)
(* session of the namespace it was assembled for.                          *)
LEMMA AnswerTyped ==
  ASSUME TypeOK, NEW s \in Owned[caller], NEW sidecar \in Sidecars,
         NEW row \in Recalled(s, sidecar)
  PROVE  /\ AnswerFor(Active(s, sidecar), row) \in Answer
         /\ AnswerFor(Active(s, sidecar), row).session = s
         /\ AnswerFor(Active(s, sidecar), row).platform = Active(s, sidecar).platform
         /\ AnswerFor(Active(s, sidecar), row).row = row
<1>1. Within(runtime, Identities) /\ Signals[caller] \subseteq Identities
  BY AccessAssumption DEF Within, AccessAssumption, TypeOK
<1>2. PICK ns : ns = Active(s, sidecar)
  OBVIOUS
<1>3. ns \in Namespaces /\ ns.session = s
  BY <1>1, <1>2, ActiveNamespace
<1>4. row \in Row
  BY DEF Recalled, TypeOK
<1> QED  BY <1>2, <1>3, <1>4 DEF AnswerFor, Answer, Namespaces

(* What prefetch adds to the cache.                                        *)
LEMMA PrefetchStep ==
  ASSUME Prefetch
  PROVE  /\ UNCHANGED <<config, caller, runtime, rows>>
         /\ \A answer \in cache' \ cache :
              \E s \in Owned[caller], sidecar \in Sidecars :
                \E row \in Recalled(s, sidecar) :
                  answer = AnswerFor(Active(s, sidecar), row)
<1>1. PICK s \in Owned[caller], sidecar \in Sidecars :
        \E shown \in SUBSET Recalled(s, sidecar) :
          cache' = cache \cup {AnswerFor(Active(s, sidecar), row) : row \in shown}
  BY DEF Prefetch
<1> QED  BY <1>1 DEF Prefetch

THEOREM TypeCorrect == Spec => []TypeOK
<1>1. Init => TypeOK
  <2> SUFFICES ASSUME Init PROVE TypeOK
    OBVIOUS
  <2>1. PICK p \in People : \E s \in Owned[p], k \in Requests[p] :
          caller = p /\ runtime = RuntimeOf(s, k)
    BY DEF Init
  <2>2. PICK s \in Owned[p], k \in Requests[p] : caller = p /\ runtime = RuntimeOf(s, k)
    BY <2>1
  <2>3. s \in Sessions /\ k \in Request /\ Named(k) \subseteq Signals[p]
    BY AccessAssumption DEF AccessAssumption
  <2>4. runtime \in Runtime
    BY <2>2, <2>3, RuntimeOfRequest
  <2>5. rows = {} /\ cache = {}
    BY DEF Init
  <2> QED  BY <2>2, <2>4, <2>5, AccessAssumption DEF Init, TypeOK, AccessAssumption
<1>2. TypeOK /\ [Next]_vars => TypeOK'
  <2> SUFFICES ASSUME TypeOK, [Next]_vars PROVE TypeOK'
    OBVIOUS
  <2>1. ASSUME NEW p \in People, Initialize(p) \/ OnSessionSwitch(p) PROVE TypeOK'
    BY <2>1, RuntimeStep DEF TypeOK
  <2>2. ASSUME NEW new, new \subseteq Row, Store(new), UNCHANGED <<config, caller, runtime, cache>>
        PROVE  TypeOK'
    BY <2>2 DEF Store, TypeOK
  <2>3. CASE SyncTurn
    <3>1. PICK s \in Owned[caller], sidecar \in Sidecars, said \in BOOLEAN,
               promoted \in BOOLEAN :
            Store({Said(Active(s, sidecar), "episodic", Active(s, sidecar).principal, said)}
                  \cup IF promoted /\ s = runtime.session
                       THEN Durable(Active(s, sidecar),
                                    PromotionDecision(config, Active(s, sidecar), said), said)
                       ELSE {})
      BY <2>3 DEF SyncTurn
    <3>2. PICK ns : ns = Active(s, sidecar)
      OBVIOUS
    <3>3. ns \in Namespaces
      <4>1. Within(runtime, Identities) /\ Signals[caller] \subseteq Identities
        BY AccessAssumption DEF Within, AccessAssumption, TypeOK
      <4> QED  BY <3>2, <4>1, ActiveNamespace
    <3>4. Said(ns, "episodic", ns.principal, said) \in Row
      BY <3>3, SaidRow DEF Namespaces
    <3>5. Durable(ns, PromotionDecision(config, ns, said), said) \subseteq Row
      BY <3>3, DurableRow, RightfulDecision DEF TypeOK
    <3> QED  BY <2>2, <2>3, <3>1, <3>2, <3>4, <3>5 DEF SyncTurn
  <2>4. CASE Mirror
    <3>1. PICK said \in BOOLEAN :
            Store(Durable(NamespaceOf(config, runtime),
                          MemoryWriteDecision(config, NamespaceOf(config, runtime), said), said))
      BY <2>4 DEF Mirror
    <3>2. PICK ns : ns = NamespaceOf(config, runtime)
      OBVIOUS
    <3>3. ns \in Namespaces
      BY <3>2, NamespaceOfRuntime, Within(runtime, Identities) DEF Within, TypeOK
    <3>4. Durable(ns, MemoryWriteDecision(config, ns, said), said) \subseteq Row
      BY <3>3, DurableRow, RightfulDecision DEF TypeOK
    <3> QED  BY <2>2, <2>4, <3>1, <3>2, <3>4 DEF Mirror
  <2>5. CASE Compact
    <3>1. PICK row, ns, decision, part :
            /\ row \in rows
            /\ ns = MaintenanceNamespace(config, row.principal, row.source, MaintenanceSession)
            /\ decision = MaintenanceDecision(ns, ns.principal)
            /\ decision.allowed
            /\ part \in SUBSET UserRows(ns.principal)
            /\ Store({Summary(ns, decision, part)})
      BY <2>5 DEF Compact
    <3>2. row.principal \in Identities \cup {Shared} /\ row.source \in Sources
      BY <3>1 DEF TypeOK, Row
    <3>3. /\ ns \in Namespaces /\ ns.principal = row.principal /\ ns.principal \in Identities
          /\ decision.layer = "semantic_user" /\ decision.principal = ns.principal
      BY <3>1, <3>2, MaintenanceOwn DEF TypeOK
    <3>4. Summary(ns, decision, part) \in Row
      BY <3>1, <3>3, SummaryRow
    <3> QED  BY <2>2, <2>5, <3>1, <3>4 DEF Compact
  <2>6. CASE UNCHANGED vars
    BY <2>6 DEF vars, TypeOK
  <2>7. CASE Prefetch
    <3>1. \A answer \in cache' \ cache : answer \in Answer
      BY <2>7, PrefetchStep, AnswerTyped
    <3> QED  BY <2>7, <3>1, PrefetchStep DEF TypeOK
  <2> QED  BY <2>1, <2>3, <2>4, <2>5, <2>6, <2>7 DEF Next
<1> QED  BY <1>1, <1>2, PTL DEF Spec
-----------------------------------------------------------------------------
(* Of whom a row can be.  A row under a personal principal belongs to the  *)
(* one person whose identity that is; a row under the shared principal is  *)
(* tied to its author by the session, unless it is in the workspace pool.  *)
OwnRow(row) ==
  \A p \in row.authors :
    IF row.principal = Shared
    THEN row.layer # "semantic_user" /\ (row.layer = "episodic" => row.session \in Owned[p])
    ELSE row.principal \in Signals[p]
VouchedRow(c, row) ==
  row.layer = "semantic_shared" /\ row.gateway =>
    /\ row.context = "primary"
    /\ c.explicit => row.asked
    /\ \A p \in row.authors : Signals[p] \cap c.writers # {}
ConfinedRow(c, row) ==
  IF row.session = MaintenanceSession THEN row.layer = "semantic_user"
  ELSE row.context # "primary" /\ row.layer # "episodic" => c.nonPrimary

(* The runtime knows its caller by the caller's own identities.            *)
Mine ==
  /\ Within(runtime, Signals[caller])
  /\ runtime.session \in Owned[caller]
GoodRows ==
  \A row \in rows : OwnRow(row) /\ VouchedRow(config, row) /\ ConfinedRow(config, row)

(* A row of the caller's, by a decision that is allowed.                   *)
LEMMA SaidGood ==
  ASSUME TypeOK, NEW ns \in Namespaces, NEW said \in BOOLEAN,
         ns.principal \in Signals[caller] \cup {Shared},
         ns.email \in Identities => ns.email \in Signals[caller],
         ns.session \in Owned[caller]
  PROVE  /\ \A row \in {Said(ns, "episodic", ns.principal, said)} :
              OwnRow(row) /\ VouchedRow(config, row) /\ ConfinedRow(config, row)
         /\ \A decision : Rightful(config, ns, said, decision) =>
              \A row \in Durable(ns, decision, said) :
                OwnRow(row) /\ VouchedRow(config, row) /\ ConfinedRow(config, row)
<1>1. ns.session # MaintenanceSession /\ Shared \notin Signals[caller]
  BY AccessAssumption, NamespaceAssumption DEF AccessAssumption, NamespaceAssumption, TypeOK
<1>2. \A row \in {Said(ns, "episodic", ns.principal, said)} :
        OwnRow(row) /\ VouchedRow(config, row) /\ ConfinedRow(config, row)
  BY <1>1 DEF Said, RowOf, OwnRow, VouchedRow, ConfinedRow
<1>3. ASSUME NEW decision, Rightful(config, ns, said, decision),
             NEW row \in Durable(ns, decision, said)
      PROVE  OwnRow(row) /\ VouchedRow(config, row) /\ ConfinedRow(config, row)
  <2>1. decision.allowed /\ row = Said(ns, decision.layer, decision.principal, said)
    BY <1>3 DEF Durable
  <2>2. /\ row.layer = decision.layer /\ row.principal = decision.principal
        /\ row.session = ns.session /\ row.context = ns.context
        /\ row.gateway = ns.gateway /\ row.authors = {caller}
        /\ row.asked = Requested(ns, said)
    BY <2>1 DEF Said, RowOf
  <2>3. OwnRow(row)
    BY <1>1, <1>3, <2>1, <2>2 DEF Rightful, OwnRow
  <2>4. VouchedRow(config, row)
    <3>1. SUFFICES ASSUME row.layer = "semantic_shared", row.gateway
                   PROVE  SharedWriteAllowed(config, ns, row.asked)
      <4>1. SharedWriteAllowed(config, ns, row.asked) /\ ns.gateway =>
              /\ ns.context = "primary" /\ (config.explicit => row.asked)
              /\ ns.email \in config.writers
        BY DEF SharedWriteAllowed
      <4>2. config.writers \subseteq Identities
        BY DEF TypeOK, Config
      <4> QED  BY <2>2, <4>1, <4>2 DEF VouchedRow
    <3> QED  BY <1>3, <2>1, <2>2, <3>1 DEF Rightful
  <2>5. ConfinedRow(config, row)
    BY <1>1, <1>3, <2>1, <2>2 DEF Rightful, ConfinedRow
  <2> QED  BY <2>3, <2>4, <2>5
<1> QED  BY <1>2, <1>3

(* A summary of rows of one principal belongs to whom the rows belong to.  *)
LEMMA SummaryGood ==
  ASSUME GoodRows, NEW ns \in Namespaces, ns.session = MaintenanceSession,
         NEW principal \in Identities,
         NEW decision, decision.layer = "semantic_user", decision.principal = principal,
         NEW part \in SUBSET UserRows(principal),
         NEW row, row = Summary(ns, decision, part)
  PROVE  OwnRow(row) /\ VouchedRow(config, row) /\ ConfinedRow(config, row)
<1>1. /\ row.layer = "semantic_user" /\ row.principal = principal
      /\ row.session = MaintenanceSession
      /\ row.authors = UNION {r.authors : r \in part}
  BY DEF Summary, RowOf
<1>2. principal # Shared
  BY NamespaceAssumption DEF NamespaceAssumption
<1>3. \A r \in part : \A p \in r.authors : principal \in Signals[p]
  BY <1>2 DEF UserRows, GoodRows, OwnRow
<1>4. \A p \in row.authors : principal \in Signals[p]
  BY <1>1, <1>3
<1> QED  BY <1>1, <1>2, <1>4 DEF OwnRow, VouchedRow, ConfinedRow

(* The inductive invariant, as long as a switch stays with its caller.     *)
LEMMA GoodRowsStep ==
  ASSUME TypeOK, Mine, GoodRows, ~SwitchPersons, [Next]_vars
  PROVE  Mine' /\ GoodRows'
<1>1. ASSUME NEW p \in People, Initialize(p) \/ OnSessionSwitch(p) PROVE Mine' /\ GoodRows'
  <2>1. p = caller \/ Initialize(p)
    BY <1>1 DEF OnSessionSwitch
  <2> QED  BY <1>1, <2>1, RuntimeStep DEF Mine, GoodRows
<1>2. ASSUME NEW new, Store(new), UNCHANGED <<config, caller, runtime, cache>>,
             \A row \in new : OwnRow(row) /\ VouchedRow(config, row) /\ ConfinedRow(config, row)
      PROVE  Mine' /\ GoodRows'
  BY <1>2 DEF Store, Mine, GoodRows
<1>3. CASE SyncTurn
  <2>1. PICK s \in Owned[caller], sidecar \in Sidecars, said \in BOOLEAN,
             promoted \in BOOLEAN :
          Store({Said(Active(s, sidecar), "episodic", Active(s, sidecar).principal, said)}
                \cup IF promoted /\ s = runtime.session
                     THEN Durable(Active(s, sidecar),
                                  PromotionDecision(config, Active(s, sidecar), said), said)
                     ELSE {})
    BY <1>3 DEF SyncTurn
  <2>2. PICK ns : ns = Active(s, sidecar)
    OBVIOUS
  <2>3. /\ ns \in Namespaces /\ ns.principal \in Signals[caller] \cup {Shared}
        /\ ns.email \in Identities => ns.email \in Signals[caller]
        /\ ns.session \in Owned[caller]
    BY <2>2, ActiveNamespace DEF Mine
  <2>4. Rightful(config, ns, said, PromotionDecision(config, ns, said))
    BY <2>3, RightfulDecision DEF TypeOK
  <2>5. \A row \in {Said(ns, "episodic", ns.principal, said)}
                   \cup Durable(ns, PromotionDecision(config, ns, said), said) :
          OwnRow(row) /\ VouchedRow(config, row) /\ ConfinedRow(config, row)
    BY <2>3, <2>4, SaidGood
  <2> QED  BY <1>2, <1>3, <2>1, <2>2, <2>5 DEF SyncTurn
<1>4. CASE Mirror
  <2>1. PICK said \in BOOLEAN :
          Store(Durable(NamespaceOf(config, runtime),
                        MemoryWriteDecision(config, NamespaceOf(config, runtime), said), said))
    BY <1>4 DEF Mirror
  <2>2. PICK ns : ns = NamespaceOf(config, runtime)
    OBVIOUS
  <2>3. /\ ns \in Namespaces /\ ns.principal \in Signals[caller] \cup {Shared}
        /\ ns.email \in Identities => ns.email \in Signals[caller]
        /\ ns.session \in Owned[caller]
    BY <2>2, NamespaceOfRuntime DEF Mine, TypeOK
  <2>4. Rightful(config, ns, said, MemoryWriteDecision(config, ns, said))
    BY <2>3, RightfulDecision DEF TypeOK
  <2> QED  BY <1>2, <1>4, <2>1, <2>2, <2>3, <2>4, SaidGood DEF Mirror
<1>5. CASE Compact
  <2>1. PICK row, ns, decision, part :
          /\ row \in rows
          /\ ns = MaintenanceNamespace(config, row.principal, row.source, MaintenanceSession)
          /\ decision = MaintenanceDecision(ns, ns.principal)
          /\ decision.allowed
          /\ part \in SUBSET UserRows(ns.principal)
          /\ Store({Summary(ns, decision, part)})
    BY <1>5 DEF Compact
  <2>2. row.principal \in Identities \cup {Shared} /\ row.source \in Sources
    BY <2>1 DEF TypeOK, Row
  <2>3. /\ ns \in Namespaces /\ ns.session = MaintenanceSession /\ ns.principal \in Identities
        /\ decision.layer = "semantic_user" /\ decision.principal = ns.principal
    BY <2>1, <2>2, MaintenanceOwn DEF TypeOK
  <2> QED  BY <1>2, <1>5, <2>1, <2>3, SummaryGood DEF Compact
<1>6. CASE UNCHANGED vars
  BY <1>6 DEF vars, Mine, GoodRows
<1>7. CASE Prefetch
  BY <1>7, PrefetchStep DEF Mine, GoodRows
<1> QED  BY <1>1, <1>3, <1>4, <1>5, <1>6, <1>7 DEF Next

LEMMA GoodRowsInit ==
  ASSUME Init PROVE Mine /\ GoodRows
<1>1. PICK p \in People : \E s \in Owned[p], k \in Requests[p] :
        caller = p /\ runtime = RuntimeOf(s, k)
  BY DEF Init
<1>2. PICK s \in Owned[p], k \in Requests[p] : caller = p /\ runtime = RuntimeOf(s, k)
  BY <1>1
<1>3. s \in Sessions /\ k \in Request /\ Named(k) \subseteq Signals[p]
  BY AccessAssumption DEF AccessAssumption
<1>4. Mine
  BY <1>2, <1>3, RuntimeOfRequest DEF Mine
<1>5. GoodRows
  BY DEF Init, GoodRows
<1> QED  BY <1>4, <1>5

(* No recall that is assembled now shows what somebody else said outside   *)
(* the workspace pool.                                                     *)
LEMMA RecalledPrivate ==
  ASSUME TypeOK, Mine, GoodRows, NEW s \in Owned[caller], NEW sidecar \in Sidecars,
         NEW row \in Recalled(s, sidecar), row.layer # "semantic_shared"
  PROVE  row.authors \subseteq {caller}
<1> SUFFICES ASSUME NEW p \in row.authors PROVE p = caller
  OBVIOUS
<1>1. PICK ns : ns = Active(s, sidecar)
  OBVIOUS
<1>2. /\ ns \in Namespaces /\ ns.principal \in Signals[caller] \cup {Shared}
      /\ ns.session = s
  BY <1>1, ActiveNamespace DEF Mine
<1>3. PICK scope \in RecallScopes(config, ns) : InScope(scope, row)
  BY <1>1 DEF Recalled
<1>4. row \in rows /\ OwnRow(row) /\ p \in People /\ caller \in People
  BY DEF Recalled, GoodRows, TypeOK, Row
<1>5. row.principal = ns.principal
  BY <1>3 DEF RecallScopes, Scope, InScope
<1>6. CASE ns.principal # Shared
  <2>1. row.principal \in Signals[p] \cap Signals[caller]
    BY <1>2, <1>4, <1>5, <1>6 DEF OwnRow
  <2> QED  BY <1>4, <2>1, AccessAssumption DEF AccessAssumption
<1>7. CASE ns.principal = Shared
  <2>1. row.layer = "episodic" /\ scope.session = s
    BY <1>2, <1>3, <1>7 DEF RecallScopes, Scope, InScope
  <2>2. Absent # s
    BY AccessAssumption, NamespaceAssumption DEF AccessAssumption, NamespaceAssumption, TypeOK
  <2>3. row.session = s
    BY <1>3, <2>1, <2>2 DEF InScope
  <2>4. row.session \in Owned[p] \cap Owned[caller]
    BY <1>4, <1>5, <1>7, <2>1, <2>3 DEF OwnRow
  <2> QED  BY <1>4, <2>4, AccessAssumption DEF AccessAssumption
<1> QED  BY <1>6, <1>7

LEMMA GoodRowsInvariant ==
  ASSUME ~SwitchPersons
  PROVE  Spec => [](TypeOK /\ Mine /\ GoodRows)
<1>1. Init => Mine /\ GoodRows
  BY GoodRowsInit
<1>2. TypeOK /\ (Mine /\ GoodRows) /\ [Next]_vars => Mine' /\ GoodRows'
  BY GoodRowsStep
<1> QED  BY <1>1, <1>2, TypeCorrect, PTL DEF Spec

(* A recall in the cache is one person's: it holds, the workspace pool     *)
(* aside, only what was said by whoever its session belongs to.            *)
GoodCache ==
  \A answer \in cache : \A p \in People :
    answer.session \in Owned[p] /\ answer.row.layer # "semantic_shared"
      => answer.row.authors \subseteq {p}

LEMMA GoodCacheStep ==
  ASSUME TypeOK, Mine, GoodRows, GoodCache, [Next]_vars PROVE GoodCache'
<1>1. ASSUME cache' \subseteq cache PROVE GoodCache'
  BY <1>1 DEF GoodCache
<1>2. CASE Prefetch
  <2>1. ASSUME NEW answer \in cache' \ cache, NEW p \in People,
               answer.session \in Owned[p], answer.row.layer # "semantic_shared"
        PROVE  answer.row.authors \subseteq {p}
    <3>1. PICK s \in Owned[caller], sidecar \in Sidecars :
            \E row \in Recalled(s, sidecar) : answer = AnswerFor(Active(s, sidecar), row)
      BY <1>2, <2>1, PrefetchStep
    <3>2. PICK row \in Recalled(s, sidecar) : answer = AnswerFor(Active(s, sidecar), row)
      BY <3>1
    <3>3. answer.session = s /\ answer.row = row
      BY <3>2, AnswerTyped
    <3>4. p = caller
      BY <2>1, <3>3, AccessAssumption DEF AccessAssumption, TypeOK
    <3> QED  BY <2>1, <3>3, <3>4, RecalledPrivate
  <2> QED  BY <2>1 DEF GoodCache
<1>3. CASE \E p \in People : Initialize(p) \/ OnSessionSwitch(p)
  BY <1>1, <1>3, RuntimeStep
<1>4. CASE SyncTurn \/ Mirror \/ Compact \/ UNCHANGED vars
  BY <1>1, <1>4 DEF SyncTurn, Mirror, Compact, vars
<1> QED  BY <1>2, <1>3, <1>4 DEF Next

(* Nobody is shown what somebody else said outside the workspace pool,     *)
(* neither from the table nor from the cache (PrivateRecall).              *)
LEMMA GoodRowsPrivate ==
  ASSUME TypeOK, Mine, GoodRows, GoodCache PROVE PrivateRecall
<1> SUFFICES ASSUME NEW s \in Owned[caller], NEW sidecar \in Sidecars,
                    NEW answer \in Answers(s, sidecar),
                    answer.row.layer # "semantic_shared"
             PROVE  answer.row.authors \subseteq {caller}
  BY DEF PrivateRecall
<1>1. CASE answer \in cache
  <2>1. answer.session = Active(s, sidecar).session
        \/ answer \in {AnswerFor(Active(s, sidecar), row) : row \in Recalled(s, sidecar)}
    BY DEF Answers
  <2>2. Active(s, sidecar).session = s
    BY ActiveNamespace DEF Mine
  <2>3. answer.session = s
    BY <2>1, <2>2, AnswerTyped
  <2> QED  BY <1>1, <2>3 DEF GoodCache, TypeOK
<1>2. CASE answer \notin cache
  <2>1. PICK row \in Recalled(s, sidecar) : answer = AnswerFor(Active(s, sidecar), row)
    BY <1>2 DEF Answers
  <2>2. answer.row = row
    BY <2>1, AnswerTyped
  <2> QED  BY <2>2, RecalledPrivate
<1> QED  BY <1>1, <1>2

THEOREM PrivateRecalls ==
  ASSUME ~SwitchPersons PROVE Spec => []PrivateRecall
<1>1. Init => GoodCache
  BY DEF Init, GoodCache
<1>2. TypeOK /\ Mine /\ GoodRows /\ GoodCache /\ [Next]_vars => GoodCache'
  BY GoodCacheStep
<1>3. TypeOK /\ Mine /\ GoodRows /\ GoodCache => PrivateRecall
  BY GoodRowsPrivate
<1> QED  BY <1>1, <1>2, <1>3, GoodRowsInvariant, PTL DEF Spec

(* The workspace pool holds only what vouched callers put there            *)
(* (SharedVouched), non-primary contexts stay out of durable memory        *)
(* (NonPrimaryConfined), and user rows are their authors' (PrincipalOwned).*)
THEOREM SharedIsVouched ==
  ASSUME ~SwitchPersons PROVE Spec => []SharedVouched
<1>1. TypeOK /\ Mine /\ GoodRows => SharedVouched
  BY DEF GoodRows, VouchedRow, SharedVouched
<1> QED  BY <1>1, GoodRowsInvariant, PTL

THEOREM Confined ==
  ASSUME ~SwitchPersons PROVE Spec => []NonPrimaryConfined
<1>1. TypeOK /\ Mine /\ GoodRows => NonPrimaryConfined
  BY DEF GoodRows, ConfinedRow, NonPrimaryConfined
<1> QED  BY <1>1, GoodRowsInvariant, PTL

THEOREM UserRowsOwned ==
  ASSUME ~SwitchPersons PROVE Spec => []PrincipalOwned
<1>1. TypeOK /\ Mine /\ GoodRows => PrincipalOwned
  BY DEF GoodRows, OwnRow, PrincipalOwned
<1> QED  BY <1>1, GoodRowsInvariant, PTL

(* Promotion and mirroring agree in every reachable state (DecisionsAgree).*)
THEOREM DecisionsAlwaysAgree == Spec => []DecisionsAgree
<1>1. TypeOK => DecisionsAgree
  <2> SUFFICES ASSUME TypeOK, NEW said \in BOOLEAN,
                      NEW ns, ns = NamespaceOf(config, runtime)
               PROVE  /\ PromotionDecision(config, ns, said).allowed
                           = MemoryWriteDecision(config, ns, said).allowed
                      /\ PromotionDecision(config, ns, said).layer
                           = MemoryWriteDecision(config, ns, said).layer
                      /\ PromotionDecision(config, ns, said).principal
                           = MemoryWriteDecision(config, ns, said).principal
    BY DEF DecisionsAgree
  <2>1. ns \in Namespaces
    BY NamespaceOfRuntime, Within(runtime, Identities) DEF Within, TypeOK
  <2> QED  BY <2>1, SameDecision DEF TypeOK
<1> QED  BY <1>1, TypeCorrect, PTL
-----------------------------------------------------------------------------
(* Platform-scoped recall (PlatformScoped).  What is not a summary was     *)
(* said on the platform it is filed under.                                 *)
Homed ==
  \A row \in rows : row.session # MaintenanceSession => row.origins = {row.platform}

LEMMA HomedStep ==
  ASSUME TypeOK, Homed, [Next]_vars PROVE Homed'
<1>1. ASSUME rows' = rows PROVE Homed'
  BY <1>1 DEF Homed
<1>2. ASSUME NEW new, Store(new),
             \A row \in new :
               row.session # MaintenanceSession => row.origins = {row.platform}
      PROVE  Homed'
  BY <1>2 DEF Store, Homed
<1>3. ASSUME NEW ns, NEW layer, NEW principal, NEW said
      PROVE  Said(ns, layer, principal, said).origins
               = {Said(ns, layer, principal, said).platform}
  BY DEF Said, RowOf
<1>4. ASSUME NEW ns, NEW decision, NEW said, NEW row \in Durable(ns, decision, said)
      PROVE  row.origins = {row.platform}
  BY <1>3 DEF Durable
<1>5. CASE \E p \in People : Initialize(p) \/ OnSessionSwitch(p)
  BY <1>1, <1>5 DEF Initialize, OnSessionSwitch
<1>6. CASE SyncTurn
  <2>1. PICK s \in Owned[caller], sidecar \in Sidecars, said \in BOOLEAN,
             promoted \in BOOLEAN :
          Store({Said(Active(s, sidecar), "episodic", Active(s, sidecar).principal, said)}
                \cup IF promoted /\ s = runtime.session
                     THEN Durable(Active(s, sidecar),
                                  PromotionDecision(config, Active(s, sidecar), said), said)
                     ELSE {})
    BY <1>6 DEF SyncTurn
  <2> QED  BY <1>2, <1>3, <1>4, <2>1
<1>7. CASE Mirror
  <2>1. PICK said \in BOOLEAN :
          Store(Durable(NamespaceOf(config, runtime),
                        MemoryWriteDecision(config, NamespaceOf(config, runtime), said), said))
    BY <1>7 DEF Mirror
  <2> QED  BY <1>2, <1>4, <2>1
<1>8. CASE Compact
  <2>1. PICK row, ns, decision, part :
          /\ row \in rows
          /\ ns = MaintenanceNamespace(config, row.principal, row.source, MaintenanceSession)
          /\ decision = MaintenanceDecision(ns, ns.principal)
          /\ decision.allowed
          /\ Store({Summary(ns, decision, part)})
    BY <1>8 DEF Compact
  <2>2. row.principal \in Identities \cup {Shared} /\ row.source \in Sources
    BY <2>1 DEF TypeOK, Row
  <2>3. ns.session = MaintenanceSession
    BY <2>1, <2>2, MaintenanceOwn DEF TypeOK
  <2>4. Summary(ns, decision, part).session = MaintenanceSession
    BY <2>3 DEF Summary, RowOf
  <2> QED  BY <1>2, <2>1, <2>4
<1>9. CASE UNCHANGED vars
  BY <1>1, <1>9 DEF vars
<1>10. CASE Prefetch
  BY <1>1, <1>10, PrefetchStep
<1> QED  BY <1>5, <1>6, <1>7, <1>8, <1>9, <1>10 DEF Next

(* A scoped recall filters every scope of the caller's own memory by the   *)
(* platform of the namespace it recalls for.                               *)
OnPlatform(answer) ==
  answer.row.layer # "semantic_shared" /\ answer.row.session # MaintenanceSession
    => answer.row.origins \subseteq {answer.platform}

LEMMA HomedScoped ==
  ASSUME TypeOK, Homed, config.scoped, NEW s \in Owned[caller], NEW sidecar \in Sidecars,
         NEW row \in Recalled(s, sidecar)
  PROVE  OnPlatform(AnswerFor(Active(s, sidecar), row))
<1> SUFFICES ASSUME row.layer # "semantic_shared", row.session # MaintenanceSession
             PROVE  row.origins \subseteq {Active(s, sidecar).platform}
  BY AnswerTyped DEF OnPlatform
<1>1. PICK ns : ns = Active(s, sidecar)
  OBVIOUS
<1>2. ns.platform \in Platforms
  BY <1>1, ActiveNamespace, Within(runtime, Identities), AccessAssumption
     DEF Within, Namespaces, AccessAssumption, TypeOK
<1>3. PICK scope \in RecallScopes(config, ns) : InScope(scope, row)
  BY <1>1 DEF Recalled
<1>4. scope.layer # "semantic_shared"
  BY <1>3 DEF InScope
<1>5. scope.platform = ns.platform
  BY <1>3, <1>4 DEF RecallScopes, Scope
<1>6. row.platform = ns.platform
  BY <1>2, <1>3, <1>5, NamespaceAssumption DEF InScope, NamespaceAssumption
<1>7. row.origins = {row.platform}
  BY DEF Recalled, Homed
<1> QED  BY <1>1, <1>6, <1>7

(* What the cache holds was assembled in that way.                         *)
HomedCache == config.scoped => \A answer \in cache : OnPlatform(answer)

LEMMA HomedCacheStep ==
  ASSUME TypeOK, Homed, HomedCache, [Next]_vars PROVE HomedCache'
<1>1. ASSUME cache' \subseteq cache, config' = config PROVE HomedCache'
  BY <1>1 DEF HomedCache
<1>2. CASE Prefetch
  <2>1. ASSUME config.scoped, NEW answer \in cache' \ cache PROVE OnPlatform(answer)
    BY <1>2, <2>1, PrefetchStep, HomedScoped
  <2> QED  BY <1>2, <2>1, PrefetchStep DEF HomedCache
<1>3. CASE \E p \in People : Initialize(p) \/ OnSessionSwitch(p)
  BY <1>1, <1>3, RuntimeStep
<1>4. CASE SyncTurn \/ Mirror \/ Compact \/ UNCHANGED vars
  BY <1>1, <1>4 DEF SyncTurn, Mirror, Compact, vars
<1> QED  BY <1>2, <1>3, <1>4 DEF Next

(* Whether it is assembled now or served from the cache, a scoped recall   *)
(* shows what was said on the platform it was assembled on                 *)
(* (PlatformScoped).                                                       *)
THEOREM RecallStaysOnPlatform == Spec => []PlatformScoped
<1>1. Init => Homed /\ HomedCache
  BY DEF Init, Homed, HomedCache
<1>2. TypeOK /\ Homed /\ HomedCache /\ [Next]_vars => Homed' /\ HomedCache'
  BY HomedStep, HomedCacheStep
<1>3. TypeOK /\ Homed /\ HomedCache => PlatformScoped
  <2> SUFFICES ASSUME TypeOK, Homed, HomedCache, config.scoped,
                      NEW s \in Owned[caller], NEW sidecar \in Sidecars,
                      NEW answer \in Answers(s, sidecar)
               PROVE  /\ answer \in cache \/ answer.platform = Active(s, sidecar).platform
                      /\ OnPlatform(answer)
    BY DEF PlatformScoped, OnPlatform
  <2>1. CASE answer \in cache
    BY <2>1 DEF HomedCache
  <2>2. CASE answer \notin cache
    <3>1. PICK row \in Recalled(s, sidecar) : answer = AnswerFor(Active(s, sidecar), row)
      BY <2>2 DEF Answers
    <3> QED  BY <3>1, AnswerTyped, HomedScoped
  <2> QED  BY <2>1, <2>2
<1> QED  BY <1>1, <1>2, <1>3, TypeCorrect, PTL DEF Spec
-----------------------------------------------------------------------------
(* For a runtime that names an e-mail or an id, or that is local, another  *)
(* session changes nothing but the session: no identity is looked for in   *)
(* its sidecar, and everything carried over arrives.                       *)
LEMMA CarriedKeeps ==
  ASSUME NEW rt \in Runtime, NEW s \in Sessions, NEW sidecar,
         rt.platform = "cli" \/ {rt.email, rt.id} # {NoIdentity}
  PROVE  ActiveRuntime(rt, s, sidecar) = [rt EXCEPT !.session = s]
<1>1. /\ rt.email \in Optional /\ rt.id \in Optional /\ rt.alt \in Optional
      /\ rt.platform \in Platforms /\ rt.context \in Contexts /\ rt.shared \in Intents
  BY DEF Runtime
<1>2. Absent \notin Optional \cup Platforms \cup Contexts \cup Intents
  BY NamespaceAssumption DEF Optional
<1>3. [rt EXCEPT !.session = s]
        = [session |-> s, platform |-> rt.platform, context |-> rt.context,
           email |-> rt.email, id |-> rt.id, alt |-> rt.alt, shared |-> rt.shared]
  BY DEF Runtime
<1>4. CASE s = rt.session
  BY <1>4 DEF ActiveRuntime, Runtime
<1>5. CASE s # rt.session
  <2> DEFINE k == Carried(rt, sidecar)
  <2>1. /\ Or(k.email, k.header.email) = rt.email /\ Or(k.id, k.header.id) = rt.id
        /\ Or(k.alt, NoIdentity) = rt.alt
    BY <1>1, <1>2 DEF Carried, Or
  <2>2. /\ PlatformOf(k) = rt.platform /\ Get(k.context, "primary") = rt.context
        /\ Get(k.shared, "unset") = rt.shared
    BY <1>1, <1>2 DEF Carried, Get, PlatformOf
  <2>3. PlatformOf(k) = "cli" \/ {rt.email, rt.id} # {NoIdentity}
    BY <2>2
  <2> HIDE DEF k
  <2>4. RuntimeOf(s, k)
          = [session |-> s, platform |-> rt.platform, context |-> rt.context,
             email |-> rt.email, id |-> rt.id, alt |-> rt.alt, shared |-> rt.shared]
    BY <2>1, <2>2, <2>3 DEF RuntimeOf
  <2> QED  BY <1>3, <1>5, <2>4 DEF ActiveRuntime, k
<1> QED  BY <1>4, <1>5

(* A namespace takes nothing from the session but its id.                  *)
LEMMA NamespaceOfSession ==
  ASSUME NEW c \in Config, NEW rt \in Runtime, NEW s \in Sessions
  PROVE  NamespaceOf(c, [rt EXCEPT !.session = s]) = [NamespaceOf(c, rt) EXCEPT !.session = s]
<1>1. PICK other : other = [rt EXCEPT !.session = s]
  OBVIOUS
<1>2. /\ other.session = s /\ other.platform = rt.platform /\ other.context = rt.context
      /\ other.email = rt.email /\ other.id = rt.id /\ other.alt = rt.alt
      /\ other.shared = rt.shared
  BY <1>1 DEF Runtime
<1>3. /\ IsGateway(c, other) = IsGateway(c, rt)
      /\ GatewayPrincipal(c, other) = GatewayPrincipal(c, rt)
  BY <1>2 DEF IsGateway, GatewayPrincipal
<1>4. PICK gateway, who, source :
        /\ NamespaceOf(c, rt) =
             [principal |-> who, source |-> source, gateway |-> gateway,
              session |-> rt.session, platform |-> rt.platform, context |-> rt.context,
              email |-> rt.email, shared |-> rt.shared]
        /\ NamespaceOf(c, other) =
             [principal |-> who, source |-> source, gateway |-> gateway,
              session |-> s, platform |-> rt.platform, context |-> rt.context,
              email |-> rt.email, shared |-> rt.shared]
  BY <1>2, <1>3 DEF NamespaceOf
<1> QED  BY <1>1, <1>4

(* A provider that knows who calls finds one memory, whichever session a   *)
(* call names and whatever the sidecar of that session holds (OneMemory).  *)
THEOREM SessionsShareMemory == Spec => []OneMemory
<1>1. TypeOK => OneMemory
  <2> SUFFICES ASSUME TypeOK, NEW s \in Owned[caller], NEW sidecar \in Sidecars,
                      runtime.platform = "cli" \/ {runtime.email, runtime.id} # {NoIdentity}
               PROVE  Active(s, sidecar) = [NamespaceOf(config, runtime) EXCEPT !.session = s]
    BY DEF OneMemory
  <2>1. s \in Sessions /\ runtime \in Runtime /\ config \in Config
    BY AccessAssumption DEF TypeOK
  <2>2. ActiveRuntime(runtime, s, sidecar) = [runtime EXCEPT !.session = s]
    BY <2>1, CarriedKeeps
  <2>3. NamespaceOf(config, [runtime EXCEPT !.session = s])
          = [NamespaceOf(config, runtime) EXCEPT !.session = s]
    BY <2>1, NamespaceOfSession
  <2> QED  BY <2>2, <2>3 DEF Active
<1> QED  BY <1>1, TypeCorrect, PTL
-----------------------------------------------------------------------------
(* Someone is served: a person with a request, in a session of theirs.     *)
Served == runtime.session \in Owned[caller] /\ Requests[caller] # {}

LEMMA ServedInvariant == Spec => [](TypeOK /\ Served)
<1>1. Init => Served
  <2> SUFFICES ASSUME Init PROVE Served
    OBVIOUS
  <2>1. PICK p \in People : \E s \in Owned[p], k \in Requests[p] :
          caller = p /\ runtime = RuntimeOf(s, k)
    BY DEF Init
  <2>2. PICK s \in Owned[p], k \in Requests[p] : caller = p /\ runtime = RuntimeOf(s, k)
    BY <2>1
  <2>3. runtime.session = s
    BY <2>2 DEF RuntimeOf
  <2> QED  BY <2>2, <2>3 DEF Served
<1>2. TypeOK /\ Served /\ [Next]_vars => Served'
  <2> SUFFICES ASSUME TypeOK, Served, [Next]_vars PROVE Served'
    OBVIOUS
  <2>1. ASSUME NEW p \in People, Initialize(p) \/ OnSessionSwitch(p) PROVE Served'
    <3>1. Requests[p] # {}
      BY <2>1 DEF Initialize, OnSessionSwitch
    <3> QED  BY <2>1, <3>1, RuntimeStep DEF Served
  <2>2. CASE SyncTurn \/ Mirror \/ Compact \/ Prefetch \/ UNCHANGED vars
    BY <2>2 DEF SyncTurn, Mirror, Compact, Prefetch, vars, Served
  <2> QED  BY <2>1, <2>2 DEF Next
<1> QED  BY <1>1, <1>2, TypeCorrect, PTL DEF Spec

(* Where a decision sends a row, one of the scopes of the same namespace   *)
(* looks for it.                                                           *)
LEMMA WrittenInScope ==
  ASSUME TypeOK, NEW ns \in Namespaces, ns.principal # Shared => ns.gateway,
         NEW said \in BOOLEAN, NEW layer, NEW principal,
         \/ layer = "episodic" /\ principal = ns.principal
         \/ layer = "semantic_shared" /\ principal = Shared
         \/ layer = "semantic_user" /\ principal = ns.principal /\ principal # Shared,
         NEW row, row = Said(ns, layer, principal, said)
  PROVE  row.session = ns.session /\ \E scope \in RecallScopes(config, ns) : InScope(scope, row)
<1>1. /\ row.layer = layer /\ row.principal = principal /\ row.session = ns.session
      /\ row.platform = ns.platform
  BY DEF Said, RowOf
<1>2. Absent # row.session
  BY <1>1, NamespaceAssumption DEF Namespaces
<1> DEFINE platform == IF config.scoped THEN ns.platform ELSE Absent
<1>3. platform \in {Absent, row.platform}
  BY <1>1
<1>4. CASE layer = "episodic" /\ principal = ns.principal
  <2>1. Scope("episodic", ns.principal, ns.session, Absent, platform)
          \in RecallScopes(config, ns)
    BY DEF RecallScopes
  <2> HIDE DEF platform
  <2>2. InScope(Scope("episodic", ns.principal, ns.session, Absent, platform), row)
    BY <1>1, <1>2, <1>3, <1>4 DEF InScope, Scope
  <2> QED  BY <1>1, <2>1, <2>2
<1>5. CASE layer = "semantic_shared" /\ principal = Shared
  <2>1. Scope("semantic_shared", Shared, Absent, Absent, Absent) \in RecallScopes(config, ns)
    BY DEF RecallScopes
  <2>2. InScope(Scope("semantic_shared", Shared, Absent, Absent, Absent), row)
    BY <1>1, <1>2, <1>5 DEF InScope, Scope
  <2> QED  BY <1>1, <2>1, <2>2
<1>6. CASE layer = "semantic_user" /\ principal = ns.principal /\ principal # Shared
  <2>1. Scope("semantic_user", ns.principal, Absent, Absent, platform)
          \in RecallScopes(config, ns)
    BY <1>6 DEF RecallScopes
  <2> HIDE DEF platform
  <2>2. InScope(Scope("semantic_user", ns.principal, Absent, Absent, platform), row)
    BY <1>1, <1>2, <1>3, <1>6 DEF InScope, Scope
  <2> QED  BY <1>1, <2>1, <2>2
<1> QED  BY <1>4, <1>5, <1>6

(* The decisions about what is written and the scopes of what is recalled  *)
(* agree: whoever writes a row, in whatever namespace, can reach it, even  *)
(* when a switch may hand the provider to somebody else (ReadYourWrites).  *)
THEOREM WritesAreRead == Spec => ReadYourWrites
<1>1. TypeOK /\ Served /\ [Next]_vars => [WrittenIsReachable]_vars
  <2> SUFFICES ASSUME TypeOK, Served, [Next]_vars,
                      NEW row \in rows' \ rows, row.session # MaintenanceSession
               PROVE  \E sidecar \in Sidecars' : row \in Recalled(row.session, sidecar)'
    BY DEF WrittenIsReachable
  <2>1. Within(runtime, Identities) /\ Signals[caller] \subseteq Identities
    BY AccessAssumption DEF Within, TypeOK
  <2>2. ASSUME UNCHANGED <<config, caller, runtime, cache>>, NEW sidecar \in Sidecars,
               NEW ns \in Namespaces, ns = Active(ns.session, sidecar), NEW said \in BOOLEAN,
               \/ row = Said(ns, "episodic", ns.principal, said)
               \/ \E decision : /\ Rightful(config, ns, said, decision)
                                /\ row \in Durable(ns, decision, said)
        PROVE  \E sc \in Sidecars' : row \in Recalled(row.session, sc)'
    <3>1. ns.principal # Shared => ns.gateway
      <4>1. PICK rt : ns = NamespaceOf(config, rt)
        BY <2>2 DEF Active
      <4> QED  BY <4>1 DEF NamespaceOf
    <3>2. row.session = ns.session /\ \E scope \in RecallScopes(config, ns) : InScope(scope, row)
      <4>1. CASE row = Said(ns, "episodic", ns.principal, said)
        BY <3>1, <4>1, WrittenInScope
      <4>2. ASSUME NEW decision, Rightful(config, ns, said, decision),
                   row \in Durable(ns, decision, said)
            PROVE  /\ row.session = ns.session
                   /\ \E scope \in RecallScopes(config, ns) : InScope(scope, row)
        <5>1. decision.allowed /\ row = Said(ns, decision.layer, decision.principal, said)
          BY <4>2 DEF Durable
        <5> QED  BY <3>1, <4>2, <5>1, WrittenInScope DEF Rightful
      <4> QED  BY <2>2, <4>1, <4>2
    <3>3. ns = Active(row.session, sidecar)' /\ sidecar \in Sidecars'
      BY <2>2, <3>2 DEF Active, Sidecars
    <3>4. row \in Recalled(row.session, sidecar)'
      BY <2>2, <3>2, <3>3 DEF Recalled
    <3> QED  BY <3>3, <3>4
  <2>3. CASE SyncTurn
    <3>1. PICK s \in Owned[caller], sidecar \in Sidecars, said \in BOOLEAN,
               promoted \in BOOLEAN :
            Store({Said(Active(s, sidecar), "episodic", Active(s, sidecar).principal, said)}
                  \cup IF promoted /\ s = runtime.session
                       THEN Durable(Active(s, sidecar),
                                    PromotionDecision(config, Active(s, sidecar), said), said)
                       ELSE {})
      BY <2>3 DEF SyncTurn
    <3>2. PICK ns : ns = Active(s, sidecar)
      OBVIOUS
    <3>3. ns \in Namespaces /\ ns.session = s
      BY <2>1, <3>2, ActiveNamespace
    <3>4. Rightful(config, ns, said, PromotionDecision(config, ns, said))
      BY <3>3, RightfulDecision DEF TypeOK
    <3>5. \/ row = Said(ns, "episodic", ns.principal, said)
          \/ row \in Durable(ns, PromotionDecision(config, ns, said), said)
      BY <3>1, <3>2 DEF Store
    <3> QED  BY <2>2, <2>3, <3>2, <3>3, <3>4, <3>5 DEF SyncTurn
  <2>4. CASE Mirror
    <3>1. PICK said \in BOOLEAN :
            Store(Durable(NamespaceOf(config, runtime),
                          MemoryWriteDecision(config, NamespaceOf(config, runtime), said), said))
      BY <2>4 DEF Mirror
    <3>2. PICK ns : ns = NamespaceOf(config, runtime)
      OBVIOUS
    <3>3. ns \in Namespaces /\ ns.session = runtime.session
      BY <2>1, <3>2, NamespaceOfRuntime DEF TypeOK
    <3>4. PICK sidecar \in Sidecars : ns = Active(ns.session, sidecar)
      BY <3>2, <3>3 DEF Served, Sidecars, Active, ActiveRuntime
    <3>5. Rightful(config, ns, said, MemoryWriteDecision(config, ns, said))
      BY <3>3, RightfulDecision DEF TypeOK
    <3>6. row \in Durable(ns, MemoryWriteDecision(config, ns, said), said)
      BY <3>1, <3>2 DEF Store
    <3> QED  BY <2>2, <2>4, <3>3, <3>4, <3>5, <3>6 DEF Mirror
  <2>5. CASE Compact
    <3>1. PICK r, ns, decision, part :
            /\ r \in rows
            /\ ns = MaintenanceNamespace(config, r.principal, r.source, MaintenanceSession)
            /\ decision = MaintenanceDecision(ns, ns.principal)
            /\ decision.allowed
            /\ Store({Summary(ns, decision, part)})
      BY <2>5 DEF Compact
    <3>2. r.principal \in Identities \cup {Shared} /\ r.source \in Sources
      BY <3>1 DEF TypeOK, Row
    <3>3. ns.session = MaintenanceSession
      BY <3>1, <3>2, MaintenanceOwn DEF TypeOK
    <3>4. row = Summary(ns, decision, part)
      BY <3>1 DEF Store
    <3> QED  BY <3>3, <3>4 DEF Summary, RowOf
  <2>6. ASSUME rows' = rows PROVE FALSE
    BY <2>6
  <2> QED
    BY <2>3, <2>4, <2>5, <2>6 DEF Next, Initialize, OnSessionSwitch, Prefetch, vars
<1> QED  BY <1>1, ServedInvariant, PTL DEF Spec, ReadYourWrites
=============================================================================
