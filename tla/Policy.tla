------------------------------- MODULE Policy -------------------------------
(***************************************************************************)
(* What a namespace may write and recall: the decisions of promotion, of   *)
(* mirrored memory writes and of maintenance, and the scopes of a recall.  *)
(* config.writers is shared_writer_emails, config.explicit is              *)
(* shared_explicit_required, config.nonPrimary is                          *)
(* allow_non_primary_durable_writes.                                       *)
(***************************************************************************)
EXTENDS Namespace

Config ==
  [writers : SUBSET Identities, explicit : BOOLEAN, nonPrimary : BOOLEAN,
   preferAlt : BOOLEAN, scoped : BOOLEAN, gateways : SUBSET Platforms]

Denied(reason) ==
  [allowed |-> FALSE, layer |-> "none", principal |-> NoIdentity, reason |-> reason]
ToShared(reason) ==
  [allowed |-> TRUE, layer |-> "semantic_shared", principal |-> Shared, reason |-> reason]
ToUser(ns, reason) ==
  [allowed |-> TRUE, layer |-> "semantic_user", principal |-> ns.principal,
   reason |-> reason]

(* resolve_shared_intent: what the request's metadata says counts, and     *)
(* only without it what the text says.                                     *)
Requested(ns, said) == IF ns.shared = "unset" THEN said ELSE ns.shared = "yes"

(* Mutant: any identified caller counts as a writer.                       *)
SharedWriteIdentified(config, ns, requested) ==
  /\ ns.context = "primary"
  /\ requested \/ ~config.explicit
  /\ ns.gateway => ns.email # NoIdentity

(* shared_write_allowed                                                    *)
SharedWriteAllowed(config, ns, requested) ==
  /\ ns.context = "primary"
  /\ requested \/ ~config.explicit
  /\ ns.gateway => ns.email # NoIdentity /\ ns.email \in config.writers

(* Mutant: a caller without a principal gets a user layer of its own.      *)
PrivateAnybody(ns) == ToUser(ns, "gateway_private_user")

(* The part both decisions share once the shared pool is ruled out.        *)
PrivateUser(ns) ==
  IF ns.principal = Shared THEN Denied("gateway_principal_missing")
  ELSE ToUser(ns, "gateway_private_user")
-----------------------------------------------------------------------------
(* Mutant: an identified caller is private before sharing is considered.   *)
PromotionPrivateFirst(config, ns, said) ==
  IF ns.context # "primary" /\ ~config.nonPrimary THEN Denied("non_primary_blocked")
  ELSE IF ns.gateway THEN PrivateUser(ns)
  ELSE ToShared("non_gateway_shared")

(* promotion_write_decision; said is whether the text asks for sharing.    *)
PromotionDecision(config, ns, said) ==
  IF SharedWriteAllowed(config, ns, Requested(ns, said)) THEN ToShared("shared_authorized")
  ELSE IF ns.context # "primary" /\ ~config.nonPrimary THEN Denied("non_primary_blocked")
  ELSE IF ns.gateway THEN PrivateUser(ns)
  ELSE ToShared("non_gateway_shared")

(* memory_write_decision                                                   *)
MemoryWriteDecision(config, ns, said) ==
  IF ns.context # "primary" /\ ~config.nonPrimary THEN Denied("non_primary_blocked")
  ELSE IF ~ns.gateway THEN ToShared("non_gateway_shared")
  ELSE IF SharedWriteAllowed(config, ns, Requested(ns, said))
         THEN ToShared("shared_authorized")
  ELSE PrivateUser(ns)

(* Mutant: a summary of another principal is kept, in the workspace pool.  *)
MaintenanceSharesSummary(ns, target) ==
  IF ns.context # "maintenance" THEN Denied("not_maintenance_context")
  ELSE IF ~ns.gateway THEN Denied("maintenance_requires_gateway_context")
  ELSE IF ns.email = target THEN ToUser(ns, "maintenance_same_principal_user")
  ELSE ToShared("maintenance_shared")

(* maintenance_user_write_decision                                         *)
MaintenanceDecision(ns, target) ==
  IF ns.context # "maintenance" THEN Denied("not_maintenance_context")
  ELSE IF ~ns.gateway THEN Denied("maintenance_requires_gateway_context")
  ELSE IF ns.principal = Shared THEN Denied("maintenance_principal_missing")
  ELSE IF target # ns.principal THEN Denied("maintenance_cross_principal_blocked")
  ELSE ToUser(ns, "maintenance_same_principal_user")
-----------------------------------------------------------------------------
(* A scope filters by layer and principal; session and platform are Absent *)
(* where any will do, and except is a session that is left out.            *)
Scope(layer, principal, session, except, platform) ==
  [layer |-> layer, principal |-> principal, session |-> session,
   except |-> except, platform |-> platform]

(* Mutant: every gateway caller gets the scopes of an identified one.      *)
RecallScopesGateway(config, ns) ==
  LET platform == IF config.scoped THEN ns.platform ELSE Absent
  IN {Scope("semantic_shared", Shared, Absent, Absent, Absent)}
     \cup (IF ns.gateway
           THEN {Scope("episodic", ns.principal, Absent, Absent, platform),
                 Scope("semantic_user", ns.principal, Absent, Absent, platform)}
           ELSE {Scope("episodic", ns.principal, ns.session, Absent, platform)})

(* Mutant: the rows of other sessions are taken from every platform.       *)
RecallScopesAnywhere(config, ns) ==
  LET platform == IF config.scoped THEN ns.platform ELSE Absent
  IN {Scope("episodic", ns.principal, ns.session, Absent, platform),
      Scope("semantic_shared", Shared, Absent, Absent, Absent)}
     \cup (IF ns.gateway /\ ns.principal # Shared
           THEN {Scope("episodic", ns.principal, Absent, ns.session, Absent),
                 Scope("semantic_user", ns.principal, Absent, Absent, platform)}
           ELSE {})

(* Mutant: the session of the request is the one that is left out.         *)
RecallScopesSwapped(config, ns) ==
  LET platform == IF config.scoped THEN ns.platform ELSE Absent
  IN {Scope("episodic", ns.principal, Absent, ns.session, platform),
      Scope("semantic_shared", Shared, Absent, Absent, Absent)}
     \cup (IF ns.gateway /\ ns.principal # Shared
           THEN {Scope("semantic_user", ns.principal, Absent, Absent, platform)}
           ELSE {})

(* recall_scopes                                                           *)
RecallScopes(config, ns) ==
  LET platform == IF config.scoped THEN ns.platform ELSE Absent
  IN {Scope("episodic", ns.principal, ns.session, Absent, platform),
      Scope("semantic_shared", Shared, Absent, Absent, Absent)}
     \cup (IF ns.gateway /\ ns.principal # Shared
           THEN {Scope("episodic", ns.principal, Absent, ns.session, platform),
                 Scope("semantic_user", ns.principal, Absent, Absent, platform)}
           ELSE {})

(* The WHERE clause of search_exact and the filters of search_semantic,    *)
(* the day of the cross-session scope aside.                               *)
InScope(scope, row) ==
  /\ row.layer = scope.layer
  /\ row.principal = scope.principal
  /\ scope.session \in {Absent, row.session}
  /\ scope.except # row.session
  /\ scope.platform \in {Absent, row.platform}

(* maintenance_namespace of a principal found in the table, through        *)
(* _split_principal: the identity goes where the source says it came from. *)
SplitPrincipal(who, source) ==
  [email |-> IF source = "user_email" THEN who ELSE NoIdentity,
   id |-> IF source = "user_id" THEN who ELSE NoIdentity,
   alt |-> IF source = "user_id_alt" THEN who ELSE NoIdentity]
MaintenanceNamespace(config, who, source, session) ==
  LET split == SplitPrincipal(who, source)
  IN NamespaceOf(config,
       [session |-> session, platform |-> "gateway", context |-> "maintenance",
        email |-> split.email, id |-> split.id, alt |-> split.alt, shared |-> "unset"])
=============================================================================
