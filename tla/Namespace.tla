----------------------------- MODULE Namespace -----------------------------
(***************************************************************************)
(* From what a request says about its caller to the scope its memory is    *)
(* kept in.  A request names identities through keyword arguments,         *)
(* headers, the message body and a sidecar file; the runtime context keeps *)
(* what was resolved from them, and the namespace derives the principal.   *)
(***************************************************************************)
CONSTANTS
  Identities,   \* e-mail addresses, user ids and alternative ids
  NoIdentity,   \* the empty string
  Absent,       \* a keyword argument that is not passed at all
  Shared,       \* SHARED_PRINCIPAL
  Sessions,
  Platforms     \* what a request can call its platform; "cli" is DEFAULT_PLATFORM

Contexts == {"primary", "subagent", "maintenance"}
Sources == {"user_email", "user_id", "user_id_alt", "none"}
Intents == {"unset", "yes", "no"}      \* metadata_shared_intent

ASSUME NamespaceAssumption ==
  /\ {NoIdentity, Absent, Shared} \cap Identities = {}
  /\ NoIdentity # Absent /\ NoIdentity # Shared /\ Absent # Shared
  /\ "cli" \in Platforms /\ Absent \notin Platforms \cup Sessions
  /\ Absent \notin Contexts \cup Intents

Optional == Identities \cup {NoIdentity}
Request ==
  [email : Optional \cup {Absent}, id : Optional \cup {Absent},
   alt : Optional \cup {Absent},
   header : [email : Optional, id : Optional, platform : Platforms \cup {Absent}],
   body : Optional,                             \* e-mail in a system message
   sidecar : [email : Optional, id : Optional], \* of the session, if still valid
   platform : Platforms \cup {Absent},
   context : Contexts \cup {Absent},
   shared : Intents \cup {Absent}]
Runtime ==
  [session : Sessions, platform : Platforms, context : Contexts,
   email : Optional, id : Optional, alt : Optional, shared : Intents]

(* Python's x or y; kwargs.get(x, y).                                      *)
Or(x, y) == IF x \in {NoIdentity, Absent} THEN y ELSE x
Get(x, y) == IF x = Absent THEN y ELSE x
-----------------------------------------------------------------------------
(* _platform_from_kwargs                                                   *)
PlatformOf(k) == Get(k.platform, Get(k.header.platform, "cli"))

(* runtime_from_kwargs: arguments before headers; the body and then the    *)
(* sidecar only for a gateway platform and only when neither an e-mail nor *)
(* an id is known.                                                         *)
RuntimeOf(session, k) ==
  LET email == Or(k.email, k.header.email)
      id == Or(k.id, k.header.id)
      known == \/ PlatformOf(k) = "cli"
               \/ {email, id} # {NoIdentity}
  IN [session |-> session,
      platform |-> PlatformOf(k),
      context |-> Get(k.context, "primary"),
      email |-> IF known THEN email ELSE Or(k.body, k.sidecar.email),
      id |-> IF known \/ k.body # NoIdentity THEN id ELSE k.sidecar.id,
      alt |-> Or(k.alt, NoIdentity),
      shared |-> Get(k.shared, "unset")]

(* on_session_switch: what the notification does not pass is taken over    *)
(* from the runtime it replaces, platform and identity included; the       *)
(* message body is not looked at.                                          *)
Merged(rt, k) ==
  [email |-> Get(k.email, rt.email), id |-> Get(k.id, rt.id), alt |-> Get(k.alt, rt.alt),
   header |-> k.header, body |-> NoIdentity, sidecar |-> k.sidecar,
   platform |-> Get(k.platform, rt.platform), context |-> Get(k.context, rt.context),
   shared |-> Get(k.shared, rt.shared)]
Rebind(rt, session, k) == RuntimeOf(session, Merged(rt, k))

(* Mutant: the alternative id is not carried over.                         *)
CarriedWithoutAlt(rt, sidecar) ==
  [email |-> rt.email, id |-> rt.id, alt |-> NoIdentity,
   header |-> [email |-> NoIdentity, id |-> NoIdentity, platform |-> Absent],
   body |-> NoIdentity, sidecar |-> sidecar,
   platform |-> rt.platform, context |-> rt.context, shared |-> rt.shared]

(* _active_namespace: another session id than the current one is resolved  *)
(* from the current runtime, and may find a sidecar of its own.            *)
Carried(rt, sidecar) ==
  [email |-> rt.email, id |-> rt.id, alt |-> rt.alt,
   header |-> [email |-> NoIdentity, id |-> NoIdentity, platform |-> Absent],
   body |-> NoIdentity, sidecar |-> sidecar,
   platform |-> rt.platform, context |-> rt.context, shared |-> rt.shared]
ActiveRuntime(rt, session, sidecar) ==
  IF session = rt.session THEN rt ELSE RuntimeOf(session, Carried(rt, sidecar))
-----------------------------------------------------------------------------
(* _is_gateway; config.gateways is gateway_platforms.                      *)
IsGateway(config, rt) ==
  \/ {rt.email, rt.id, rt.alt} # {NoIdentity}
  \/ rt.platform # "cli"
  \/ rt.platform \in config.gateways

(* Mutant: the last resort is the alternative id, given or not.            *)
GatewayPrincipalOrEmpty(config, rt) ==
  IF rt.email # NoIdentity THEN [who |-> rt.email, source |-> "user_email"]
  ELSE IF rt.id # NoIdentity THEN [who |-> rt.id, source |-> "user_id"]
  ELSE [who |-> rt.alt, source |-> "user_id_alt"]

(* _gateway_principal                                                      *)
GatewayPrincipal(config, rt) ==
  IF rt.email # NoIdentity THEN [who |-> rt.email, source |-> "user_email"]
  ELSE IF config.preferAlt /\ rt.alt # NoIdentity
         THEN [who |-> rt.alt, source |-> "user_id_alt"]
  ELSE IF rt.id # NoIdentity THEN [who |-> rt.id, source |-> "user_id"]
  ELSE IF rt.alt # NoIdentity THEN [who |-> rt.alt, source |-> "user_id_alt"]
  ELSE [who |-> Shared, source |-> "none"]

(* resolve_namespace, without the durable_* flags, which no decision reads *)
NamespaceOf(config, rt) ==
  LET gateway == IsGateway(config, rt)
      principal == IF gateway THEN GatewayPrincipal(config, rt)
                   ELSE [who |-> Shared, source |-> "none"]
  IN [principal |-> principal.who, source |-> principal.source,
      gateway |-> gateway, session |-> rt.session, platform |-> rt.platform,
      context |-> rt.context, email |-> rt.email, shared |-> rt.shared]
=============================================================================
