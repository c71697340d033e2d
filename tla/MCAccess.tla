------------------------------ MODULE MCAccess ------------------------------
(* Two people with an e-mail address, a user id and an alternative id      *)
(* each, and the requests that name them in different ways.                *)
EXTENDS Access, TLC

CONSTANTS ann, bob, aMail, aId, aAlt, bMail, bId, bAlt, a1, a2, b1, maint

MCSignals == ann :> {aMail, aId, aAlt} @@ bob :> {bMail, bId, bAlt}
MCOwned == ann :> {a1, a2} @@ bob :> {b1}

Blank ==
  [email |-> Absent, id |-> Absent, alt |-> Absent,
   header |-> [email |-> NoIdentity, id |-> NoIdentity, platform |-> Absent],
   body |-> NoIdentity, sidecar |-> [email |-> NoIdentity, id |-> NoIdentity],
   platform |-> Absent, context |-> Absent, shared |-> Absent]

ByIds(mail, id) ==
  [Blank EXCEPT !.email = mail, !.id = id, !.platform = "gateway", !.shared = "yes"]
ById(id) == [Blank EXCEPT !.id = id, !.platform = "gateway"]
ByHeader(mail) ==
  [Blank EXCEPT !.header = [email |-> mail, id |-> NoIdentity, platform |-> "webui"],
                !.shared = "no"]
BySubagent(id, alt) == [Blank EXCEPT !.alt = alt, !.id = id, !.context = "subagent"]
BySidecar(mail, id) ==
  [Blank EXCEPT !.platform = "webui", !.sidecar = [email |-> mail, id |-> id]]
ByNobody == [Blank EXCEPT !.platform = "webui"]

MCRequests ==
  ann :> {Blank, ByIds(aMail, aId), ByHeader(aMail), BySubagent(aId, aAlt), ByNobody}
  @@ bob :> {ById(bId), BySidecar(bMail, bId), ByNobody}

(* Only requests that name their caller by user id, some by e-mail too.    *)
MCNamingRequests ==
  ann :> {ByIds(aMail, aId), ById(aId)} @@ bob :> {ByIds(bMail, bId), ById(bId)}

Default ==
  [writers |-> {}, explicit |-> TRUE, nonPrimary |-> FALSE, preferAlt |-> FALSE,
   scoped |-> FALSE, gateways |-> {"gateway"}]
MCConfigs ==
  {[Default EXCEPT !.writers = {aMail}],
   [Default EXCEPT !.writers = {bMail}, !.explicit = FALSE, !.scoped = TRUE],
   [Default EXCEPT !.nonPrimary = TRUE, !.preferAlt = TRUE]}
=============================================================================
