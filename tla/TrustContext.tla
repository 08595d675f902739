---------------------------- MODULE TrustContext ----------------------------
(* How the one trusted context of a request is derived at ingress            *)
(* (internal/trust/context.go), as a function of the request.  The resolver  *)
(* keeps nothing between two requests, so the specification is a request at  *)
(* the door and then another one, whichever it is.                           *)
EXTENDS Integers, Sequences

CONSTANTS Tenant,      \* the deployment's tenant
          Elsewhere,   \* the tenant of a credential that is not the deployment's
          Configured   \* the schemes whose verifier is wired

VARIABLE ingress       \* the request at the door

Schemes == {"cookie", "CaseTicket", "Bearer", "StepGrant", "Basic"}

\* NewResolver: each verifier stands for one scheme.
Verifiers == Configured \subseteq Schemes

ASSUME SourcesKnown == Verifiers

\* What is presented, with what its verifier would answer and what the verified
\* identity would say; an Authorization value may name a scheme nobody knows.
Credentials ==
  [scheme : Schemes \cup {"Digest"}, wellFormed : BOOLEAN, verdict : {"ok", "rejected", "unavailable"},
   tenant : {Tenant, Elsewhere}, canonical : BOOLEAN, expires : {"none", "past", "future"}]

Cookies == {c \in Credentials : c.scheme = "cookie"}

OriginNames == {"atlas", "malformed", "astraclaw", "AstraClaw", "xiaozhi"}

\* forged: an identity header is present; origins: the X-Agent-Origin values;
\* org: what the snapshot store would answer.
IngressRequests ==
  [forged : BOOLEAN, protected : BOOLEAN, origins : Seq(OriginNames), org : {"sealed", "none", "unavailable"},
   cookies : Seq(Cookies), authorizations : Seq(Credentials \ Cookies)]

-----------------------------------------------------------------------------
\* HTTPStatus
HTTPStatus(err) ==
  CASE err = "unavailable" -> 503
    [] err = "forged" -> 400
    [] OTHER -> 401

\* A refusal; recorded says whether a rejection goes to the log and the audit
\* sink, named whether it carries a verified principal.
Refuse(err, recorded, named) ==
  [admitted |-> FALSE, status |-> HTTPStatus(err), recorded |-> recorded, named |-> named]

\* declaredOrigin: at most one value, and canonical.
OriginDeclared(origins) == Len(origins) = 0 \/ (Len(origins) = 1 /\ origins[1] # "malformed")

\* connectorCapabilityAllowed; the names are compared without case.
ConnectorCapabilityAllowed(scheme, origins) ==
  /\ scheme # "Basic"
  /\ \A i \in DOMAIN origins : origins[i] \notin {"astraclaw", "AstraClaw", "xiaozhi"}

\* credentialFailure
CredentialFailure(verdict) ==
  IF verdict = "rejected" THEN Refuse("invalid", TRUE, FALSE) ELSE Refuse("unavailable", FALSE, FALSE)

Expiring(scheme) == scheme # "Basic"

\* Faulty variant: a credential without an expiry gets the service's lifetime.
PrincipalContext_DefaultLife(request, credential) ==
  IF credential.tenant # Tenant \/ ~credential.canonical THEN Refuse("invalid", TRUE, TRUE)
  ELSE IF credential.scheme # "Basic" /\ request.org # "sealed" THEN Refuse("unavailable", FALSE, FALSE)
  ELSE IF Expiring(credential.scheme) /\ credential.expires = "past" THEN Refuse("invalid", TRUE, TRUE)
  ELSE [admitted |-> TRUE, identity |-> credential.scheme,
        orgBound |-> credential.scheme # "Basic",
        connectors |-> ConnectorCapabilityAllowed(credential.scheme, request.origins)]

\* principalContext, for an identity its verifier vouched for.
PrincipalContext(request, credential) ==
  IF credential.tenant # Tenant \/ ~credential.canonical THEN Refuse("invalid", TRUE, TRUE)
  ELSE IF credential.scheme # "Basic" /\ request.org # "sealed" THEN Refuse("unavailable", FALSE, FALSE)
  ELSE IF Expiring(credential.scheme) /\ credential.expires # "future" THEN Refuse("invalid", TRUE, TRUE)
  ELSE [admitted |-> TRUE, identity |-> credential.scheme,
        orgBound |-> credential.scheme # "Basic",
        connectors |-> ConnectorCapabilityAllowed(credential.scheme, request.origins)]

\* The verifier of the credential's own kind, then the checks every kind shares.
Verified(request, credential) ==
  IF credential.scheme \notin Configured \/ ~credential.wellFormed THEN Refuse("invalid", TRUE, FALSE)
  ELSE IF credential.verdict # "ok" THEN CredentialFailure(credential.verdict)
  ELSE PrincipalContext(request, credential)

ResolveSession(request, cookie) == Verified(request, cookie)

\* resolveAuthorization; an unknown scheme is refused like a malformed value.
ResolveAuthorization(request, authorization) ==
  IF authorization.scheme \notin Schemes THEN Refuse("invalid", TRUE, FALSE)
  ELSE Verified(request, authorization)

\* More than one credential is refused before any verifier runs.
Conflicting(cookies, authorizations) ==
  \/ Len(cookies) > 1 \/ Len(authorizations) > 1
  \/ Len(cookies) = 1 /\ Len(authorizations) > 0

\* resolve; a request without a credential is not recorded.
Resolve(request) ==
  IF Conflicting(request.cookies, request.authorizations) THEN Refuse("conflicting", TRUE, FALSE)
  ELSE IF Len(request.cookies) = 1 THEN ResolveSession(request, request.cookies[1])
  ELSE IF Len(request.authorizations) = 1 THEN ResolveAuthorization(request, request.authorizations[1])
  ELSE Refuse("unauthenticated", FALSE, FALSE)

\* Middleware: the handler runs without a context on an unprotected path.
Middleware(request) ==
  IF request.forged \/ ~OriginDeclared(request.origins) THEN Refuse("forged", TRUE, FALSE)
  ELSE IF request.protected THEN Resolve(request)
  ELSE [admitted |-> TRUE, identity |-> "none", orgBound |-> FALSE, connectors |-> FALSE]

\* ResolveBrowserRequest, for me and logout: the same checks, always resolved,
\* and only a browser's own two kinds accepted.
ResolveBrowserRequest(request) ==
  IF request.forged \/ ~OriginDeclared(request.origins) THEN Refuse("forged", TRUE, FALSE)
  ELSE IF Resolve(request).admitted /\ Resolve(request).identity \notin {"cookie", "Bearer"}
       THEN Refuse("invalid", TRUE, FALSE)
  ELSE Resolve(request)

\* browserTrustAuditSink and AppendBrowserAudit: a row needs an actor, and the
\* refusal to write one without is dropped.
RecordTrustRejection(outcome) == outcome.recorded /\ outcome.named

-----------------------------------------------------------------------------
(* Reference                                                                 *)

Presented(request) == request.cookies \o request.authorizations

\* The one credential of the request that may speak for it.
Authentic(request, c) ==
  /\ Presented(request) = <<c>>
  /\ c.scheme \in Configured /\ c.wellFormed /\ c.verdict = "ok"
  /\ c.tenant = Tenant /\ c.canonical
  /\ c.scheme # "Basic" => c.expires = "future" /\ request.org = "sealed"

\* A protected request reaches its handler exactly when it presents one
\* credential, verified, of this tenant, alive and bound to a sealed
\* organisation, and then under that credential's identity (Middleware and
\* ResolveBrowserRequest, through five kinds of credential).
AdmitsExactlyAuthentic(request) ==
  LET outcome == Middleware(request)
      browser == ResolveBrowserRequest(request)
      clean == ~request.forged /\ OriginDeclared(request.origins)
      entitled == {i \in DOMAIN Presented(request) : Authentic(request, Presented(request)[i])} IN
  /\ request.protected =>
       /\ outcome.admitted <=> clean /\ entitled # {}
       /\ outcome.admitted => \A i \in entitled : outcome.identity = Presented(request)[i].scheme
  /\ browser.admitted <=> /\ clean /\ entitled # {}
                          /\ \A i \in entitled : Presented(request)[i].scheme \in {"cookie", "Bearer"}

\* What a request says of its origin never changes who it is and never adds
\* connector capability; the assistants' origins take it away in any spelling
\* (connectorCapabilityAllowed).
OriginOnlyLowers(request) ==
  LET outcome == Middleware(request)
      silent == Middleware([request EXCEPT !.origins = <<>>]) IN
  outcome.admitted =>
    /\ silent.admitted /\ silent.identity = outcome.identity
    /\ outcome.connectors => silent.connectors /\ request.origins \notin
         {<<"astraclaw">>, <<"AstraClaw">>, <<"xiaozhi">>}

IngressSpec == ingress \in IngressRequests /\ [][ingress' \in IngressRequests]_ingress

\* Every request at the door is resolved as the reference says, and no origin
\* raises what it may do (Middleware, ResolveBrowserRequest).
IngressMeetsReference == AdmitsExactlyAuthentic(ingress) /\ OriginOnlyLowers(ingress)
=============================================================================
