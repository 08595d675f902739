----------------------------- MODULE StepGrants -----------------------------
(***************************************************************************)
(* Step grants on evidence (internal/tickets, internal/app/grants.go and   *)
(* postgres_grants.go): a request pins its organisation version at         *)
(* ingress, is authorised against the sealed policy, and is rechecked and  *)
(* recorded in one transaction under the publication and the audit lock.   *)
(***************************************************************************)
EXTENDS OrgPolicy

CONSTANTS
  Requests, Tickets,
  TicketActor,      \* Tickets -> Users: case_tickets.actor_user_id
  TicketExpiry,     \* Tickets -> Nat:   case_tickets.expires_at
  MaxStepGrantTTL,
  TTLs,             \* ttl_seconds callers ask for
  MaxTime,          \* bound: the clock
  MaxOtherEvents    \* bound: events appended by other parts of the gateway

ASSUME GrantAssumption ==
  /\ NoOne \notin Requests /\ Requests \cap Publishers = {}
  /\ TicketActor \in [Tickets -> Users] /\ TicketExpiry \in [Tickets -> Nat]
  /\ MaxStepGrantTTL \in Nat /\ TTLs \subseteq Nat /\ MaxTime \in Nat

VARIABLES
  clock,
  active,      \* the tickets whose status is active
  owner,       \* sensitive_resource_ownerships: [unit, version] of the resource
  req,         \* what each request is doing
  grants,      \* step_grants joined with step_grant_issuances
  auditLock,   \* the advisory lock (enterprise, 1)
  audit        \* the enterprise's audit events, in created_at order

grantVars == <<clock, active, owner, req, grants, auditLock, audit>>

NoOwner == [unit |-> NoUnit, version |-> 0]

TypeOK ==
  /\ clock \in 0..MaxTime
  /\ active \subseteq Tickets
  /\ owner = NoOwner \/ (owner.version \in DOMAIN sealed /\ owner.unit \in DOMAIN sealed[owner.version].parent)
  /\ orgLock \in Publishers \cup Requests \cup {NoOne}
  /\ auditLock \in Requests \cup {NoOne}
  /\ \A r \in Requests : req[r].pc \in {"idle", "create", "authorized", "org", "checked",
                                        "audit", "verify", "found", "vaudit", "done"}
  /\ \A g \in grants : g.version \in DOMAIN sealed /\ g.request \in Requests

GrantInit ==
  /\ OrgInit
  /\ clock = 0
  /\ active = Tickets
  /\ owner = NoOwner
  /\ req = [r \in Requests |-> [pc |-> "idle"]]
  /\ grants = {}
  /\ auditLock = NoOne
  /\ audit = <<>>

SetReq(r, rec) == req' = [req EXCEPT ![r] = rec]

Finish(r) == SetReq(r, [pc |-> "done"])

-----------------------------------------------------------------------------
(* The world around a request. *)

Tick ==
  /\ clock < MaxTime
  /\ clock' = clock + 1
  /\ UNCHANGED <<active, owner, req, grants, auditLock, audit, orgVars>>

\* A ticket row held FOR SHARE cannot be updated.
RevokeTicket(t) ==
  /\ t \in active
  /\ \A r \in Requests : req[r].pc \in {"checked", "audit"} => req[r].ticket # t
  /\ active' = active \ {t}
  /\ UNCHANGED <<clock, owner, req, grants, auditLock, audit, orgVars>>

\* Registering the resource's owner: the trigger takes the publication lock
\* and accepts only the latest sealed version, whose units it references.
RegisterOwner(u) ==
  /\ orgLock = NoOne
  /\ LatestSealed > 0 /\ u \in DOMAIN sealed[LatestSealed].parent
  /\ owner' = [unit |-> u, version |-> LatestSealed]
  /\ UNCHANGED <<clock, active, req, grants, auditLock, audit, orgVars>>

\* AppendBrowserAudit and the like: one transaction under the audit lock.
AppendOtherEvent ==
  /\ auditLock = NoOne
  /\ Len(SelectSeq(audit, LAMBDA e : e.what = "other")) < MaxOtherEvents
  /\ audit' = Append(audit, [what |-> "other", of |-> NoOne, prev |-> Len(audit)])
  /\ UNCHANGED <<clock, active, owner, req, grants, auditLock, orgVars>>

-----------------------------------------------------------------------------
(* POST /v1/step-grants *)

\* VerifyAccessTicket: a ticket credential is good while active and unexpired.
TicketAdmits(t, user) == user = TicketActor[t] /\ t \in active /\ TicketExpiry[t] > clock

\* The trusted context: a ticket credential names its own ticket and actor, any
\* other credential leaves the ticket to the body. The version is pinned here.
Ingress(r, user, t, ttl, byTicket) ==
  /\ req[r].pc = "idle"
  /\ LatestSealed > 0
  /\ byTicket => TicketAdmits(t, user)
  /\ SetReq(r, [pc |-> "create", user |-> user, ticket |-> t, ttl |-> ttl,
                version |-> LatestSealed])
  /\ UNCHANGED <<clock, active, owner, grants, auditLock, audit, orgVars>>

\* Faulty variant of GrantAllowed: the owner's unit is left out of the question.
GrantAllowed_Untargeted(user, version, unit) ==
  Evaluate(AccessSnapshot(user, LatestSealed), version,
           "dream_evidence", "dream_evidence_read", NoUnit).decision = "allow"

\* ScopedGrantAuthorizer.AuthorizeGrant.  A snapshot beyond the sealed limits is
\* not even loaded (LoadAccessSnapshot): no grant either, as for an unsound one.
GrantAllowed(user, version, unit) ==
  LET d == Evaluate(AccessSnapshot(user, LatestSealed), version,
                    "dream_evidence", "dream_evidence_read", unit)
  IN /\ d.decision = "allow" /\ d.version = version /\ d.risk = "high" /\ ~d.fallback
     /\ d.permissions = {"approve_high_risk"}
     /\ d.scopes # {} /\ Cardinality(d.scopes) <= MaxSealedMemberships

\* The actor's version is the grant's; expiry is counted from now.
Authorize(r) ==
  /\ req[r].pc = "create"
  /\ IF /\ owner # NoOwner /\ owner.version = req[r].version
        /\ GrantAllowed(req[r].user, req[r].version, owner.unit)
     THEN SetReq(r, [pc |-> "authorized", user |-> req[r].user, ticket |-> req[r].ticket,
                     version |-> req[r].version, unit |-> owner.unit, created |-> clock,
                     expires |-> clock + (IF req[r].ttl > MaxStepGrantTTL
                                          THEN MaxStepGrantTTL ELSE req[r].ttl)])
     ELSE Finish(r)
  /\ UNCHANGED <<clock, active, owner, grants, auditLock, audit, orgVars>>

AcquireEnterpriseOrgPublicationLock(r) ==
  /\ req[r].pc = "authorized" /\ orgLock = NoOne
  /\ orgLock' = r
  /\ req' = [req EXCEPT ![r].pc = "org"]
  /\ UNCHANGED <<clock, active, owner, grants, auditLock, audit,
                 live, lived, pub, head, sealed, cursor, received>>

\* Faulty variant of StillGrantable: the ticket's status at ingress is trusted.
StillGrantable_TicketTrusted(r) ==
  /\ TicketExpiry[req[r].ticket] > req[r].created
  /\ LatestSealed = req[r].version
  /\ owner = [unit |-> req[r].unit, version |-> req[r].version]

\* GetActiveCaseTicketForGrant: active, the actor's, and not expired at creation.
ActiveCaseTicketForGrant(r) ==
  /\ req[r].ticket \in active /\ TicketActor[req[r].ticket] = req[r].user
  /\ TicketExpiry[req[r].ticket] > req[r].created

\* The ticket row, locked FOR SHARE; the owner and the latest version again.
StillGrantable(r) ==
  /\ ActiveCaseTicketForGrant(r)
  /\ LatestSealed = req[r].version
  /\ owner = [unit |-> req[r].unit, version |-> req[r].version]

Recheck(r) ==
  /\ req[r].pc = "org"
  /\ IF StillGrantable(r)
     THEN /\ req' = [req EXCEPT ![r].pc = "checked",
                                ![r].expires = IF TicketExpiry[req[r].ticket] < @
                                               THEN TicketExpiry[req[r].ticket] ELSE @]
          /\ orgLock' = orgLock
     ELSE Finish(r) /\ orgLock' = NoOne
  /\ UNCHANGED <<clock, active, owner, grants, auditLock, audit,
                 live, lived, pub, head, sealed, cursor, received>>

\* A request that goes on with the hash of the event before its own.
WithPrev(rec, to) ==
  [f \in DOMAIN rec \cup {"prev"} |-> IF f = "pc" THEN to ELSE IF f = "prev" THEN Len(audit) ELSE rec[f]]

\* The lock, and under it the hash the next event links to.
AcquireEnterpriseAuditLock(r, from, to) ==
  /\ req[r].pc = from /\ auditLock = NoOne
  /\ auditLock' = r
  /\ SetReq(r, WithPrev(req[r], to))
  /\ UNCHANGED <<clock, active, owner, grants, audit, orgVars>>

\* validate_step_grant_issuance, at commit.
ValidIssuance(r) ==
  /\ req[r].expires > req[r].created /\ req[r].expires <= req[r].created + MaxStepGrantTTL
  /\ req[r].expires <= TicketExpiry[req[r].ticket]
  /\ LatestSealed = req[r].version
  /\ owner = [unit |-> req[r].unit, version |-> req[r].version]

\* The step_grants and step_grant_issuances rows of a request.
IssuanceOf(r) ==
  [request |-> r, user |-> req[r].user, ticket |-> req[r].ticket, unit |-> req[r].unit,
   version |-> req[r].version, created |-> req[r].created, expires |-> req[r].expires]

CommitGrant(r) ==
  /\ req[r].pc = "audit"
  /\ IF ValidIssuance(r)
     THEN /\ grants' = grants \cup {IssuanceOf(r)}
          /\ audit' = Append(audit, [what |-> "issue", of |-> r, prev |-> req[r].prev])
     ELSE UNCHANGED <<grants, audit>>
  /\ Finish(r)
  /\ orgLock' = NoOne /\ auditLock' = NoOne
  /\ UNCHANGED <<clock, active, owner, live, lived, pub, head, sealed, cursor, received>>

\* A statement fails, the context is cancelled or the process dies.
AbortGrant(r) ==
  /\ req[r].pc \in {"authorized", "org", "checked", "audit", "found", "vaudit"}
  /\ Finish(r)
  /\ orgLock' = IF orgLock = r THEN NoOne ELSE orgLock
  /\ auditLock' = IF auditLock = r THEN NoOne ELSE auditLock
  /\ UNCHANGED <<clock, active, owner, grants, audit,
                 live, lived, pub, head, sealed, cursor, received>>

-----------------------------------------------------------------------------
(* POST /v1/tickets/verify *)

\* The time is read before the transaction begins.
VerifyIngress(r, user) ==
  /\ req[r].pc = "idle"
  /\ SetReq(r, [pc |-> "verify", user |-> user, now |-> clock])
  /\ UNCHANGED <<clock, active, owner, grants, auditLock, audit, orgVars>>

\* The exact binding: a holder of the token who is not its actor is denied.
VerifiesFor(g, r) == g.user = req[r].user /\ req[r].now < g.expires

\* GetStepGrantByTokenHash
FindGrant(r, g) ==
  /\ req[r].pc = "verify"
  /\ IF VerifiesFor(g, r)
     THEN SetReq(r, [pc |-> "found", user |-> req[r].user, now |-> req[r].now, grant |-> g.request])
     ELSE Finish(r)
  /\ UNCHANGED <<clock, active, owner, grants, auditLock, audit, orgVars>>

CommitVerification(r) ==
  /\ req[r].pc = "vaudit"
  /\ audit' = Append(audit, [what |-> "verify", of |-> req[r].grant, prev |-> req[r].prev])
  /\ Finish(r)
  /\ auditLock' = NoOne
  /\ UNCHANGED <<clock, active, owner, grants, orgVars>>

-----------------------------------------------------------------------------
GrantRequest(r) ==
  \/ \E user \in Users, t \in Tickets, ttl \in TTLs, b \in BOOLEAN : Ingress(r, user, t, ttl, b)
  \/ Authorize(r) \/ AcquireEnterpriseOrgPublicationLock(r) \/ Recheck(r)
  \/ AcquireEnterpriseAuditLock(r, "checked", "audit") \/ CommitGrant(r) \/ AbortGrant(r)
  \/ \E user \in Users : VerifyIngress(r, user)
  \/ \E g \in grants : FindGrant(r, g)
  \/ AcquireEnterpriseAuditLock(r, "found", "vaudit") \/ CommitVerification(r)

\* Nothing left to do: every request answered, no publication under way.
Quiescent ==
  /\ \A r \in Requests : req[r].pc = "done" \/ (req[r].pc = "verify" /\ grants = {})
  /\ \A p \in Publishers : pub[p].pc = "idle"
  /\ UNCHANGED <<orgVars, grantVars>>

GrantNext ==
  \/ OrgNext /\ UNCHANGED grantVars
  \/ Tick \/ AppendOtherEvent
  \/ \E t \in Tickets : RevokeTicket(t)
  \/ \E u \in Units : RegisterOwner(u)
  \/ \E r \in Requests : GrantRequest(r)
  \/ Quiescent

GrantSpec == GrantInit /\ [][GrantNext]_<<orgVars, grantVars>>

-----------------------------------------------------------------------------
(* Properties. *)

\* Every grant was allowed by the sealed version it names: the policy of that
\* version entitles its actor to read evidence at its unit, though units move
\* and versions are published between ingress, authorisation and commit.
GrantWasEntitled ==
  \A g \in grants :
    \E m \in sealed[g.version].members :
      /\ m[1] = g.user /\ m[3] = "approve_high_risk"
      /\ m[2] \in Above(sealed[g.version].parent, g.unit)

\* At the moment a grant is recorded its version is the latest, its unit is the
\* resource's registered owner, and its ticket is its actor's, still active:
\* a revocation, a publication or a new owner during the request stops it.
GrantFreshAtIssue ==
  [][\A g \in grants' \ grants :
       /\ g.version = LatestSealed /\ owner = [unit |-> g.unit, version |-> g.version]
       /\ g.ticket \in active /\ TicketActor[g.ticket] = g.user
       /\ g.expires <= TicketExpiry[g.ticket]]_<<orgVars, grantVars>>

\* The audit events of issues and verifications form one chain: each links to
\* the event before it, no two to the same one, and no verification is recorded
\* of a grant whose issue is not recorded before it.
AuditChainLinear ==
  \A i \in DOMAIN audit :
    /\ audit[i].prev = i - 1
    /\ audit[i].what = "verify" => \E j \in 1..(i-1) : audit[j] = [what |-> "issue", of |-> audit[i].of, prev |-> j - 1]

\* Every grant was its actor's to have and is accounted for in the chain
\* (AuthorizeAndCreateGrant and the governed transaction of postgres_grants.go).
GrantsAreSound == TypeOK /\ GrantWasEntitled /\ AuditChainLinear
=============================================================================
