----------------------------- MODULE MCIdentity -----------------------------
(* Four instances in one run: login attempts and their limits; one pending   *)
(* attempt and everything the session it opens can meet; the trust registry  *)
(* of one product; and one state for every small request at ingress.         *)
EXTENDS BrowserSessions, TrustContext, AgentTrust, TLC

CONSTANT MaxTokens      \* access tokens of the session

VARIABLE part

Symmetry == Permutations(Requests) \cup Permutations(Browsers) \cup Permutations(Admins)

Simple(scheme) ==
  [scheme |-> scheme, wellFormed |-> TRUE, verdict |-> "ok", tenant |-> Tenant, canonical |-> TRUE,
   expires |-> "future"]

\* No credential, any one, or two good ones.
Bundles ==
  {[cookies |-> <<>>, authorizations |-> <<>>],
   [cookies |-> <<Simple("cookie"), Simple("cookie")>>, authorizations |-> <<>>]}
  \cup {[cookies |-> <<c>>, authorizations |-> <<>>] : c \in Cookies}
  \cup {[cookies |-> <<>>, authorizations |-> <<c>>] : c \in Credentials \ Cookies}
  \cup {[cookies |-> k, authorizations |-> <<Simple(s)>> \o t] :
          k \in {<<>>, <<Simple("cookie")>>}, s \in {"Bearer", "Basic"}, t \in {<<>>, <<Simple("Basic")>>}}

OriginValues == {<<>>, <<"atlas">>, <<"malformed">>, <<"astraclaw">>, <<"AstraClaw">>, <<"xiaozhi">>, <<"atlas", "atlas">>}

\* At the door of the other three: a request of an unprotected path.
NoIngress ==
  [forged |-> FALSE, protected |-> FALSE, origins |-> <<>>, org |-> "sealed", cookies |-> <<>>, authorizations |-> <<>>]

PendingAttempt ==
  LET s == Fresh(States) IN
  \E b \in Browsers :
    /\ attempts = (s :> [browser |-> b, expires |-> LoginTimeout])
    /\ scopeCounters = (LoginTimeout :> 1) /\ browserCounters = (<<b, LoginTimeout>> :> 1)

MCInit ==
  /\ part \in {"login", "session", "trust", "ingress"}
  /\ clock = 0 /\ req = [r \in Requests |-> Idle] /\ scopeLock = NoOne
  /\ rate = <<>> /\ admitted = [t \in 0..MaxTime |-> 0]
  /\ IF part = "session" THEN PendingAttempt
     ELSE attempts = <<>> /\ scopeCounters = <<>> /\ browserCounters = <<>>
  /\ SessionInit /\ TrustInit
  /\ IF part = "ingress"
     THEN \E bundle \in Bundles, forged, protected \in BOOLEAN, origins \in OriginValues,
             org \in {"sealed", "none", "unavailable"} :
            ingress = [forged |-> forged, origins |-> origins, protected |-> protected, org |-> org,
                       cookies |-> bundle.cookies, authorizations |-> bundle.authorizations]
     ELSE ingress = NoIngress

\* A login that was handed to the identity provider ends with the request.
LoginEnds(r) ==
  /\ req[r].pc = "consumed" /\ req' = Answer(r) /\ UNCHANGED <<clock, attemptVars, rateVars>>

\* One authorize request and MaxTokens tokens beside the session's other users;
\* a login that authorize starts is not pursued.
SessionPart ==
  \/ \E r \in Requests :
       \/ SessionStep(r) /\ Cardinality(DOMAIN tokens') =< MaxTokens
       \/ /\ \/ \E b \in Browsers : cookie[b] # NoOne /\ rate = <<>> /\ Authorize(r, b)
             \/ \E b \in Browsers, s \in States : Callback(r, b, s)
             \/ AllowAuthorize(r) \/ ConsumeLoginAttempt(r) \/ GiveUp(r)
          /\ UNCHANGED sessionVars
  \/ Tick /\ UNCHANGED sessionVars

LoginPart == (\E r \in Requests : LoginStep(r, {}) \/ LoginEnds(r)) \/ Tick

MCNext ==
  /\ UNCHANGED <<part, ingress>>
  /\ \/ part = "login" /\ LoginPart /\ UNCHANGED <<sessionVars, trustVars>>
     \/ part = "session" /\ SessionPart /\ UNCHANGED trustVars
     \/ part = "trust" /\ TrustNext /\ UNCHANGED <<loginVars, sessionVars>>
     \/ part = "ingress" /\ UNCHANGED <<loginVars, sessionVars, trustVars>>

MCSpec == MCInit /\ [][MCNext]_<<loginVars, sessionVars, trustVars, part, ingress>>
=============================================================================
