----------------------------- MODULE AgentTrust -----------------------------
(* The trust registry of one Agent product (internal/agenttrust and its      *)
(* handlers): the registration, the immutable certification revisions and    *)
(* the append-only status log of each, a chain in which every row names the  *)
(* hash of the row before.  A row's hash is stood for by its position in the *)
(* chain.  Issuing holds the product's advisory lock for its transaction and *)
(* the row lock of each revision it supersedes; revoking holds the row lock. *)
EXTENDS Integers, Sequences, FiniteSets, FiniteSetsExt, SequencesExt

CONSTANTS Admins,        \* callers of the registry
          Nobody,
          MaxRevisions,  \* bound: revisions issued
          MaxRevokes     \* bound: revocation rows of one revision

ASSUME TrustAssumption == Nobody \notin Admins /\ MaxRevisions \in Nat

VARIABLES client,       \* row of agent_clients
          certs,        \* rows of agent_certifications, by revision
          log,          \* rows of agent_certification_status_changes, by revision
          productLock,  \* the advisory lock
          rowLock,      \* the lock on each revision's row
          op            \* what each caller is doing

trustVars == <<client, certs, log, productLock, rowLock, op>>

Origins == {"", "astraclaw"}
Classes == {"first_party_trusted", "certified_third_party"}
Revisions == 1..MaxRevisions
NoClient == [registered |-> FALSE, origin |-> "unknown"]
Resting == [pc |-> "rest"]

-----------------------------------------------------------------------------
\* The endpoint registers what it is given.
NewClient(origin) == [registered |-> TRUE, origin |-> origin]

\* The upsert keeps the client's id.
UpsertAgentClient(new) == client' = new

Register(a, origin) ==
  /\ op[a].pc = "rest"
  /\ UpsertAgentClient(NewClient(origin))
  /\ UNCHANGED <<certs, log, productLock, rowLock, op>>

GetAgentClient == client # NoClient

GetLatestCertificationStatus(c) == Last(log[c]).status

Active(c) == GetLatestCertificationStatus(c) = "active"

\* A row chained onto prev; the unique index admits one row for each prev.
Chainable(c, prev) == \A i \in DOMAIN log[c] : log[c][i].prev # prev

InsertCertificationStatusChange(rows, status, prev) == Append(rows, [status |-> status, prev |-> prev])

Release(a) == rowLock' = [c \in Revisions |-> IF rowLock[c] = a THEN Nobody ELSE rowLock[c]]

LockAgentCertification(a, c) == rowLock[c] = Nobody /\ rowLock' = [rowLock EXCEPT ![c] = a]

-----------------------------------------------------------------------------
(* Certify                                                                   *)

\* The service reads the client and freezes its facts into the revision.
NewCertification(class) ==
  [class |-> class, origin |-> client.origin, registered |-> client.registered, expired |-> FALSE]

\* The handler has verified the build manifest's signature.
Certify(a, class) ==
  /\ op[a].pc = "rest"
  /\ GetAgentClient
  /\ class = "first_party_trusted" => client.registered
  /\ op' = [op EXCEPT ![a] = [pc |-> "issue", todo |-> {}, tails |-> <<>>, cert |-> NewCertification(class)]]
  /\ UNCHANGED <<client, certs, log, productLock, rowLock>>

\* The transaction begins: the product's lock, then the revisions to supersede.
BeginCreateCertification(a) ==
  /\ op[a].pc = "issue" /\ productLock = Nobody
  /\ productLock' = a
  /\ op' = [op EXCEPT ![a].pc = "supersede", ![a].todo = DOMAIN certs]
  /\ UNCHANGED <<client, certs, log, rowLock>>

\* Faulty variant: a revision someone else holds is skipped.
SupersedePrior_SkipLocked(a) ==
  LET c == Max(op[a].todo) IN
  /\ op[a].pc = "supersede" /\ op[a].todo # {}
  /\ rowLock' = IF rowLock[c] = Nobody THEN [rowLock EXCEPT ![c] = a] ELSE rowLock
  /\ op' = [op EXCEPT ![a].todo = @ \ {c},
                      ![a].tails = IF Active(c) /\ rowLock[c] = Nobody
                                   THEN Append(@, <<c, Len(log[c])>>) ELSE @]
  /\ UNCHANGED <<client, certs, log, productLock>>

\* Revisions are listed newest first; each is locked before its status is read.
SupersedePrior(a) ==
  LET c == Max(op[a].todo) IN
  /\ op[a].pc = "supersede" /\ op[a].todo # {}
  /\ LockAgentCertification(a, c)
  /\ op' = [op EXCEPT ![a].todo = @ \ {c},
                      ![a].tails = IF Active(c) THEN Append(@, <<c, Len(log[c])>>) ELSE @]
  /\ UNCHANGED <<client, certs, log, productLock>>

GetMaxCertificationRevision == Len(certs)

InsertAgentCertification(cert) == certs' = Append(certs, cert)

\* The commit: the next revision, its first status, and the supersessions.
CreateCertification(a) ==
  LET revision == GetMaxCertificationRevision + 1
      tails == ToSet(op[a].tails) IN
  /\ op[a].pc = "supersede" /\ op[a].todo = {} /\ revision =< MaxRevisions
  /\ \A t \in tails : Chainable(t[1], t[2])
  /\ InsertAgentCertification(op[a].cert)
  /\ log' = [c \in 1..revision |->
               IF c = revision THEN InsertCertificationStatusChange(<<>>, "active", 0)
               ELSE IF \E t \in tails : t[1] = c
               THEN InsertCertificationStatusChange(log[c], "superseded", Len(log[c]))
               ELSE log[c]]
  /\ productLock' = Nobody /\ Release(a)
  /\ op' = [op EXCEPT ![a] = Resting]
  /\ UNCHANGED client

-----------------------------------------------------------------------------
(* Revoke                                                                    *)

\* The handler has resolved the client and a certification of its lineage.
Revoke(a, c) ==
  /\ op[a].pc = "rest" /\ c \in DOMAIN certs
  /\ Cardinality({i \in DOMAIN log[c] : log[c][i].status = "revoked"}) < MaxRevokes
  /\ op' = [op EXCEPT ![a] = [pc |-> "revoke", cert |-> c]]
  /\ UNCHANGED <<client, certs, log, productLock, rowLock>>

\* appendStatusOnce takes the row lock and reads the tail.
ReadTail(a) ==
  LET c == op[a].cert IN
  /\ op[a].pc = "revoke"
  /\ LockAgentCertification(a, c)
  /\ op' = [op EXCEPT ![a] = [pc |-> "append", cert |-> c, prev |-> Len(log[c])]]
  /\ UNCHANGED <<client, certs, log, productLock>>

\* The row is appended and committed; losing the race for prev means a retry
\* (AppendStatus gives up after eight).
AppendStatus(a) ==
  LET c == op[a].cert IN
  /\ op[a].pc = "append"
  /\ Release(a)
  /\ IF Chainable(c, op[a].prev)
     THEN /\ log' = [log EXCEPT ![c] = InsertCertificationStatusChange(@, "revoked", op[a].prev)]
          /\ op' = [op EXCEPT ![a] = Resting]
     ELSE UNCHANGED log /\ op' = [op EXCEPT ![a] = [pc |-> "revoke", cert |-> c]]
  /\ UNCHANGED <<client, certs, productLock>>

-----------------------------------------------------------------------------
(* Assess                                                                    *)

ListAgentCertifications == {c \in DOMAIN certs : ~certs[c].expired}

Assess(a) ==
  /\ op[a].pc = "rest"
  /\ op' = [op EXCEPT ![a] = [pc |-> "assess", todo |-> ListAgentCertifications]]
  /\ UNCHANGED <<client, certs, log, productLock, rowLock>>

IsAstraClawOrigin(origin) == origin = "astraclaw"

\* The client's row as Assess reads it; a failed read is as good as none.
LiveOrigins == {client.origin, ""}

\* Faulty variant: the newest listed is taken for the active one.
AssessNewest_Listed(a) ==
  LET c == Max(op[a].todo) IN
  /\ op[a].pc = "assess" /\ op[a].todo # {}
  /\ op' = [op EXCEPT ![a] = [pc |-> "assessed", cert |-> c, connectors |-> ~IsAstraClawOrigin(certs[c].origin)]]
  /\ UNCHANGED <<client, certs, log, productLock, rowLock>>

\* activeCertification asks for the status of the newest revision left on its
\* list; the first active one is assessed.
AssessNewest(a) ==
  LET c == Max(op[a].todo) IN
  /\ op[a].pc = "assess" /\ op[a].todo # {}
  /\ IF Active(c)
     THEN \E live \in LiveOrigins :
            op' = [op EXCEPT ![a] = [pc |-> "assessed", cert |-> c,
                     connectors |-> ~IsAstraClawOrigin(certs[c].origin) /\ ~IsAstraClawOrigin(live)]]
     ELSE op' = [op EXCEPT ![a].todo = @ \ {c}]
  /\ UNCHANGED <<client, certs, log, productLock, rowLock>>

-----------------------------------------------------------------------------
\* A revision's lifetime ends; nothing is written.
Lapse(c) ==
  /\ c \in DOMAIN certs /\ ~certs[c].expired
  /\ certs' = [certs EXCEPT ![c].expired = TRUE]
  /\ UNCHANGED <<client, log, productLock, rowLock, op>>

\* Any error, refusal, crash or finished answer: the transaction rolls back.
EndCall(a) ==
  /\ op[a].pc # "rest"
  /\ op' = [op EXCEPT ![a] = Resting]
  /\ productLock' = IF productLock = a THEN Nobody ELSE productLock
  /\ Release(a)
  /\ UNCHANGED <<client, certs, log>>

TrustInit ==
  /\ client = NoClient /\ certs = <<>> /\ log = <<>>
  /\ productLock = Nobody /\ rowLock = [c \in Revisions |-> Nobody]
  /\ op = [a \in Admins |-> Resting]

TrustNext ==
  \/ \E a \in Admins :
       \/ \E origin \in Origins : Register(a, origin)
       \/ \E class \in Classes : Certify(a, class)
       \/ BeginCreateCertification(a) \/ SupersedePrior(a) \/ CreateCertification(a)
       \/ \E c \in Revisions : Revoke(a, c)
       \/ ReadTail(a) \/ AppendStatus(a)
       \/ Assess(a) \/ AssessNewest(a) \/ EndCall(a)
  \/ \E c \in Revisions : Lapse(c)

TrustSpec == TrustInit /\ [][TrustNext]_trustVars

-----------------------------------------------------------------------------
(* Properties                                                                *)

\* The status log of every revision is one unforked chain, and at most one
\* revision is active, whatever issuing, superseding and revoking interleave
\* or fail half way (CreateCertification and AppendStatus of postgres.go).
OneActiveOnLinearLogs ==
  /\ DOMAIN log = DOMAIN certs
  /\ \A c \in DOMAIN log : \A i \in DOMAIN log[c] : log[c][i].prev = i - 1
  /\ \A c, d \in DOMAIN certs : Active(c) /\ Active(d) => c = d

\* A revoked revision reads as revoked for ever: not as superseded by one
\* issued meanwhile, and never as active (the governance note of Register,
\* "Revoke the certification", and SupersedePrior's status check).
RevokedIsFinal ==
  [][\A c \in DOMAIN log : Last(log[c]).status = "revoked" => Last(log'[c]).status = "revoked"]_trustVars

\* A trusted assessment names the only revision active when it is made, though
\* the list it walks is older than the statuses it reads; it opens connectors
\* to no revision whose origin was frozen as an assistant's (activeCertification).
AssessedIsTheActive ==
  [][\A a \in Admins : op'[a].pc = "assessed" /\ op[a].pc = "assess" =>
       LET c == op'[a].cert IN
       /\ \A d \in DOMAIN certs : Active(d) <=> d = c
       /\ op'[a].connectors => ~IsAstraClawOrigin(certs[c].origin)
       /\ certs[c].class = "first_party_trusted" => certs[c].registered]_trustVars

\* Trust is taken from the status log alone and never outlives a revocation
\* (activeCertification, SupersedePrior).
TrustFollowsTheLog == RevokedIsFinal /\ AssessedIsTheActive
=============================================================================
