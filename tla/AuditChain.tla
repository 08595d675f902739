----------------------------- MODULE AuditChain -----------------------------
(* The audit ledger of one tenant (internal/audit, internal/app, the command *)
(* audit-export, sdk/go/audit): unsigned rows that link to the row before    *)
(* them, a signed and sequenced sub-chain of action transitions, signed      *)
(* checkpoints of it, and the offline package and its verification.  Writers *)
(* of several processes append under one advisory lock; operators check and  *)
(* export while they do.  A hash is what was hashed.                         *)
EXTENDS Merkle, SequencesExt, FiniteSets, FiniteSetsExt, Functions

CONSTANTS Writers, Operators,
          Signers,        \* pinned signing keys, each named by itself
          Forger,         \* a key nobody pinned
          Tenant, Other,
          RequestKeys, NoKey,   \* Idempotency-Key
          Bodies,         \* what an event says: the words of a namespaced capability
          MaxReference,   \* words of the longest reference the verifier takes
          Nil,
          MaxAppends,     \* bound: rows ever committed
          MaxBatch        \* bound: events of the batches whose roots are compared

ASSUME AuditAssumption ==
  /\ MaxAppends \in Nat /\ MaxReference \in Nat /\ Nil \notin Writers
  /\ MaxBatch \in Nat /\ Forger \notin Signers
  /\ NoKey \notin RequestKeys \cup Signers /\ Signers \cap RequestKeys = {}

VARIABLES rows,       \* rows of audit_events in the order of created_at
          auditLock,
          appends,    \* what each writer is doing
          registered, \* rows of audit_signing_keys
          revoked,    \* those with status revoked
          roots,      \* rows of audit_batch_roots in the order of insertion
          exports,    \* what each operator is doing
          issued,     \* history: rows ever committed
          lost        \* history: rows disappeared

keyVars == <<registered, revoked>>
auditVars == <<rows, auditLock, appends, keyVars, roots, exports, issued, lost>>

Quiet == [pc |-> "rest"]

-----------------------------------------------------------------------------
(* Events                                                                    *)

\* Everything but the hash and the signature.
Canonical(e) == [id |-> e.id, tenant |-> e.tenant, seq |-> e.seq, body |-> e.body, prev |-> e.prev]

EventHash(e) == Canonical(e)

Signature(key, over) == [key |-> key, by |-> key, over |-> over]

\* The zero value.
NoSignature == Signature(NoKey, <<>>)

\* The Idempotency-Key of the request, and whether the signing key was revoked
\* when the row was committed, are history.
NewEvent(id, seq, body, prev, key) ==
  LET e == [id |-> id, tenant |-> Tenant, seq |-> seq, body |-> body, prev |-> prev] IN
  [id |-> id, tenant |-> Tenant, seq |-> seq, body |-> body, prev |-> prev,
   hash |-> EventHash(e), signature |-> NoSignature, key |-> key, late |-> FALSE]

SignEvent(e, key) == [e EXCEPT !.signature = Signature(key, Canonical(e))]

\* The signed rows in the order of tenant_seq: the n-th has n - 1 before it.
SignedRows == {i \in DOMAIN rows : rows[i].seq > 0}

SignedBefore(i) == {j \in SignedRows : rows[j].seq < rows[i].seq}

ListSignedAuditEventsForTenant ==
  [n \in 1..Cardinality(SignedRows) |->
     rows[CHOOSE i \in SignedRows : Cardinality(SignedBefore(i)) = n - 1]]

GetLatestEnterpriseAuditHash == IF rows = <<>> THEN Nil ELSE Last(rows).hash

GetLatestSignedEnterpriseAuditHash ==
  LET chain == ListSignedAuditEventsForTenant IN IF chain = <<>> THEN Nil ELSE Last(chain).hash

AllocateNextTenantSeq == Max({0} \cup {rows[i].seq : i \in DOMAIN rows}) + 1

-----------------------------------------------------------------------------
(* Appending                                                                 *)

\* Faulty variant: the lock is taken at the insert only.
AcquireEnterpriseAuditLock_Late(w) == UNCHANGED auditLock

AcquireEnterpriseAuditLock(w) == auditLock = Nil /\ auditLock' = w

Begin(w, kind, key, body) ==
  /\ appends[w].pc = "rest" /\ issued < MaxAppends
  /\ AcquireEnterpriseAuditLock(w)
  /\ appends' = [appends EXCEPT ![w] = [pc |-> "locked", kind |-> kind, key |-> key, body |-> body, event |-> Nil]]
  /\ UNCHANGED <<rows, keyVars, roots, exports, issued, lost>>

\* POST /v1/audit/evidence, with or without an Idempotency-Key.
AppendAuditEvidence(w, key, body) == Begin(w, "evidence", key, body)

\* The lineage of approval transmission and of evidence: unsigned, never keyed.
AppendApprovalTransmissionAudit(w, body) == Begin(w, "approval", NoKey, body)

AppendEvidenceLineageAudit(w, body) == Begin(w, "lineage", NoKey, body)

\* What RequestAction takes for a capability: words in a namespace.
ValidateCapability(body) == Len(body) \in 2..(MaxReference \div 2)

\* An action transition, signed by the key of the process.
AppendActionTransitionAudit(w, key, body) ==
  /\ ValidateCapability(body) /\ key \in registered
  /\ Begin(w, "transition", key, body)

Release(w) == auditLock' = IF auditLock = w THEN Nil ELSE auditLock

\* A key names its row; the other ids are random.
AuditID(key) == IF key \in RequestKeys THEN <<"keyed", key>> ELSE <<"random", issued + 1>>

GetAuditEventByID(id) == {i \in DOMAIN rows : rows[i].id = id}

\* A keyed request that was served before is answered from its row, or
\* conflicts with it.
AnswerFromRow(w) ==
  LET same == GetAuditEventByID(AuditID(appends[w].key)) IN
  /\ appends[w].pc = "locked" /\ appends[w].kind = "evidence" /\ appends[w].key \in RequestKeys
  /\ same # {}
  /\ appends' = [appends EXCEPT ![w] =
       IF \E i \in same : rows[i].body = appends[w].body THEN [@ EXCEPT !.pc = "answered"] ELSE Quiet]
  /\ Release(w)
  /\ UNCHANGED <<rows, keyVars, roots, exports, issued, lost>>

\* The event is built on the head of its chain.
Chain(w) ==
  LET a == appends[w]  id == AuditID(a.key) IN
  /\ a.pc = "locked" /\ (a.kind = "evidence" /\ a.key \in RequestKeys => GetAuditEventByID(id) = {})
  /\ appends' = [appends EXCEPT ![w].pc = "insert", ![w].event =
       IF a.kind = "transition"
       THEN SignEvent(NewEvent(id, AllocateNextTenantSeq, a.body, GetLatestSignedEnterpriseAuditHash, a.key), a.key)
       ELSE NewEvent(id, 0, a.body, GetLatestEnterpriseAuditHash, a.key)]
  /\ UNCHANGED <<rows, auditLock, keyVars, roots, exports, issued, lost>>

\* The ids and the sequence numbers of a tenant are unique.
InsertAllowed(e) ==
  \A i \in DOMAIN rows : rows[i].id # e.id /\ (e.seq > 0 => rows[i].seq # e.seq)

AppendAuditEvent(e) == rows' = Append(rows, e)

AppendSignedAuditEvent(e) == rows' = Append(rows, [e EXCEPT !.late = e.signature.key \in revoked])

\* The insert and the commit; created_at passes that of every row before it.
AppendRow(w) ==
  LET e == appends[w].event IN
  /\ appends[w].pc = "insert" /\ InsertAllowed(e)
  /\ IF e.seq = 0 THEN AppendAuditEvent(e) ELSE AppendSignedAuditEvent(e)
  /\ issued' = issued + 1
  /\ appends' = [appends EXCEPT ![w].pc = "answered", ![w].event = Nil]
  /\ Release(w)
  /\ UNCHANGED <<keyVars, roots, exports, lost>>

\* An answer, its loss, an error or a crash.
EndAppend(w) ==
  /\ appends[w].pc # "rest"
  /\ appends' = [appends EXCEPT ![w] = Quiet]
  /\ Release(w)
  /\ UNCHANGED <<rows, keyVars, roots, exports, issued, lost>>

-----------------------------------------------------------------------------
(* Keys, and what happens to a copy of the ledger                            *)

\* Registering a key again leaves its status alone.
UpsertAuditSigningKey(k) == registered' = registered \cup {k} /\ UNCHANGED revoked

\* A process of the gateway starts.
BuildAuditSigner(k) ==
  /\ k \notin registered
  /\ UpsertAuditSigningKey(k)
  /\ UNCHANGED <<rows, auditLock, appends, roots, exports, issued, lost>>

RevokeAuditSigningKey(k) ==
  /\ k \in registered \ revoked /\ revoked' = revoked \cup {k}
  /\ UNCHANGED <<registered, rows, auditLock, appends, roots, exports, issued, lost>>

\* The tail is gone: a restored dump or a replica that stopped early.
LoseTail ==
  /\ rows # <<>> /\ ~lost /\ auditLock = Nil
  /\ rows' = Front(rows) /\ lost' = TRUE
  /\ UNCHANGED <<auditLock, appends, keyVars, roots, exports, issued>>

-----------------------------------------------------------------------------
(* Verification.  Keys are a function from key ids to what is known of them. *)

\* Faulty variant: the status of a key is not read.
RegisteredSigningKeys_Active == {[id |-> k, public |-> k, revoked |-> FALSE] : k \in registered}

RegisteredSigningKeys == {[id |-> k, public |-> k, revoked |-> k \in revoked] : k \in registered}

NewKeySet(keys) == [k \in {x.id : x \in keys} |-> CHOOSE x \in keys : x.id = k]

CheckNoRawPayload(e) == Len(e.body) =< MaxReference

GraphToken(body) == "graph" \in Range(body)

AssertsOutcome(e) == "outcome" \in Range(e.body) \/ GraphToken(e.body)

\* A signature by a known key that is not revoked, over exactly this.
Authentic(signature, over, keys) ==
  /\ signature # NoSignature
  /\ signature.key \in DOMAIN keys
  /\ ~keys[signature.key].revoked
  /\ keys[signature.key].public = signature.by /\ signature.over = over

VerifyEvent(e, want, tenant, prev, keys) ==
  /\ e.signature # NoSignature
  /\ e.tenant = tenant
  /\ e.seq = want
  /\ CheckNoRawPayload(e) /\ ~AssertsOutcome(e)
  /\ e.prev = prev
  /\ e.hash = EventHash(e)
  /\ Authentic(e.signature, Canonical(e), keys)

VerifyChain(events, keys) ==
  \A i \in DOMAIN events :
    VerifyEvent(events[i], i, events[1].tenant, IF i = 1 THEN Nil ELSE events[i - 1].hash, keys)

CanonicalBatch(b) == [tenant |-> b.tenant, first |-> b.first, last |-> b.last, count |-> b.count, root |-> b.root]

VerifyBatchRoot(b, keys) == Authentic(b.signature, CanonicalBatch(b), keys)

EventHashes(events) == [i \in DOMAIN events |-> events[i].hash]

BatchOf(events) ==
  [tenant |-> Tenant, first |-> events[1].seq, last |-> Last(events).seq, count |-> Len(events),
   root |-> MerkleRoot(EventHashes(events)), signature |-> NoSignature]

Ed25519Signer(b, key) == [b EXCEPT !.signature = Signature(key, CanonicalBatch(b))]

BuildBundle(events, keys, signer) ==
  [tenant |-> Tenant, events |-> events, keys |-> keys,
   batch |-> Ed25519Signer(BatchOf(events), signer),
   witnesses |-> [i \in DOMAIN events |-> MerkleProof(EventHashes(events), i - 1)]]

\* Faulty variant: the package brings the keys it is verified with.
AnchoredResolver_SelfTrust(keys) == NewKeySet(keys)

\* Only pinned keys resolve; the package can add that one was revoked.
AnchoredResolver(keys) ==
  [k \in Signers |-> [id |-> k, public |-> k, revoked |-> \E x \in keys : x.id = k /\ x.revoked]]

VerifyBundle(b) ==
  LET resolver == AnchoredResolver(b.keys)  root == MerkleRoot(EventHashes(b.events)) IN
  /\ b.events # <<>>
  /\ \A x \in b.keys : x.id \in Signers => x.public = x.id
  /\ VerifyChain(b.events, resolver)
  /\ b.tenant = b.events[1].tenant
  /\ b.batch.root = root
  /\ Len(b.witnesses) = Len(b.events)
  /\ \A i \in DOMAIN b.events : VerifyMerkleProof(b.events[i].hash, root, b.witnesses[i])
  /\ b.batch.tenant = b.tenant /\ b.batch.first = b.events[1].seq
  /\ b.batch.last = Last(b.events).seq /\ b.batch.count = Len(b.events)
  /\ VerifyBatchRoot(b.batch, resolver)

-----------------------------------------------------------------------------
(* The operator's command                                                    *)

\* ExportActionAuditPackage, for a file or for a checkpoint: first the chain.
ReadSignedAuditChain(o, purpose, signer) ==
  /\ exports[o].pc = "rest" /\ ListSignedAuditEventsForTenant # <<>>
  /\ UpsertAuditSigningKey(signer)
  /\ exports' = [exports EXCEPT ![o] =
       [pc |-> "keys", purpose |-> purpose, signer |-> signer, events |-> ListSignedAuditEventsForTenant]]
  /\ UNCHANGED <<rows, auditLock, appends, roots, issued, lost>>

\* Then the keys; the package is built and signed.
BuildVerificationPackage(o) ==
  /\ exports[o].pc = "keys" /\ exports[o].purpose = "export"
  /\ exports' = [exports EXCEPT ![o] =
       [pc |-> "package", package |-> BuildBundle(exports[o].events, RegisteredSigningKeys, exports[o].signer)]]
  /\ UNCHANGED <<rows, auditLock, appends, keyVars, roots, issued, lost>>

\* Each window has one checkpoint.
InsertAuditBatchRoot(batch) ==
  /\ \A i \in DOMAIN roots : <<roots[i].first, roots[i].last>> # <<batch.first, batch.last>>
  /\ roots' = Append(roots, batch)

PersistActionAuditCheckpoint(o) ==
  /\ exports[o].pc = "keys" /\ exports[o].purpose = "checkpoint"
  /\ InsertAuditBatchRoot(BuildBundle(exports[o].events, RegisteredSigningKeys, exports[o].signer).batch)
  /\ exports' = [exports EXCEPT ![o] = Quiet]
  /\ UNCHANGED <<rows, auditLock, appends, keyVars, issued, lost>>

\* Faulty variant: the checkpoint inserted last.
GetLatestAuditBatchRoot_Newest == Last(roots)

GetLatestAuditBatchRoot ==
  roots[CHOOSE i \in DOMAIN roots : \A j \in DOMAIN roots : roots[j].last =< roots[i].last]

\* First the checkpoint.
DetectActionAuditTruncation(o, signer) ==
  /\ exports[o].pc = "rest" /\ roots # <<>>
  /\ UpsertAuditSigningKey(signer)
  /\ exports' = [exports EXCEPT ![o] = [pc |-> "compare", root |-> GetLatestAuditBatchRoot, all |-> Range(roots)]]
  /\ UNCHANGED <<rows, auditLock, appends, roots, issued, lost>>

DetectTruncation(head, last) == head < last

\* Then the keys it is verified with, and the head of the chain.
CompareHead(o) ==
  LET chain == ListSignedAuditEventsForTenant IN
  /\ exports[o].pc = "compare"
  /\ VerifyBatchRoot(exports[o].root, NewKeySet(RegisteredSigningKeys))
  /\ exports' = [exports EXCEPT ![o] =
       [pc |-> "verdict", all |-> exports[o].all, chain |-> chain,
        truncated |-> DetectTruncation(IF chain = <<>> THEN 0 ELSE Last(chain).seq, exports[o].root.last)]]
  /\ UNCHANGED <<rows, auditLock, appends, keyVars, roots, issued, lost>>

\* The command ends, with whatever it found.
EndExport(o) ==
  /\ exports[o].pc # "rest"
  /\ exports' = [exports EXCEPT ![o] = Quiet]
  /\ UNCHANGED <<rows, auditLock, appends, keyVars, roots, issued, lost>>

-----------------------------------------------------------------------------
AuditInit ==
  /\ rows = <<>> /\ auditLock = Nil /\ appends = [w \in Writers |-> Quiet]
  /\ registered = {} /\ revoked = {} /\ roots = <<>> /\ exports = [o \in Operators |-> Quiet]
  /\ issued = 0 /\ lost = FALSE

WriterStep(w) ==
  \/ \E k \in RequestKeys \cup {NoKey}, b \in Bodies : AppendAuditEvidence(w, k, b)
  \/ \E b \in Bodies : AppendApprovalTransmissionAudit(w, b) \/ AppendEvidenceLineageAudit(w, b)
  \/ \E k \in Signers, b \in Bodies : AppendActionTransitionAudit(w, k, b)
  \/ AnswerFromRow(w) \/ Chain(w) \/ AppendRow(w) \/ EndAppend(w)

\* A command runs with the key it was given, which it registers first.
OperatorStep(o, k) ==
  \/ \E purpose \in {"export", "checkpoint"} : ReadSignedAuditChain(o, purpose, k)
  \/ BuildVerificationPackage(o) \/ PersistActionAuditCheckpoint(o)
  \/ DetectActionAuditTruncation(o, k) \/ CompareHead(o) \/ EndExport(o)

AuditNext ==
  \/ \E w \in Writers : WriterStep(w)
  \/ \E o \in Operators, k \in Signers : OperatorStep(o, k)
  \/ \E k \in Signers : BuildAuditSigner(k) \/ RevokeAuditSigningKey(k)
  \/ LoseTail

AuditSpec == AuditInit /\ [][AuditNext]_auditVars

-----------------------------------------------------------------------------
(* Properties                                                                *)

AuditTypeOK ==
  /\ issued \in 0..MaxAppends /\ Len(rows) =< issued /\ revoked \subseteq registered /\ registered \subseteq Signers
  /\ auditLock \in Writers \cup {Nil}
  /\ \A i \in DOMAIN rows : rows[i].seq \in 0..MaxAppends /\ rows[i].body \in Bodies

\* Whatever the runtime appends, the verifier accepts: the audit plane emits
\* only a constrained vocabulary "which structurally cannot carry an Outcome"
\* (sdk/go/audit/event.go, outcomeTokens; AppendActionTransitionAudit).
AppendedVerifies ==
  VerifyChain(ListSignedAuditEventsForTenant, NewKeySet({[id |-> k, public |-> k, revoked |-> FALSE] : k \in Signers}))

\* No event says a word that the verifier takes for an outcome.
SaysNoOutcome(events) == \A i \in DOMAIN events : ~AssertsOutcome(events[i])

\* However writers of several processes interleave, abort and crash, an
\* unsigned row links to the row just before it, and the signed rows are a
\* gap-free chain of their own.  It verifies, unless one of its events says a
\* word that the verifier takes for an outcome: nothing else is ever wrong with
\* it (AcquireEnterpriseAuditLock with the two head queries; "concurrent
\* appends serialize").
ChainsAreSound ==
  /\ ~lost => \A i \in DOMAIN rows :
       rows[i].seq = 0 => rows[i].prev = IF i = 1 THEN Nil ELSE rows[i - 1].hash
  /\ AppendedVerifies <=> SaysNoOutcome(ListSignedAuditEventsForTenant)

\* A request with an Idempotency-Key leaves one row however often it is sent
\* and whatever answers were lost, and is answered only for what that row says
\* (AppendAuditEvidence).
KeyedAppendsAreOnce ==
  ~lost => \A w \in Writers : appends[w].pc = "answered" /\ appends[w].key \in RequestKeys =>
    LET same == {i \in DOMAIN rows : rows[i].key = appends[w].key} IN
    Cardinality(same) = 1 /\ \A i \in same : rows[i].body = appends[w].body

\* The ledger of several processes reads as if one had written it (every append
\* under AcquireEnterpriseAuditLock).
LedgerIsSound == AuditTypeOK /\ ChainsAreSound /\ KeyedAppendsAreOnce

Packages == {exports[o].package : o \in {x \in Operators : exports[x].pc = "package"}}

\* "A revoked key can sign no new truth" (sdk/go/audit/event.go): a package
\* that verifies holds no event appended under a key that was revoked by then,
\* although processes go on signing with it and the chain and the keys are
\* read at different times (ExportActionAuditPackage).
NoTruthAfterRevocation ==
  \A p \in Packages : VerifyBundle(p) => \A i \in DOMAIN p.events : ~p.events[i].late

\* Until a key it rests on is revoked every package verifies, but for the words
\* that the verifier takes for an outcome.
PackagesVerify ==
  \A p \in Packages :
    (\A x \in p.keys : ~x.revoked) => (VerifyBundle(p) <=> SaysNoOutcome(p.events))

\* What a damaged or made-up package may look like: an event dropped, moved,
\* altered or taken from another tenant, the tail cut and the batch rebuilt
\* under its old signature, all of it signed again by a key nobody pinned,
\* under that key's name or under a pinned one.
Rehashed(e) == [e EXCEPT !.hash = EventHash(e)]

Rebuilt(p, events) ==
  [p EXCEPT !.events = events,
            !.batch = [BatchOf(events) EXCEPT !.signature = p.batch.signature],
            !.witnesses = [i \in DOMAIN events |-> MerkleProof(EventHashes(events), i - 1)]]

Resigned(p, name) ==
  LET sig(over) == [key |-> name, by |-> Forger, over |-> over]
      events == [i \in DOMAIN p.events |-> [p.events[i] EXCEPT !.signature = sig(Canonical(p.events[i]))]] IN
  [p EXCEPT !.events = events, !.keys = {[id |-> name, public |-> Forger, revoked |-> FALSE]},
            !.batch.signature = sig(CanonicalBatch(p.batch))]

Swapped(s, i, j) == [s EXCEPT ![i] = s[j], ![j] = s[i]]

Damaged(p) ==
  LET n == Len(p.events) IN
  UNION {
    {Rebuilt(p, RemoveAt(p.events, i)) : i \in {j \in 1..n : n > 1}},
    {Rebuilt(p, Swapped(p.events, i, j)) : i \in 1..n, j \in 1..n},
    {Rebuilt(p, [p.events EXCEPT ![i] = Rehashed([@ EXCEPT !.body = b])]) : i \in 1..n, b \in Bodies},
    {Rebuilt(p, [p.events EXCEPT ![i] = Rehashed([@ EXCEPT !.tenant = Other])]) : i \in 1..n},
    {[p EXCEPT !.witnesses = Swapped(@, i, j)] : i \in 1..n, j \in 1..n},
    {Resigned(p, name) : name \in {Forger} \cup Signers} }

\* No damaged package verifies (VerifyBundle: "Any failure is a tamper").
DamageIsDetected ==
  \A p \in Packages : \A d \in Damaged(p) :
    d.events # p.events \/ d.witnesses # p.witnesses => ~VerifyBundle(d)

MerkleMeetsReference == MerkleSound(MaxBatch)

\* A package verifies exactly while it is the chain's own: an exported one does
\* whenever the verifier takes none of its words for an outcome, a damaged or
\* rebuilt one does not, and Merkle witnesses are what they should be
\* (BuildBundle and VerifyBundle).
PackagesAreSound == PackagesVerify /\ DamageIsDetected /\ MerkleMeetsReference

\* A check that finds the chain whole has seen as much of it as any checkpoint
\* stored when it began covers, whatever order checkpoints were inserted in;
\* and a check alarms only when rows really disappeared, although appends and
\* checkpoints go on meanwhile (DetectActionAuditTruncation).
TruncationIsTold ==
  \A o \in Operators : exports[o].pc = "verdict" =>
    IF exports[o].truncated THEN lost
    ELSE \A r \in exports[o].all : r.last =< Len(exports[o].chain)
=============================================================================
