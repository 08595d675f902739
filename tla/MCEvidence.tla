----------------------------- MODULE MCEvidence -----------------------------
(* Five instances in one run: a verified data class whose registration       *)
(* changes; paged reads beside revocation and the retention sweep; a locate  *)
(* of two needs that fails on the way; the writers of one audit ledger; and  *)
(* the operators that check and export it.                                   *)
EXTENDS Evidence, AuditChain

VARIABLE part

\* Capabilities; the second names a word of the verifier's outcome lint.
Plain == <<"erp", "read">>
MCBodies == {Plain, <<"graph", "read">>}

Replica == [source |-> "replica", effect |-> "read", cached |-> TRUE, ttl |-> 0, tier |-> "derived", bound |-> 1]
Ledger == [source |-> "ledger", effect |-> "read", cached |-> TRUE, ttl |-> 1, tier |-> "system_of_record", bound |-> 2]
Live == [source |-> "feed", effect |-> "read", cached |-> FALSE, ttl |-> 0, tier |-> "none", bound |-> 0]

\* Refused: a capability that writes, and an authority without a bound.
Posting == [Replica EXCEPT !.effect = "write"]
Unbounded == [Replica EXCEPT !.bound = 0]

MCDeclarations == {Replica, Ledger, Live, Posting, Unbounded}

Verified == [needs |-> 1, verification |-> TRUE, limits |-> <<0, 0>>, fields |-> {"amount", "payee"}, allowed |-> {"amount", "date"}]
Paged == [needs |-> 1, verification |-> FALSE, limits |-> <<1, 2>>, fields |-> NoFields, allowed |-> NoFields]
Double == [needs |-> 2, verification |-> FALSE, limits |-> <<0, 0>>, fields |-> NoFields, allowed |-> {"amount"}]

MCAsks == {Verified, Paged, Double}

Asked ==
  CASE part = "versions" -> Verified
    [] part = "pages" -> Paged
    [] OTHER -> Double

\* One principal asks; anyone may try to read.
Asker == CHOOSE o \in Owners : TRUE

Registrations ==
  CASE part = "versions" -> {Replica, Ledger, Posting, Unbounded}
    [] part = "pages" -> {d \in MCDeclarations : binding = NoBinding}
    [] OTHER -> {d \in {Replica} : binding = NoBinding}

VaultPart ==
  \/ \E c \in Locators :
       \/ Cardinality(Taken) + Asked.needs < Cardinality(Names) /\ Locate(c, Asker, Asked)
       \/ ResolveNeed(c) \/ DenyLocate(c) \/ FetchEvidence(c) \/ PutObject(c) \/ AppendLocateAudit(c) \/ CreateHandle(c)
       \/ part # "pages" /\ LocateFails(c)
       \/ Cleanup(c)
  \/ \E c \in Readers :
       \/ \E h \in DOMAIN handles, o \in Owners : Read(c, h, o, 0, IF part = "aborts" THEN {"payee"} ELSE NoFields)
       \/ ListEvidenceHandleEvents(c) \/ CheckBinding(c) \/ DenyRead(c) \/ GetObject(c) \/ Page(c) \/ AppendReadAudit(c)
  \/ \E c \in Callers : EndCall(c)
  \/ \E d \in Registrations : ApplySourceCatalog(d)
  \/ part = "versions" /\ (InvalidateSourceVersion \/ DeleteSource)
  \/ part # "versions" /\ \E h \in DOMAIN handles : RevokeAuthorization(h) \/ SweepDelete(h)
  \/ SweepAppend \/ Tick
  \/ part = "aborts" /\ \E o, p \in DOMAIN objects : MixUpFiles(o, p)

\* Every kind of append by two writers, whose processes start with an empty
\* ledger.
LedgerPart ==
  \/ \E w \in Writers : WriterStep(w)
  \/ issued = 0 /\ auditLock = Nil /\ \E k \in Signers : BuildAuditSigner(k)

RuntimeKey == CHOOSE k \in Signers : TRUE
OperatorKey == CHOOSE k \in Signers : k # RuntimeKey

\* The other operator keeps checkpoints.
Exporter == CHOOSE o \in Operators : TRUE

\* Three transitions of one writer; the other rows do not enter a package.
ExportPart ==
  \/ \E w \in {CHOOSE v \in Writers : TRUE} :
       \/ \E b \in Bodies :
            (issued > 0 => b = Plain) /\ issued < 3 /\ AppendActionTransitionAudit(w, RuntimeKey, b)
       \/ Chain(w) \/ AppendRow(w) \/ EndAppend(w)
  \/ \E o \in Operators :
       /\ OperatorStep(o, OperatorKey)
       /\ exports'[o].pc = "keys" /\ o # Exporter => exports'[o].purpose = "checkpoint"
  \/ BuildAuditSigner(RuntimeKey)
  \/ \E k \in Signers : RevokeAuditSigningKey(k)
  \/ LoseTail

MCInit == part \in {"versions", "pages", "aborts", "ledger", "exports"} /\ EvidenceInit /\ AuditInit

MCNext ==
  /\ UNCHANGED part
  /\ \/ part \in {"versions", "pages", "aborts"} /\ VaultPart /\ UNCHANGED auditVars
     \/ part = "ledger" /\ LedgerPart /\ UNCHANGED evidenceVars
     \/ part = "exports" /\ ExportPart /\ UNCHANGED evidenceVars

MCSpec == MCInit /\ [][MCNext]_<<evidenceVars, auditVars, part>>
=============================================================================
