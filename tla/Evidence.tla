------------------------------ MODULE Evidence ------------------------------
(* The evidence vault of one tenant and one data class (internal/evidence):  *)
(* the registry row that says where the data class comes from, the sealed    *)
(* objects staged by locate, the immutable handles that name them, and the   *)
(* append-only events of a handle.  A locate stages an answer of the source  *)
(* for each of its needs; a read serves a page of what was staged, after     *)
(* looking again at everything that may have changed.  Every call may fail   *)
(* or its process may die between any two steps.  A handle and the object it *)
(* was created for share a name.                                             *)
EXTENDS Integers, Sequences, FiniteSets, FiniteSetsExt, Functions

CONSTANTS Locators, Readers,   \* calls running at one time
          Owners,        \* principal, client, release, work case: all a handle is bound to
          Names,         \* evidence refs and object keys
          NoName,
          Declarations,  \* what a catalog entry may declare of the source
          NoBinding,
          HandleTTL,     \* longest life of a handle, in ticks
          Fields,        \* of a record of the source
          NoFields,      \* a field list that is not given
          Count,         \* records the source answers with
          Asks,          \* bound: what a locate may ask for
          MaxTime, MaxVersion   \* bounds: clock and invalidations

\* Rows of evidence_source_bindings.
Bindings == [declaration : Declarations, version : 1..(MaxVersion + 1), deleted : BOOLEAN]

ASSUME EvidenceBounds ==
  /\ HandleTTL \in Nat \ {0} /\ Count \in Nat /\ MaxTime \in Nat /\ MaxVersion \in Nat
  /\ NoName \notin Names /\ \A f \in SUBSET Fields : f # NoFields
  /\ \A row \in Bindings : row # NoBinding
  /\ Asks \subseteq [needs : Nat \ {0}, verification : BOOLEAN, limits : Nat \X Nat,
                     fields : (SUBSET Fields) \cup {NoFields}, allowed : (SUBSET Fields) \cup {NoFields}]
  /\ \A d \in Declarations : d.ttl \in Int /\ d.bound \in Int /\ d.cached \in BOOLEAN

VARIABLES clock,
          binding,   \* row of evidence_source_bindings
          epoch,     \* history: invalidations and deletions of the source so far
          objects,   \* the object store: sealed content, by key
          handles,   \* rows of evidence_handles
          events,    \* rows of evidence_handle_events, as <<handle, kind>>
          lineage,   \* audit rows of locate, by object
          calls,     \* what each caller is doing
          sweep,     \* what the retention sweep is doing
          aborted    \* history: objects a failed locate's clean-up deleted

registryVars == <<binding, epoch>>
vaultVars == <<objects, handles, events, lineage, aborted>>
evidenceVars == <<clock, registryVars, vaultVars, calls, sweep>>

Callers == Locators \cup Readers

Resting == [pc |-> "rest"]

To(c, pc) == [calls EXCEPT ![c].pc = pc]

Taken == DOMAIN handles \cup DOMAIN objects \cup lineage \cup aborted
         \cup UNION {calls[c].puts : c \in {d \in Callers : calls[d].pc # "rest"}}

FreshName == CHOOSE n \in Names : n \notin Taken

-----------------------------------------------------------------------------
(* The registry                                                              *)

\* Faulty variant: the declared version replaces the stored one.
UpsertEvidenceSourceBinding_Replace(declared) ==
  binding' = [declaration |-> declared, version |-> 1, deleted |-> FALSE]

\* The version never goes back, and passes that of a deleted row.
UpsertEvidenceSourceBinding(declared) ==
  binding' = [declaration |-> declared, deleted |-> FALSE,
              version |-> IF binding = NoBinding THEN 1
                          ELSE Max({1, binding.version + (IF binding.deleted THEN 1 ELSE 0)})]

ValidAuthorityTier(tier) == tier \in {"system_of_record", "authoritative_replica", "derived"}

\* An authority together with its bound, or neither.
Authoritative(declared) == ValidAuthorityTier(declared.tier) /\ declared.bound > 0

RegisterSourceBinding(declared) ==
  /\ declared.ttl >= 0
  /\ (declared.tier # "none" \/ declared.bound # 0) => Authoritative(declared)
  /\ UpsertEvidenceSourceBinding(declared)

\* A catalog may leave the authority out, never the bound of one.
ValidateCatalogSource(declared) ==
  /\ declared.ttl >= 0
  /\ declared.tier # "none" => Authoritative(declared)

\* The signed pack of the named binding declares the capability, as a read.
ResolveConnectorSource(declared) == declared.effect = "read"

\* The catalog of the deployment, at each start of a process: all of it is
\* validated and resolved before any of it is registered.
ApplySourceCatalog(declared) ==
  /\ ValidateCatalogSource(declared) /\ ResolveConnectorSource(declared)
  /\ RegisterSourceBinding(declared)
  /\ UNCHANGED <<clock, epoch, vaultVars, calls, sweep>>

BumpEvidenceSourceVersion == binding' = [binding EXCEPT !.version = @ + 1]

InvalidateSourceVersion ==
  /\ binding # NoBinding /\ epoch < MaxVersion
  /\ BumpEvidenceSourceVersion
  /\ epoch' = epoch + 1
  /\ UNCHANGED <<clock, vaultVars, calls, sweep>>

MarkEvidenceSourceDeleted == binding' = [binding EXCEPT !.deleted = TRUE]

DeleteSource ==
  /\ binding # NoBinding /\ epoch < MaxVersion
  /\ MarkEvidenceSourceDeleted
  /\ epoch' = epoch + 1
  /\ UNCHANGED <<clock, vaultVars, calls, sweep>>

GetEvidenceSourceBinding == binding # NoBinding /\ ~binding.deleted

InsertEvidenceHandleEvent(h, kind) == events' = events \cup {<<h, kind>>}

RevokeAuthorization(h) ==
  /\ h \in DOMAIN handles
  /\ InsertEvidenceHandleEvent(h, "revoked")
  /\ UNCHANGED <<clock, registryVars, objects, handles, lineage, aborted, calls, sweep>>

-----------------------------------------------------------------------------
(* Locate                                                                    *)

\* The request is valid and unexpired; its time is read once.
Locate(c, owner, ask) ==
  /\ calls[c].pc = "rest"
  /\ calls' = [calls EXCEPT ![c] =
       [pc |-> "resolve", owner |-> owner, ask |-> ask, now |-> clock, source |-> NoBinding, staged |-> <<>>,
        puts |-> {}, made |-> {}]]
  /\ UNCHANGED <<clock, registryVars, vaultVars, sweep>>

\* resolveNeed up to the fetch: the registry row and the caller's authority.
ResolveNeed(c) ==
  /\ calls[c].pc = "resolve"
  /\ GetEvidenceSourceBinding
  /\ calls' = [calls EXCEPT ![c].pc = "fetch", ![c].source = binding]
  /\ UNCHANGED <<clock, registryVars, vaultVars, sweep>>

\* No such source, or the caller may not use it: the whole locate fails, before
\* anything is persisted.
DenyLocate(c) ==
  /\ calls[c].pc = "resolve"
  /\ calls' = [calls EXCEPT ![c] = Resting]
  /\ UNCHANGED <<clock, registryVars, vaultVars, sweep>>

Given(fields) == fields # NoFields /\ fields # {}

\* The fields a need may use are those it asks for and is allowed.
StagingFields(need) ==
  CASE Given(need.fields) /\ Given(need.allowed) -> need.fields \cap need.allowed
    [] Given(need.fields) /\ ~Given(need.allowed) -> need.fields
    [] OTHER -> need.allowed

ProjectRecords(fields, onto) == IF onto = NoFields THEN fields ELSE fields \cap onto

\* The source answers, bounded and projected; after the last need all that was
\* authorized and fetched is persisted.
FetchEvidence(c) ==
  LET need == calls[c].ask
      fetched == [need |-> need, source |-> calls[c].source, fetched |-> clock, content |-> epoch,
                  fields |-> ProjectRecords(Fields, StagingFields(need))] IN
  /\ calls[c].pc = "fetch"
  /\ calls' = [calls EXCEPT ![c].pc = IF Len(calls[c].staged) + 1 = need.needs THEN "put" ELSE "resolve",
                            ![c].staged = Append(@, fetched)]
  /\ UNCHANGED <<clock, registryVars, vaultVars, sweep>>

\* The need being persisted.
Current(c) == calls[c].staged[Cardinality(calls[c].made) + 1]

\* Sealed for the key it is stored under.
Seal(key, plain) == [key |-> key, plain |-> plain]

\* A row or an object more.
With(table, name, row) == [n \in DOMAIN table \cup {name} |-> IF n = name THEN row ELSE table[n]]

\* FileObjectStore.Put: the whole object or nothing.
PutObject(c) ==
  /\ calls[c].pc = "put" /\ Taken # Names
  /\ objects' = With(objects, FreshName, Seal(FreshName, Current(c)))
  /\ calls' = [calls EXCEPT ![c].pc = "lineage", ![c].puts = @ \cup {FreshName}]
  /\ UNCHANGED <<clock, registryVars, handles, events, lineage, aborted, sweep>>

\* The object put last, whose handle is not there yet.
Latest(c) == CHOOSE o \in calls[c].puts : o \notin calls[c].made

\* Without a recorded lineage head no handle is issued.
AppendLocateAudit(c) ==
  /\ calls[c].pc = "lineage"
  /\ lineage' = lineage \cup {Latest(c)}
  /\ calls' = To(c, "create")
  /\ UNCHANGED <<clock, registryVars, objects, handles, events, aborted, sweep>>

Shorter(s, t) == IF s < t THEN s ELSE t

\* The bound of the need goes before that of the request.
PageLimit(limits) == IF limits[1] > 0 THEN limits[1] ELSE limits[2]

\* A time-to-live of the registry row only shortens the retention.
NewHandle(c, o) ==
  LET need == Current(c)  ttl == need.source.declaration.ttl  expires == calls[c].now + HandleTTL IN
  [owner |-> calls[c].owner, purpose |-> need.need.verification, object |-> o, hash |-> need,
   version |-> need.source.version, cached |-> need.source.declaration.cached,
   offset |-> 0, limit |-> PageLimit(need.need.limits), staged |-> calls[c].now,
   expires |-> expires, retention |-> IF ttl = 0 THEN expires ELSE Shorter(calls[c].now + ttl, expires)]

InsertEvidenceHandle(h, row) == handles' = With(handles, h, row)

\* The handle is created; after the last the locate answers.
CreateHandle(c) ==
  LET h == Latest(c)  done == Cardinality(calls[c].made) + 1 = calls[c].ask.needs IN
  /\ calls[c].pc = "create"
  /\ InsertEvidenceHandle(h, NewHandle(c, h))
  /\ calls' = IF done THEN [calls EXCEPT ![c] = Resting]
              ELSE [calls EXCEPT ![c].pc = "put", ![c].made = @ \cup {h}]
  /\ UNCHANGED <<clock, registryVars, objects, events, lineage, aborted, sweep>>

\* Sealing, storing, auditing or creating fails.  The insert may have been
\* committed all the same.
LocateFails(c) ==
  /\ calls[c].pc \in {"put", "lineage", "create"}
  /\ calls' = To(c, "cleanup")
  /\ \/ UNCHANGED handles
     \/ calls[c].pc = "create" /\ InsertEvidenceHandle(Latest(c), NewHandle(c, Latest(c)))
  /\ UNCHANGED <<clock, registryVars, objects, events, lineage, aborted, sweep>>

\* cleanup deletes what was put and revokes what was created; each of its
\* calls may fail, and nobody is told.
Cleanup(c) ==
  /\ calls[c].pc = "cleanup"
  /\ \E gone \in SUBSET calls[c].puts, revoked \in SUBSET calls[c].made :
       /\ objects' = Restrict(objects, DOMAIN objects \ gone)
       /\ events' = events \cup {<<h, "revoked">> : h \in revoked}
       /\ aborted' = aborted \cup gone
  /\ calls' = [calls EXCEPT ![c] = Resting]
  /\ UNCHANGED <<clock, registryVars, handles, lineage, sweep>>

-----------------------------------------------------------------------------
(* Read                                                                      *)

\* Everything a handle is bound to, and its two deadlines.
GetEvidenceHandle(h, owner, now) ==
  /\ h \in DOMAIN handles
  /\ handles[h].owner = owner
  /\ now < handles[h].expires /\ now < handles[h].retention

\* The purpose is the handle's own; a verification read declares its Action.
Read(c, h, owner, limit, fields) ==
  /\ calls[c].pc = "rest"
  /\ GetEvidenceHandle(h, owner, clock)
  /\ calls' = [calls EXCEPT ![c] =
       [pc |-> "events", handle |-> h, limit |-> limit, fields |-> fields, now |-> clock, puts |-> {},
        revoked |-> <<h, "revoked">> \in events, aborted |-> handles[h].object \in aborted,
        source |-> NoBinding, epoch |-> 0, content |-> NoName, shown |-> {}, from |-> 0, to |-> 0, next |-> NoName]]
  /\ UNCHANGED <<clock, registryVars, vaultVars, sweep>>

ListEvidenceHandleEvents(c) ==
  /\ calls[c].pc = "events"
  /\ \A kind \in {"revoked", "content_expired"} : <<calls[c].handle, kind>> \notin events
  /\ calls' = To(c, "binding")
  /\ UNCHANGED <<clock, registryVars, vaultVars, sweep>>

SameSource(handle) ==
  /\ GetEvidenceSourceBinding
  /\ binding.version = handle.version

\* A verification read needs a declared authority, still fresh.
Observable(handle, now) ==
  handle.purpose => Authoritative(binding.declaration) /\ now < handle.staged + binding.declaration.bound

\* The registry row as it is now; the caller's authority is evaluated again.
CheckBinding(c) ==
  LET handle == handles[calls[c].handle] IN
  /\ calls[c].pc = "binding"
  /\ SameSource(handle)
  /\ binding.declaration.cached /\ handle.cached
  /\ Observable(handle, calls[c].now)
  /\ calls' = [calls EXCEPT ![c].pc = "get", ![c].source = binding, ![c].epoch = epoch]
  /\ UNCHANGED <<clock, registryVars, vaultVars, sweep>>

\* What a check of the rows or of the policy refuses; the policy may, whatever
\* the rows say.
DenyRead(c) ==
  /\ calls[c].pc \in {"events", "binding"}
  /\ calls' = [calls EXCEPT ![c] = Resting]
  /\ UNCHANGED <<clock, registryVars, vaultVars, sweep>>

Open(key, blob) == blob.key = key

\* Opened under the key it is stored under, and hashed.
Intact(handle, blob) == Open(handle.object, blob) /\ blob.plain = handle.hash

GetObject(c) ==
  LET handle == handles[calls[c].handle] IN
  /\ calls[c].pc = "get" /\ handle.object \in DOMAIN objects
  /\ Intact(handle, objects[handle.object])
  /\ calls' = [calls EXCEPT ![c].pc = "page", ![c].content = objects[handle.object].plain]
  /\ UNCHANGED <<clock, registryVars, vaultVars, sweep>>

\* A request narrows the page bound of the locate, never raises it.
NarrowedLimit(bound, asked) ==
  IF asked > 0 /\ (bound = 0 \/ asked < bound) THEN asked ELSE bound

\* Faulty variant: the next page starts where the first page ended.
Continuation_FromStart(handle, limit) == [handle EXCEPT !.offset = limit]

\* The next page, of the same content and with the same deadlines.
Continuation(handle, limit) == [handle EXCEPT !.offset = @ + limit]

\* A window longer than the limit ends in a continuation handle.
Page(c) ==
  LET handle == handles[calls[c].handle]
      limit == NarrowedLimit(handle.limit, calls[c].limit)
      offset == Shorter(handle.offset, Count)
      bounded == limit > 0 /\ Count - offset > limit IN
  /\ calls[c].pc = "page" /\ (bounded => Taken # Names)
  /\ IF bounded THEN InsertEvidenceHandle(FreshName, Continuation(handle, limit)) ELSE UNCHANGED handles
  /\ calls' = [calls EXCEPT ![c].pc = "audit",
                            ![c].shown = ProjectRecords(calls[c].content.fields, calls[c].fields),
                            ![c].from = offset, ![c].to = IF bounded THEN offset + limit ELSE Count,
                            ![c].next = IF bounded THEN FreshName ELSE NoName]
  /\ UNCHANGED <<clock, registryVars, objects, events, lineage, aborted, sweep>>

\* No page leaves without its lineage row; a verification read is answered
\* with a receipt built from the handle and the registry row it saw.
AppendReadAudit(c) ==
  /\ calls[c].pc = "audit"
  /\ calls' = To(c, "served")
  /\ UNCHANGED <<clock, registryVars, vaultVars, sweep>>

MintObservationReceipt(c) ==
  LET handle == handles[calls[c].handle] IN
  [authority |-> calls[c].source.declaration.tier, version |-> handle.version,
   observedAt |-> handle.staged, freshUntil |-> handle.staged + calls[c].source.declaration.bound]

-----------------------------------------------------------------------------
\* Any answer, denial, error or crash.
EndCall(c) ==
  /\ calls[c].pc # "rest"
  /\ calls' = [calls EXCEPT ![c] = Resting]
  /\ UNCHANGED <<clock, registryVars, vaultVars, sweep>>

ListEvidenceRetentionExpired ==
  {h \in DOMAIN handles : handles[h].retention =< clock /\ <<h, "content_expired">> \notin events}

\* SweepRetention: one handle of the batch after another, the object first.
SweepDelete(h) ==
  /\ sweep = NoName /\ h \in ListEvidenceRetentionExpired
  /\ objects' = Restrict(objects, DOMAIN objects \ {handles[h].object})
  /\ sweep' = h
  /\ UNCHANGED <<clock, registryVars, handles, events, lineage, aborted, calls>>

\* The event is appended, or the sweep stops here.
SweepAppend ==
  /\ sweep # NoName
  /\ InsertEvidenceHandleEvent(sweep, "content_expired") \/ UNCHANGED events
  /\ sweep' = NoName
  /\ UNCHANGED <<clock, registryVars, objects, handles, lineage, aborted, calls>>

\* The file of one object is replaced by another's: a restored directory.
MixUpFiles(o, p) ==
  /\ objects[o].key = o
  /\ objects' = [objects EXCEPT ![o] = objects[p]]
  /\ UNCHANGED <<clock, registryVars, handles, events, lineage, aborted, calls, sweep>>

Tick ==
  /\ clock < MaxTime /\ clock' = clock + 1
  /\ UNCHANGED <<registryVars, vaultVars, calls, sweep>>

EvidenceInit ==
  /\ clock = 0 /\ binding = NoBinding /\ epoch = 0
  /\ objects = <<>> /\ handles = <<>> /\ events = {} /\ lineage = {} /\ aborted = {}
  /\ calls = [c \in Callers |-> Resting] /\ sweep = NoName

LocateStep(c) ==
  \/ \E o \in Owners, ask \in Asks : Locate(c, o, ask)
  \/ ResolveNeed(c) \/ DenyLocate(c) \/ FetchEvidence(c) \/ PutObject(c) \/ AppendLocateAudit(c) \/ CreateHandle(c)
  \/ LocateFails(c) \/ Cleanup(c)

ReadStep(c) ==
  \/ \E h \in DOMAIN handles, o \in Owners, limit \in 0..Count, fields \in (SUBSET Fields) \cup {NoFields} :
       Read(c, h, o, limit, fields)
  \/ ListEvidenceHandleEvents(c) \/ CheckBinding(c) \/ DenyRead(c) \/ GetObject(c) \/ Page(c) \/ AppendReadAudit(c)

EvidenceNext ==
  \/ \E c \in Locators : LocateStep(c)
  \/ \E c \in Readers : ReadStep(c)
  \/ \E c \in Callers : EndCall(c)
  \/ \E d \in Declarations : ApplySourceCatalog(d)
  \/ InvalidateSourceVersion \/ DeleteSource
  \/ \E h \in DOMAIN handles : RevokeAuthorization(h) \/ SweepDelete(h)
  \/ SweepAppend \/ Tick
  \/ \E o, p \in DOMAIN objects : MixUpFiles(o, p)

EvidenceSpec == EvidenceInit /\ [][EvidenceNext]_evidenceVars

-----------------------------------------------------------------------------
(* Properties                                                                *)

EvidenceTypeOK ==
  /\ clock \in 0..MaxTime /\ epoch \in 0..MaxVersion
  /\ binding # NoBinding => binding \in Bindings /\ binding.declaration.effect = "read"
  /\ DOMAIN objects \cup DOMAIN handles \subseteq Names
  /\ \A h \in DOMAIN handles : handles[h].object \in Names
  /\ events \subseteq Names \X {"revoked", "content_expired"}
  /\ lineage \subseteq Names

Served == {c \in Callers : calls[c].pc = "served"}

\* What a read serves was fetched after the last invalidation or deletion that
\* the read could know of, however locates, invalidations, deletions and
\* registrations interleave: a version number is never reused for older
\* content (Read and InvalidateSourceVersion, "no stale fallback"; the upsert
\* of the registry).  Nor was the handle revoked before the read began.
ServedIsCurrent ==
  \A c \in Served : calls[c].content.content = calls[c].epoch /\ ~calls[c].revoked

\* A receipt never says the observation is younger than it is: the source was
\* asked no earlier than observed_at (Read: "it never claims fresher than
\* reality"; Locate reads its time before it asks the source).
ReceiptNotFresher ==
  \A c \in Served : handles[calls[c].handle].purpose =>
    MintObservationReceipt(c).observedAt =< calls[c].content.fetched

\* Following continuations shows every record once: a page starts at its
\* handle's offset, ends where its continuation starts, and the last one ends
\* at the end; none is empty unless all is (the pagination window of Read,
\* "never silently truncated").
PagesPartition ==
  \A c \in Served :
    /\ calls[c].from = handles[calls[c].handle].offset
    /\ calls[c].to = IF calls[c].next = NoName THEN Count ELSE handles[calls[c].next].offset
    /\ calls[c].from < calls[c].to \/ Count = 0

\* Only content that no handle may still show is removed: the sweep deletes by
\* one handle's deadline an object that continuations share (SweepRetention,
\* "safe by construction").
SweptIsPast ==
  \A h \in DOMAIN handles :
    handles[h].object \in DOMAIN objects \cup aborted \/ handles[h].retention =< clock

\* Nothing a failed locate persisted is served to a read that begins after its
\* clean-up deleted the objects, not even through a handle whose insert was thought to have failed
\* (Locate, "Any failure rolls the already-persisted parts back").
AbortedIsUnreadable == \A c \in Served : ~calls[c].aborted

\* A read shows what its locate staged, and of it only the fields that both the
\* need and the read may use, whatever became of the file (Read: the
\* authenticated decryption and the content hash; stagingFields, "only fields
\* the need may use are staged").
ShownIsAsLocated ==
  \A c \in Served :
    LET need == handles[calls[c].handle].hash.need IN
    /\ calls[c].content = handles[calls[c].handle].hash
    /\ Given(need.fields) => calls[c].shown \subseteq need.fields
    /\ Given(need.allowed) => calls[c].shown \subseteq need.allowed
    /\ calls[c].fields # NoFields => calls[c].shown \subseteq calls[c].fields

\* No handle, nor any continuation of it, without the lineage head of its
\* locate, whatever failed before (Locate: "without a recorded lineage head no
\* handle is issued").
HandlesAreAudited == \A h \in DOMAIN handles : handles[h].object \in lineage

\* What a read serves is current, its own locate's, of a locate that stands, and
\* attested no younger than it is (Locate and Read, through every step between).
ServedIsSound == ServedIsCurrent /\ ShownIsAsLocated /\ AbortedIsUnreadable /\ ReceiptNotFresher

\* The handles of one locate page through its content without gap or overlap,
\* keep it until their deadline, and have a lineage.
HandlesAreSound == EvidenceTypeOK /\ PagesPartition /\ SweptIsPast /\ HandlesAreAudited
=============================================================================
