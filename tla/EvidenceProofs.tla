--------------------------- MODULE EvidenceProofs ---------------------------
(***************************************************************************)
(* Proofs about the evidence vault (EvidenceSpec), about the ledger that   *)
(* its reads and writes are audited in (AuditSpec), about the Merkle tree  *)
(* of a batch and about the packages that are made of it.                  *)
(*                                                                         *)
(* The vault has no lock that spans a locate or a read. What is served is  *)
(* true because a version that is current names the content of the present *)
(* epoch, and because names are fresh: nobody but the locate that put an   *)
(* object makes handles for it. EvidenceInv says what a call knows at each *)
(* of its steps.                                                           *)
(*                                                                         *)
(* The ledger has one lock, from the read of a head to the commit, so the  *)
(* row a writer built is still the row it would build when it inserts it.  *)
(* An operator's command has none: what it read can only have grown since, *)
(* unless rows were lost. AuditInv says so.                                *)
(*                                                                         *)
(* A package is the bundle of a chain as it was appended (PackageInv). Its *)
(* root determines its hashes, whatever their number, because a promoted   *)
(* node is less deep than a hashed one; its signature is over that root;   *)
(* and a hash determines its event. So whatever is rebuilt from other      *)
(* events under the same signature has another root.                       *)
(***************************************************************************)
EXTENDS Evidence, AuditChain, FiniteSetTheorems, SequenceTheorems, WellFoundedInduction, TLAPS

-----------------------------------------------------------------------------
(* The evidence vault.                                                     *)

LocatePcs == {"resolve", "fetch", "put", "lineage", "create", "cleanup"}
ReadPcs == {"events", "binding", "get", "page", "audit", "served"}

Stageds == [need : Asks, source : Bindings, fetched : Nat, content : Nat, fields : SUBSET Fields]

Locates ==
  [pc : LocatePcs, owner : Owners, ask : Asks, now : Nat, source : Bindings \cup {NoBinding},
   staged : Seq(Stageds), puts : SUBSET Names, made : SUBSET Names]

Reads ==
  [pc : ReadPcs, handle : Names, limit : Nat, fields : (SUBSET Fields) \cup {NoFields}, now : Nat, puts : {{}},
   revoked : BOOLEAN, aborted : BOOLEAN, source : Bindings \cup {NoBinding}, epoch : Nat,
   content : Stageds \cup {NoName}, shown : SUBSET Fields, from : Nat, to : Nat, next : Names \cup {NoName}]

HandleRows ==
  [owner : Owners, purpose : BOOLEAN, object : Names, hash : Stageds, version : Nat, cached : BOOLEAN,
   offset : Nat, limit : Nat, staged : Nat, expires : Int, retention : Int]

EvidenceTypes ==
  /\ clock \in 0..MaxTime /\ epoch \in 0..MaxVersion
  /\ \/ binding = NoBinding
     \/ /\ binding \in Bindings /\ binding.declaration.effect = "read"
        /\ binding.version + (IF binding.deleted THEN 1 ELSE 0) <= epoch + 1
  /\ DOMAIN objects \subseteq Names /\ objects \in [DOMAIN objects -> [key : Names, plain : Stageds]]
  /\ DOMAIN handles \subseteq Names /\ handles \in [DOMAIN handles -> HandleRows]
  /\ events \subseteq Names \X {"revoked", "content_expired"}
  /\ lineage \subseteq Names /\ aborted \subseteq Names
  /\ calls \in [Callers -> Locates \cup Reads \cup {Resting}]
  /\ sweep = NoName \/ sweep \in DOMAIN handles

\* A version that is current and of a source that is not deleted names the content
\* of the present epoch.
Versioned(source, content) ==
  /\ binding # NoBinding /\ source.version <= binding.version
  /\ source.version = binding.version /\ ~binding.deleted => content = epoch

\* What is staged was projected to the fields of its need.
Projected(s) == s.fields = ProjectRecords(Fields, StagingFields(s.need))

\* The object put last has no handle yet.
Pending(c, o) ==
  /\ o \notin calls[c].made /\ calls[c].puts = calls[c].made \cup {o}
  /\ o \in DOMAIN objects /\ o \notin DOMAIN handles
  /\ \A h \in DOMAIN handles : handles[h].object # o
  /\ calls[c].pc = "create" => o \in lineage

\* What a locate knows at each of its steps.
LocateKnows(c) ==
  calls[c].pc \in LocatePcs =>
    /\ calls[c].now <= clock
    /\ \A i \in 1..Len(calls[c].staged) :
         LET s == calls[c].staged[i] IN
         Versioned(s.source, s.content) /\ Projected(s) /\ calls[c].now <= s.fetched
    /\ calls[c].pc \in {"resolve", "fetch"} =>
         calls[c].puts = {} /\ calls[c].made = {} /\ Len(calls[c].staged) < calls[c].ask.needs
    /\ calls[c].pc = "fetch" =>
         calls[c].source \in Bindings /\ binding # NoBinding /\ calls[c].source.version <= binding.version
    /\ calls[c].pc \in {"put", "lineage", "create"} =>
         /\ IsFiniteSet(calls[c].made) /\ Cardinality(calls[c].made) < calls[c].ask.needs
         /\ Len(calls[c].staged) = calls[c].ask.needs
    /\ calls[c].pc = "put" => calls[c].puts = calls[c].made
    /\ calls[c].pc \in {"lineage", "create"} => \E o \in calls[c].puts : Pending(c, o)

\* What a read knows at each of its steps.
ReadKnows(c) ==
  calls[c].pc \in ReadPcs =>
    LET r == calls[c]  handle == handles[r.handle] IN
    /\ r.handle \in DOMAIN handles
    /\ r.aborted => handle.object \in aborted
    /\ r.revoked => <<r.handle, "revoked">> \in events
    /\ r.pc # "events" => ~r.revoked
    /\ r.pc \in {"get", "page", "audit", "served"} => handle.hash.content = r.epoch
    /\ r.pc \in {"page", "audit", "served"} => r.content = handle.hash /\ ~r.aborted
    /\ r.pc \in {"audit", "served"} =>
         /\ r.shown = ProjectRecords(r.content.fields, r.fields)
         /\ r.from = handle.offset /\ (r.from < r.to \/ Count = 0)
         /\ r.next = NoName \/ r.next \in DOMAIN handles
         /\ r.to = IF r.next = NoName THEN Count ELSE handles[r.next].offset

\* What is true of every handle, and of those that share an object.
HandleKnows(h) ==
  LET handle == handles[h] IN
  /\ Versioned(handle.hash.source, handle.hash.content) /\ Projected(handle.hash)
  /\ handle.version = handle.hash.source.version /\ handle.staged <= handle.hash.fetched
  /\ handle.object \in lineage
  /\ handle.object \in DOMAIN objects \cup aborted \/ handle.retention <= clock
  /\ handle.offset = 0 \/ handle.offset < Count
  /\ \A g \in DOMAIN handles : handles[g].object = handle.object => handles[g].retention = handle.retention

NamesApart ==
  /\ DOMAIN objects \cap aborted = {}
  /\ \A c, d \in Callers :
       calls[c].pc \in LocatePcs /\ calls[d].pc \in LocatePcs /\ c # d => calls[c].puts \cap calls[d].puts = {}

EvidenceInv ==
  /\ EvidenceTypes /\ NamesApart
  /\ \A c \in Callers : LocateKnows(c) /\ ReadKnows(c)
  /\ \A h \in DOMAIN handles : HandleKnows(h)

Kept == \A h \in DOMAIN handles : h \in DOMAIN handles' /\ handles'[h] = handles[h]

\* A call is what its step says it is.
LEMMA CallShapes ==
  ASSUME EvidenceTypes, NEW c \in Callers
  PROVE  /\ calls[c].pc \in LocatePcs => calls[c] \in Locates
         /\ calls[c].pc \in ReadPcs => calls[c] \in Reads
         /\ calls[c].pc \in LocatePcs \cup ReadPcs \cup {"rest"}
         /\ calls[c].pc = "rest" => calls[c] = Resting
<1>1. calls[c] \in Locates \cup Reads \cup {Resting}
  BY DEF EvidenceTypes
<1>2. CASE calls[c] \in Locates
  BY <1>2 DEF Locates, LocatePcs, ReadPcs
<1>3. CASE calls[c] \in Reads
  BY <1>3 DEF Reads, LocatePcs, ReadPcs
<1>4. CASE calls[c] = Resting
  BY <1>4 DEF Resting, LocatePcs, ReadPcs
<1> QED
  BY <1>1, <1>2, <1>3, <1>4

\* A fresh name is nobody's.
LEMMA FreshNames ==
  ASSUME EvidenceInv, Taken # Names
  PROVE  /\ FreshName \in Names
         /\ FreshName \notin DOMAIN handles /\ FreshName \notin DOMAIN objects
         /\ FreshName \notin lineage /\ FreshName \notin aborted
         /\ \A c \in Callers : calls[c].pc \in LocatePcs => FreshName \notin calls[c].puts
         /\ \A h \in DOMAIN handles : handles[h].object # FreshName
<1>1. \A c \in Callers : calls[c].pc # "rest" => calls[c].puts \subseteq Names
  <2>1. SUFFICES ASSUME NEW c \in Callers, calls[c].pc # "rest" PROVE calls[c].puts \subseteq Names
    OBVIOUS
  <2> QED
    BY <2>1, CallShapes DEF EvidenceInv, Locates, Reads
<1>2. Taken \subseteq Names
  BY <1>1 DEF Taken, EvidenceInv, EvidenceTypes
<1>3. FreshName \in Names /\ FreshName \notin Taken
  BY <1>2 DEF FreshName
<1>4. \A c \in Callers : calls[c].pc \in LocatePcs => FreshName \notin calls[c].puts
  BY <1>3 DEF Taken, LocatePcs
<1>5. \A h \in DOMAIN handles : handles[h].object # FreshName
  BY <1>3 DEF Taken, EvidenceInv, HandleKnows
<1> QED
  BY <1>3, <1>4, <1>5 DEF Taken

-----------------------------------------------------------------------------
(* What a step leaves alone.                                               *)

\* A read goes on knowing what it knew while handles are only added.
LEMMA ReadFrame ==
  ASSUME NEW c \in Callers, ReadKnows(c), calls'[c] = calls[c], Kept,
         events \subseteq events', aborted \subseteq aborted'
  PROVE  ReadKnows(c)'
<1> SUFFICES ASSUME calls[c].pc \in ReadPcs PROVE ReadKnows(c)'
  BY DEF ReadKnows
<1> DEFINE r == calls[c]
<1>1. r.handle \in DOMAIN handles' /\ handles'[r.handle] = handles[r.handle]
  BY DEF ReadKnows, Kept
<1>2. r.pc \in {"audit", "served"} =>
        r.next = NoName \/ (r.next \in DOMAIN handles' /\ handles'[r.next] = handles[r.next])
  BY DEF ReadKnows, Kept
<1> QED
  BY <1>1, <1>2 DEF ReadKnows

\* So does a locate, while the object put last is left alone.
LEMMA LocateFrame ==
  ASSUME NEW c \in Callers, LocateKnows(c), calls'[c] = calls[c], UNCHANGED registryVars,
         clock \in Nat, clock' \in Nat, clock <= clock', calls[c] \in Locates \cup Reads \cup {Resting},
         lineage \subseteq lineage',
         calls[c].pc \in LocatePcs =>
           \A o \in calls[c].puts :
             /\ o \in DOMAIN objects => o \in DOMAIN objects'
             /\ o \notin DOMAIN handles => o \notin DOMAIN handles'
             /\ (\A h \in DOMAIN handles : handles[h].object # o) =>
                  \A h \in DOMAIN handles' : handles'[h].object # o
  PROVE  LocateKnows(c)'
<1> SUFFICES ASSUME calls[c].pc \in LocatePcs PROVE LocateKnows(c)'
  BY DEF LocateKnows
<1> calls[c] \in Locates
  BY DEF Locates, Reads, Resting, LocatePcs, ReadPcs
<1>1. binding' = binding /\ epoch' = epoch
  BY DEF registryVars
<1>2. ASSUME NEW o \in calls[c].puts, Pending(c, o) PROVE Pending(c, o)'
  BY <1>2 DEF Pending
<1>3. calls[c].now <= clock'
  BY DEF LocateKnows, Locates
<1> QED
  BY <1>1, <1>2, <1>3 DEF LocateKnows, Versioned, Projected

\* So do the handles, while their objects stay or their time has come.
LEMMA HandleFrame ==
  ASSUME NEW h \in DOMAIN handles, HandleKnows(h), UNCHANGED registryVars, handles' = handles,
         handles[h].retention \in Int, clock \in Nat, clock' \in Nat, clock <= clock',
         lineage \subseteq lineage',
         handles[h].object \in DOMAIN objects \cup aborted =>
           handles[h].object \in DOMAIN objects' \cup aborted' \/ handles[h].retention <= clock
  PROVE  HandleKnows(h)'
<1>1. binding' = binding /\ epoch' = epoch
  BY DEF registryVars
<1>2. handles[h].object \in DOMAIN objects' \cup aborted' \/ handles[h].retention <= clock'
  BY DEF HandleKnows
<1> QED
  BY <1>1, <1>2 DEF HandleKnows, Versioned, Projected

-----------------------------------------------------------------------------
(* The steps of a locate.                                                  *)

\* A step that changes one call and nothing else.
LEMMA CallOnly ==
  ASSUME EvidenceInv, NEW c \in Callers, UNCHANGED <<clock, registryVars, vaultVars, sweep>>,
         calls' \in [Callers -> Locates \cup Reads \cup {Resting}],
         \A d \in Callers : d # c => calls'[d] = calls[d],
         LocateKnows(c)', ReadKnows(c)',
         calls'[c].pc \in LocatePcs =>
           calls'[c].puts = {} \/ (calls[c].pc \in LocatePcs /\ calls'[c].puts = calls[c].puts)
  PROVE  EvidenceInv'
<1>1. /\ clock' = clock /\ binding' = binding /\ epoch' = epoch /\ objects' = objects /\ handles' = handles
      /\ events' = events /\ lineage' = lineage /\ aborted' = aborted /\ sweep' = sweep
  BY DEF registryVars, vaultVars
<1>2. EvidenceTypes'
  BY <1>1 DEF EvidenceInv, EvidenceTypes
<1>3. clock \in Nat
  BY DEF EvidenceInv, EvidenceTypes
<1>4. NamesApart'
  BY <1>1 DEF EvidenceInv, NamesApart
<1>5. \A d \in Callers : d # c => LocateKnows(d)'
  <2>1. SUFFICES ASSUME NEW d \in Callers, d # c PROVE LocateKnows(d)'
    OBVIOUS
  <2>2. calls'[d] = calls[d] /\ calls[d] \in Locates \cup Reads \cup {Resting} /\ LocateKnows(d)
    BY <2>1 DEF EvidenceInv, EvidenceTypes
  <2> QED
    BY <1>1, <1>3, <2>2, LocateFrame DEF registryVars
<1>6. \A d \in Callers : d # c => ReadKnows(d)'
  BY <1>1, ReadFrame DEF EvidenceInv, Kept
<1>7. \A h \in DOMAIN handles' : HandleKnows(h)'
  <2>1. SUFFICES ASSUME NEW h \in DOMAIN handles PROVE HandleKnows(h)'
    BY <1>1
  <2>2. HandleKnows(h) /\ handles[h].retention \in Int
    BY DEF EvidenceInv, EvidenceTypes, HandleRows
  <2> QED
    BY <1>1, <1>3, <2>2, HandleFrame DEF registryVars
<1> QED
  BY <1>2, <1>4, <1>5, <1>6, <1>7 DEF EvidenceInv

\* A call that ends.
LEMMA RestInv ==
  ASSUME EvidenceInv, NEW c \in Callers, UNCHANGED <<clock, registryVars, vaultVars, sweep>>,
         calls' = [calls EXCEPT ![c] = Resting]
  PROVE  EvidenceInv'
<1>1. calls'[c] = Resting /\ \A d \in Callers : d # c => calls'[d] = calls[d]
  BY DEF EvidenceInv, EvidenceTypes
<1>2. calls' \in [Callers -> Locates \cup Reads \cup {Resting}]
  BY DEF EvidenceInv, EvidenceTypes
<1>3. LocateKnows(c)' /\ ReadKnows(c)' /\ calls'[c].pc \notin LocatePcs
  BY <1>1 DEF LocateKnows, ReadKnows, Resting, LocatePcs, ReadPcs
<1> QED
  BY <1>1, <1>2, <1>3, CallOnly

\* A locate starts, with nothing staged and nothing put.
LEMMA LocateInv ==
  ASSUME EvidenceInv, NEW c \in Locators, NEW o \in Owners, NEW ask \in Asks, Locate(c, o, ask)
  PROVE  EvidenceInv'
<1> c \in Callers
  BY DEF Callers
<1> DEFINE rec == [pc |-> "resolve", owner |-> o, ask |-> ask, now |-> clock, source |-> NoBinding, staged |-> <<>>,
                   puts |-> {}, made |-> {}]
<1>1. calls' = [calls EXCEPT ![c] = rec] /\ UNCHANGED <<clock, registryVars, vaultVars, sweep>>
  BY DEF Locate
<1>2. rec \in Locates
  <2>1. clock \in Nat /\ <<>> \in Seq(Stageds)
    BY DEF EvidenceInv, EvidenceTypes
  <2> QED
    BY <2>1 DEF Locates, LocatePcs
<1>3. /\ calls'[c] = rec /\ \A d \in Callers : d # c => calls'[d] = calls[d]
      /\ calls' \in [Callers -> Locates \cup Reads \cup {Resting}]
  BY <1>1, <1>2 DEF EvidenceInv, EvidenceTypes
<1>4. LocateKnows(c)'
  <2>1. ask.needs \in Nat \ {0} /\ Len(<<>>) = 0 /\ clock \in Nat
    BY EvidenceBounds DEF EvidenceInv, EvidenceTypes
  <2>2. clock' = clock
    BY <1>1
  <2> QED
    BY <1>3, <2>1, <2>2 DEF LocateKnows
<1>5. ReadKnows(c)' /\ calls'[c].puts = {}
  BY <1>3 DEF ReadKnows, ReadPcs
<1> QED
  BY <1>1, <1>3, <1>4, <1>5, CallOnly

\* A need is resolved to the registry row of this moment.
LEMMA ResolveNeedInv ==
  ASSUME EvidenceInv, NEW c \in Locators, ResolveNeed(c)
  PROVE  EvidenceInv'
<1> c \in Callers
  BY DEF Callers
<1>1. /\ calls[c].pc = "resolve" /\ binding # NoBinding
      /\ calls' = [calls EXCEPT ![c].pc = "fetch", ![c].source = binding]
      /\ UNCHANGED <<clock, registryVars, vaultVars, sweep>>
  BY DEF ResolveNeed, GetEvidenceSourceBinding
<1>2. calls[c] \in Locates /\ binding \in Bindings /\ calls \in [Callers -> Locates \cup Reads \cup {Resting}]
  BY <1>1, CallShapes DEF LocatePcs, EvidenceInv, EvidenceTypes
<1>3. calls'[c] = [calls[c] EXCEPT !.pc = "fetch", !.source = binding]
  BY <1>1, <1>2
<1>4. /\ calls'[c] \in Locates /\ \A d \in Callers : d # c => calls'[d] = calls[d]
      /\ calls' \in [Callers -> Locates \cup Reads \cup {Resting}]
  <2>1. calls'[c] \in Locates
    BY <1>2, <1>3 DEF Locates, LocatePcs
  <2> QED
    BY <1>1, <1>2, <2>1
<1>5. /\ calls'[c].pc = "fetch" /\ calls'[c].source = binding /\ calls'[c].puts = calls[c].puts
      /\ calls'[c].made = calls[c].made /\ calls'[c].staged = calls[c].staged
      /\ calls'[c].ask = calls[c].ask /\ calls'[c].now = calls[c].now
  BY <1>2, <1>3 DEF Locates
<1>6. clock' = clock /\ binding' = binding /\ epoch' = epoch
  BY <1>1 DEF registryVars
<1>7. LocateKnows(c)'
  <2>1. LocateKnows(c) /\ binding.version \in Int
    BY <1>2 DEF EvidenceInv, Bindings
  <2> QED
    BY <1>1, <1>2, <1>5, <1>6, <2>1 DEF LocateKnows, Versioned, Projected, LocatePcs
<1>8. ReadKnows(c)' /\ calls[c].pc \in LocatePcs
  BY <1>1, <1>5 DEF ReadKnows, ReadPcs, LocatePcs
<1> QED
  BY <1>1, <1>4, <1>5, <1>7, <1>8, CallOnly

\* What is fetched now is of the epoch it is labelled with.
LEMMA FetchEvidenceInv ==
  ASSUME EvidenceInv, NEW c \in Locators, FetchEvidence(c)
  PROVE  EvidenceInv'
<1> c \in Callers
  BY DEF Callers
<1> DEFINE need == calls[c].ask
           s == [need |-> need, source |-> calls[c].source, fetched |-> clock, content |-> epoch,
                 fields |-> ProjectRecords(Fields, StagingFields(need))]
           pc == IF Len(calls[c].staged) + 1 = need.needs THEN "put" ELSE "resolve"
<1>1. /\ calls[c].pc = "fetch"
      /\ calls' = [calls EXCEPT ![c].pc = pc, ![c].staged = Append(@, s)]
      /\ UNCHANGED <<clock, registryVars, vaultVars, sweep>>
  BY DEF FetchEvidence
<1>2. calls[c] \in Locates /\ calls \in [Callers -> Locates \cup Reads \cup {Resting}] /\ LocateKnows(c)
  BY <1>1, CallShapes DEF LocatePcs, EvidenceInv, EvidenceTypes
<1>3. /\ calls[c].now <= clock /\ calls[c].source \in Bindings /\ binding # NoBinding
      /\ calls[c].source.version <= binding.version /\ calls[c].puts = {} /\ calls[c].made = {}
      /\ Len(calls[c].staged) < need.needs /\ need.needs \in Nat /\ need \in Asks
      /\ calls[c].staged \in Seq(Stageds) /\ clock \in Nat /\ epoch \in Nat
  BY <1>1, <1>2, EvidenceBounds DEF LocateKnows, LocatePcs, Locates, EvidenceInv, EvidenceTypes
<1>4. s \in Stageds
  <2>1. ProjectRecords(Fields, StagingFields(need)) \in SUBSET Fields
    BY DEF ProjectRecords
  <2> QED
    BY <1>3, <2>1 DEF Stageds
<1> HIDE DEF s, pc
<1>5. calls'[c] = [calls[c] EXCEPT !.pc = pc, !.staged = Append(@, s)]
  BY <1>1, <1>2
<1>6. pc \in {"put", "resolve"}
  BY DEF pc
<1>7. /\ calls'[c].pc = pc /\ calls'[c].staged = Append(calls[c].staged, s) /\ calls'[c].puts = {}
      /\ calls'[c].made = {} /\ calls'[c].ask = need /\ calls'[c].now = calls[c].now
  BY <1>2, <1>3, <1>5 DEF Locates
<1>8. /\ calls'[c] \in Locates /\ \A d \in Callers : d # c => calls'[d] = calls[d]
      /\ calls' \in [Callers -> Locates \cup Reads \cup {Resting}]
  <2>1. Append(calls[c].staged, s) \in Seq(Stageds)
    BY <1>3, <1>4
  <2>2. calls'[c] \in Locates
    BY <1>2, <1>5, <1>6, <2>1 DEF Locates, LocatePcs
  <2> QED
    BY <1>1, <1>2, <2>2
<1>9. clock' = clock /\ binding' = binding /\ epoch' = epoch
  BY <1>1 DEF registryVars
<1>10. LocateKnows(c)'
  <2>1. Len(calls'[c].staged) = Len(calls[c].staged) + 1 /\ Len(calls[c].staged) \in Nat
    BY <1>3, <1>7
  <2>2. \A i \in 1..Len(calls'[c].staged) :
          Versioned(calls'[c].staged[i].source, calls'[c].staged[i].content)
            /\ Projected(calls'[c].staged[i]) /\ calls[c].now <= calls'[c].staged[i].fetched
    <3>1. SUFFICES ASSUME NEW i \in 1..Len(calls'[c].staged)
                   PROVE  Versioned(calls'[c].staged[i].source, calls'[c].staged[i].content)
                            /\ Projected(calls'[c].staged[i]) /\ calls[c].now <= calls'[c].staged[i].fetched
      OBVIOUS
    <3>2. CASE i = Len(calls[c].staged) + 1
      <4>1. calls'[c].staged[i] = s
        BY <1>3, <1>7, <3>2
      <4> QED
        BY <1>3, <4>1 DEF s, Versioned, Projected
    <3>3. CASE i \in 1..Len(calls[c].staged)
      <4>1. calls'[c].staged[i] = calls[c].staged[i]
        BY <1>3, <1>7, <3>3
      <4> QED
        BY <1>1, <1>2, <3>3, <4>1 DEF LocateKnows, LocatePcs
    <3> QED
      BY <2>1, <3>2, <3>3
  <2>3. (\A i \in 1..Len(calls[c].staged) :
           LET x == calls[c].staged[i] IN
           Versioned(x.source, x.content) /\ Projected(x) /\ calls[c].now <= x.fetched)'
    BY <1>7, <1>9, <2>2 DEF Versioned, Projected
  <2>4. IsFiniteSet({}) /\ Cardinality({}) = 0
    BY FS_EmptySet
  <2>5. pc = "resolve" => Len(calls[c].staged) + 1 < need.needs
    BY <1>3, <2>1 DEF pc
  <2>6. pc = "put" => Len(calls[c].staged) + 1 = need.needs
    BY DEF pc
  <2> QED
    BY <1>3, <1>6, <1>7, <1>9, <2>1, <2>3, <2>4, <2>5, <2>6 DEF LocateKnows
<1>11. ReadKnows(c)'
  BY <1>6, <1>7 DEF ReadKnows, ReadPcs
<1> QED
  BY <1>1, <1>7, <1>8, <1>10, <1>11, CallOnly

\* The object put last is the one that is known of.
LEMMA LatestPending ==
  ASSUME EvidenceInv, NEW c \in Callers, calls[c].pc \in {"lineage", "create"}
  PROVE  Latest(c) \in Names /\ Latest(c) \in calls[c].puts /\ Pending(c, Latest(c))
<1>1. calls[c] \in Locates /\ LocateKnows(c)
  BY CallShapes DEF LocatePcs, EvidenceInv
<1>2. PICK o \in calls[c].puts : Pending(c, o)
  BY <1>1 DEF LocateKnows, LocatePcs
<1>3. Latest(c) = o
  BY <1>2 DEF Latest, Pending
<1> QED
  BY <1>1, <1>2, <1>3 DEF Locates

\* A locate that persists has a need to persist next.
LEMMA CurrentStaged ==
  ASSUME EvidenceInv, NEW c \in Callers, calls[c].pc \in {"put", "lineage", "create"}
  PROVE  /\ Current(c) \in Stageds /\ Projected(Current(c)) /\ Versioned(Current(c).source, Current(c).content)
         /\ calls[c].now <= Current(c).fetched
<1>1. calls[c] \in Locates /\ LocateKnows(c)
  BY CallShapes DEF LocatePcs, EvidenceInv
<1>2. IsFiniteSet(calls[c].made) /\ Cardinality(calls[c].made) < Len(calls[c].staged)
  BY <1>1 DEF LocateKnows, LocatePcs
<1>3. Cardinality(calls[c].made) + 1 \in 1..Len(calls[c].staged) /\ calls[c].staged \in Seq(Stageds)
  <2>1. Cardinality(calls[c].made) \in Nat
    BY <1>2, FS_CardinalityType
  <2>2. calls[c].staged \in Seq(Stageds)
    BY <1>1 DEF Locates
  <2> QED
    BY <1>2, <2>1, <2>2
<1>4. Current(c) \in Stageds
  BY <1>3 DEF Current
<1>5. calls[c].pc \in LocatePcs
  BY DEF LocatePcs
<1> QED
  BY <1>1, <1>3, <1>4, <1>5 DEF Current, LocateKnows

\* The other calls know what they knew while names they do not hold are used.
LEMMA OthersKnow ==
  ASSUME EvidenceInv, NEW c \in Callers, UNCHANGED <<clock, registryVars>>,
         \A d \in Callers : d # c => calls'[d] = calls[d],
         Kept, lineage \subseteq lineage', events \subseteq events', aborted \subseteq aborted',
         \A d \in Callers : d # c /\ calls[d].pc \in LocatePcs =>
           \A o \in calls[d].puts :
             /\ o \in DOMAIN objects => o \in DOMAIN objects'
             /\ o \notin DOMAIN handles => o \notin DOMAIN handles'
             /\ (\A h \in DOMAIN handles : handles[h].object # o) =>
                  \A h \in DOMAIN handles' : handles'[h].object # o
  PROVE  \A d \in Callers : d # c => LocateKnows(d)' /\ ReadKnows(d)'
<1>1. SUFFICES ASSUME NEW d \in Callers, d # c PROVE LocateKnows(d)' /\ ReadKnows(d)'
  OBVIOUS
<1>2. /\ LocateKnows(d) /\ ReadKnows(d) /\ calls'[d] = calls[d] /\ clock \in Nat /\ clock' = clock
      /\ calls[d] \in Locates \cup Reads \cup {Resting}
  BY <1>1 DEF EvidenceInv, EvidenceTypes
<1>3. ReadKnows(d)'
  BY <1>2, ReadFrame
<1>4. LocateKnows(d)'
  BY <1>1, <1>2, LocateFrame
<1> QED
  BY <1>3, <1>4

\* An object is put under a name that is nobody's.
LEMMA PutObjectInv ==
  ASSUME EvidenceInv, NEW c \in Locators, PutObject(c)
  PROVE  EvidenceInv'
<1> c \in Callers
  BY DEF Callers
<1>0. PICK f \in Names : f = FreshName
  BY FreshNames DEF PutObject
<1> DEFINE x == Seal(f, Current(c))
<1>1. /\ calls[c].pc = "put" /\ Taken # Names
      /\ objects' = With(objects, f, x)
      /\ calls' = [calls EXCEPT ![c].pc = "lineage", ![c].puts = @ \cup {f}]
      /\ clock' = clock /\ UNCHANGED registryVars /\ binding' = binding /\ epoch' = epoch
      /\ handles' = handles /\ events' = events /\ lineage' = lineage /\ aborted' = aborted /\ sweep' = sweep
  BY <1>0 DEF PutObject, registryVars
<1>2. /\ calls[c] \in Locates /\ calls \in [Callers -> Locates \cup Reads \cup {Resting}]
      /\ LocateKnows(c) /\ calls[c].pc \in LocatePcs /\ clock \in Nat
  BY <1>1, CallShapes DEF LocatePcs, EvidenceInv, EvidenceTypes
<1>3. x \in [key : Names, plain : Stageds]
  BY <1>1, CurrentStaged DEF Seal
<1>4. /\ f \in Names /\ f \notin DOMAIN handles /\ f \notin DOMAIN objects /\ f \notin aborted
      /\ \A d \in Callers : calls[d].pc \in LocatePcs => f \notin calls[d].puts
      /\ \A h \in DOMAIN handles : handles[h].object # f
  BY <1>0, <1>1, FreshNames
<1> HIDE DEF x
<1>5. DOMAIN objects' = DOMAIN objects \cup {f}
  BY <1>1 DEF With
<1>6. /\ calls'[c].pc = "lineage" /\ calls'[c].puts = calls[c].puts \cup {f} /\ calls'[c].made = calls[c].made
      /\ calls'[c].staged = calls[c].staged /\ calls'[c].ask = calls[c].ask /\ calls'[c].now = calls[c].now
      /\ calls'[c] \in Locates /\ \A d \in Callers : d # c => calls'[d] = calls[d]
      /\ calls' \in [Callers -> Locates \cup Reads \cup {Resting}]
  <2>1. calls'[c] = [calls[c] EXCEPT !.pc = "lineage", !.puts = calls[c].puts \cup {f}]
    BY <1>1, <1>2
  <2>3. calls[c].puts \cup {f} \in SUBSET Names
    BY <1>2 DEF Locates
  <2>2. calls'[c] \in Locates
    BY <1>2, <2>3, <2>1 DEF Locates, LocatePcs
  <2> QED
    BY <1>1, <1>2, <2>1, <2>2 DEF Locates
<1>7. EvidenceTypes'
  <2>1. objects' \in [DOMAIN objects' -> [key : Names, plain : Stageds]] /\ DOMAIN objects' \subseteq Names
    BY <1>1, <1>3, <1>4, <1>5 DEF With, EvidenceInv, EvidenceTypes
  <2> QED
    BY <1>1, <1>6, <2>1 DEF EvidenceInv, EvidenceTypes
<1>8. NamesApart'
  BY <1>1, <1>2, <1>4, <1>5, <1>6 DEF EvidenceInv, NamesApart
<1>9. \A d \in Callers : d # c => LocateKnows(d)' /\ ReadKnows(d)'
  BY <1>1, <1>5, <1>6, OthersKnow DEF Kept
<1>10. LocateKnows(c)' /\ ReadKnows(c)'
  <2>1. calls[c].puts = calls[c].made
    BY <1>1, <1>2 DEF LocateKnows
  <2>2. Pending(c, f)'
    BY <1>1, <1>2, <1>4, <1>5, <1>6, <2>1 DEF Pending
  <2>3. LocateKnows(c)'
    BY <1>1, <1>2, <1>6, <2>2 DEF LocateKnows, Versioned, Projected
  <2> QED
    BY <1>6, <2>3 DEF ReadKnows, ReadPcs
<1>11. \A h \in DOMAIN handles' : HandleKnows(h)'
  <2>1. SUFFICES ASSUME NEW h \in DOMAIN handles PROVE HandleKnows(h)'
    BY <1>1
  <2>2. HandleKnows(h) /\ handles[h].retention \in Int
    BY DEF EvidenceInv, EvidenceTypes, HandleRows
  <2> QED
    BY <1>1, <1>2, <1>5, <2>2, HandleFrame
<1> QED
  BY <1>7, <1>8, <1>9, <1>10, <1>11 DEF EvidenceInv

\* The lineage of the object put last, before its handle.
LEMMA AppendLocateAuditInv ==
  ASSUME EvidenceInv, NEW c \in Locators, AppendLocateAudit(c)
  PROVE  EvidenceInv'
<1> c \in Callers
  BY DEF Callers
<1>0. PICK o \in Names : o = Latest(c)
  BY LatestPending DEF AppendLocateAudit
<1>1. /\ calls[c].pc = "lineage" /\ lineage' = lineage \cup {o}
      /\ calls' = [calls EXCEPT ![c].pc = "create"]
      /\ clock' = clock /\ UNCHANGED registryVars /\ binding' = binding /\ epoch' = epoch
      /\ objects' = objects /\ handles' = handles /\ events' = events /\ aborted' = aborted /\ sweep' = sweep
  BY <1>0 DEF AppendLocateAudit, To, registryVars
<1>2. /\ calls[c] \in Locates /\ calls \in [Callers -> Locates \cup Reads \cup {Resting}]
      /\ LocateKnows(c) /\ calls[c].pc \in LocatePcs /\ clock \in Nat
  BY <1>1, CallShapes DEF LocatePcs, EvidenceInv, EvidenceTypes
<1>3. o \in Names /\ o \in calls[c].puts /\ Pending(c, o)
  BY <1>0, <1>1, LatestPending
<1>4. /\ calls'[c].pc = "create" /\ calls'[c].puts = calls[c].puts /\ calls'[c].made = calls[c].made
      /\ calls'[c].staged = calls[c].staged /\ calls'[c].ask = calls[c].ask /\ calls'[c].now = calls[c].now
      /\ calls'[c] \in Locates /\ \A d \in Callers : d # c => calls'[d] = calls[d]
      /\ calls' \in [Callers -> Locates \cup Reads \cup {Resting}]
  <2>1. calls'[c] = [calls[c] EXCEPT !.pc = "create"]
    BY <1>1, <1>2
  <2>2. calls'[c] \in Locates
    BY <1>2, <2>1 DEF Locates, LocatePcs
  <2> QED
    BY <1>1, <1>2, <2>1, <2>2 DEF Locates
<1>5. EvidenceTypes'
  BY <1>1, <1>3, <1>4 DEF EvidenceInv, EvidenceTypes
<1>6. NamesApart'
  BY <1>1, <1>2, <1>4 DEF EvidenceInv, NamesApart
<1>7. \A d \in Callers : d # c => LocateKnows(d)' /\ ReadKnows(d)'
  BY <1>1, <1>4, OthersKnow DEF Kept
<1>8. LocateKnows(c)' /\ ReadKnows(c)'
  <2>1. Pending(c, o)'
    BY <1>1, <1>3, <1>4 DEF Pending
  <2>2. LocateKnows(c)'
    BY <1>1, <1>2, <1>3, <1>4, <2>1 DEF LocateKnows, Versioned, Projected
  <2> QED
    BY <1>4, <2>2 DEF ReadKnows, ReadPcs
<1>9. \A h \in DOMAIN handles' : HandleKnows(h)'
  <2>1. SUFFICES ASSUME NEW h \in DOMAIN handles PROVE HandleKnows(h)'
    BY <1>1
  <2>2. HandleKnows(h) /\ handles[h].retention \in Int
    BY DEF EvidenceInv, EvidenceTypes, HandleRows
  <2> QED
    BY <1>1, <1>2, <2>2, HandleFrame
<1> QED
  BY <1>5, <1>6, <1>7, <1>8, <1>9 DEF EvidenceInv

\* One handle more, of an object that either is new or keeps its deadline.
LEMMA HandleAdded ==
  ASSUME EvidenceInv, NEW h \in Names, h \notin DOMAIN handles, NEW row \in HandleRows,
         handles' = With(handles, h, row), UNCHANGED <<clock, registryVars, objects, lineage, aborted>>,
         Versioned(row.hash.source, row.hash.content), Projected(row.hash),
         row.version = row.hash.source.version, row.staged <= row.hash.fetched,
         row.object \in lineage, row.object \in DOMAIN objects \cup aborted \/ row.retention <= clock,
         row.offset = 0 \/ row.offset < Count,
         \A g \in DOMAIN handles : handles[g].object = row.object => handles[g].retention = row.retention
  PROVE  /\ \A g \in DOMAIN handles' : HandleKnows(g)'
         /\ Kept /\ handles'[h] = row /\ DOMAIN handles' = DOMAIN handles \cup {h}
         /\ DOMAIN handles' \subseteq Names /\ handles' \in [DOMAIN handles' -> HandleRows]
<1>1. /\ DOMAIN handles' = DOMAIN handles \cup {h} /\ handles'[h] = row
      /\ \A g \in DOMAIN handles : handles'[g] = handles[g]
  BY DEF With
<1>2. DOMAIN handles' \subseteq Names /\ handles' \in [DOMAIN handles' -> HandleRows]
  BY <1>1 DEF With, EvidenceInv, EvidenceTypes
<1>3. binding' = binding /\ epoch' = epoch /\ clock' = clock /\ objects' = objects /\ lineage' = lineage /\ aborted' = aborted
  BY DEF registryVars
<1>4. ASSUME NEW g \in DOMAIN handles PROVE HandleKnows(g)'
  <2>1. HandleKnows(g)
    BY DEF EvidenceInv
  <2>2. \A k \in DOMAIN handles' : handles'[k].object = handles'[g].object => handles'[k].retention = handles'[g].retention
    BY <1>1, <2>1 DEF HandleKnows
  <2> QED
    BY <1>1, <1>3, <2>1, <2>2 DEF HandleKnows, Versioned, Projected
<1>5. HandleKnows(h)'
  <2>1. \A k \in DOMAIN handles' : handles'[k].object = handles'[h].object => handles'[k].retention = handles'[h].retention
    BY <1>1
  <2> QED
    BY <1>1, <1>3, <2>1 DEF HandleKnows, Versioned, Projected
<1> QED
  BY <1>1, <1>2, <1>4, <1>5 DEF Kept

\* The handle of the object put last: a row, of a new object, with its lineage.
LEMMA NewHandleAdded ==
  ASSUME EvidenceInv, NEW c \in Callers, calls[c].pc = "create", NEW h \in Names, h = Latest(c),
         InsertEvidenceHandle(h, NewHandle(c, h)), UNCHANGED <<clock, registryVars, objects, lineage, aborted>>
  PROVE  /\ \A g \in DOMAIN handles' : HandleKnows(g)'
         /\ Kept /\ DOMAIN handles' = DOMAIN handles \cup {h} /\ handles'[h].object = h
         /\ DOMAIN handles' \subseteq Names /\ handles' \in [DOMAIN handles' -> HandleRows]
<1>1. calls[c] \in Locates /\ LocateKnows(c) /\ clock \in Nat
  BY CallShapes DEF LocatePcs, EvidenceInv, EvidenceTypes
<1>2. /\ Current(c) \in Stageds /\ Projected(Current(c)) /\ Versioned(Current(c).source, Current(c).content)
      /\ calls[c].now <= Current(c).fetched
  BY CurrentStaged
<1>3. h \in calls[c].puts /\ Pending(c, h)
  BY LatestPending
<1> DEFINE s == Current(c)
           ttl == s.source.declaration.ttl
           expires == calls[c].now + HandleTTL
           retention == IF ttl = 0 THEN expires ELSE Shorter(calls[c].now + ttl, expires)
           row == NewHandle(c, h)
<1>4. /\ s.need \in Asks /\ s.source \in Bindings /\ s.source.declaration \in Declarations
      /\ s.source.version \in Nat /\ calls[c].now \in Nat /\ calls[c].owner \in Owners
  BY <1>1, <1>2, EvidenceBounds, SMTT(20) DEF Stageds, Locates, Bindings
<1>5. PageLimit(s.need.limits) \in Nat /\ s.need.verification \in BOOLEAN
  BY <1>4, EvidenceBounds DEF PageLimit
<1>6. expires \in Int /\ retention \in Int /\ s.source.declaration.cached \in BOOLEAN
  BY <1>4, EvidenceBounds DEF Shorter
<1>7. row = [owner |-> calls[c].owner, purpose |-> s.need.verification, object |-> h, hash |-> s,
             version |-> s.source.version, cached |-> s.source.declaration.cached,
             offset |-> 0, limit |-> PageLimit(s.need.limits), staged |-> calls[c].now,
             expires |-> expires, retention |-> retention]
  BY DEF NewHandle
<1> HIDE DEF expires, retention, s, row
<1>8. row \in HandleRows
  BY <1>2, <1>4, <1>5, <1>6, <1>7 DEF HandleRows, s
<1>9. /\ row.hash = s /\ row.version = s.source.version /\ row.staged = calls[c].now /\ row.object = h
      /\ row.offset = 0
  BY <1>7
<1>10. h \notin DOMAIN handles /\ h \in lineage /\ h \in DOMAIN objects /\ \A g \in DOMAIN handles : handles[g].object # h
  BY <1>3 DEF Pending
<1>11. handles' = With(handles, h, row)
  BY DEF InsertEvidenceHandle, row
<1>12. /\ Versioned(row.hash.source, row.hash.content) /\ Projected(row.hash)
       /\ row.version = row.hash.source.version /\ row.staged <= row.hash.fetched
  BY <1>2, <1>9 DEF s
<1>13. /\ \A g \in DOMAIN handles' : HandleKnows(g)'
       /\ Kept /\ handles'[h] = row /\ DOMAIN handles' = DOMAIN handles \cup {h}
       /\ DOMAIN handles' \subseteq Names /\ handles' \in [DOMAIN handles' -> HandleRows]
  <2>1. /\ row.object \in lineage /\ row.object \in DOMAIN objects \cup aborted
        /\ \A g \in DOMAIN handles : handles[g].object = row.object => handles[g].retention = row.retention
    BY <1>9, <1>10
  <2>2. UNCHANGED <<clock, registryVars, objects, lineage, aborted>>
    OBVIOUS
  <2>3. h \notin DOMAIN handles /\ (row.offset = 0 \/ row.offset < Count)
    BY <1>9, <1>10
  <2> QED
    BY <1>8, <1>11, <1>12, <2>1, <2>2, <2>3, HandleAdded
<1> QED
  BY <1>9, <1>13

\* The handle is created, and the locate answers or goes on.
LEMMA CreateHandleInv ==
  ASSUME EvidenceInv, NEW c \in Locators, CreateHandle(c)
  PROVE  EvidenceInv'
<1> c \in Callers
  BY DEF Callers
<1>0. PICK h \in Names : h = Latest(c)
  BY LatestPending DEF CreateHandle
<1> DEFINE done == Cardinality(calls[c].made) + 1 = calls[c].ask.needs
<1>1. /\ calls[c].pc = "create" /\ InsertEvidenceHandle(h, NewHandle(c, h))
      /\ calls' = IF done THEN [calls EXCEPT ![c] = Resting]
                  ELSE [calls EXCEPT ![c].pc = "put", ![c].made = @ \cup {h}]
      /\ clock' = clock /\ UNCHANGED registryVars /\ binding' = binding /\ epoch' = epoch
      /\ objects' = objects /\ events' = events /\ lineage' = lineage /\ aborted' = aborted /\ sweep' = sweep
  BY <1>0 DEF CreateHandle, registryVars
<1>2. /\ calls[c] \in Locates /\ calls \in [Callers -> Locates \cup Reads \cup {Resting}]
      /\ LocateKnows(c) /\ calls[c].pc \in LocatePcs /\ clock \in Nat
  BY <1>1, CallShapes DEF LocatePcs, EvidenceInv, EvidenceTypes
<1>3. h \in calls[c].puts /\ Pending(c, h)
  BY <1>0, <1>1, LatestPending
<1>4. /\ \A g \in DOMAIN handles' : HandleKnows(g)'
      /\ Kept /\ DOMAIN handles' = DOMAIN handles \cup {h} /\ handles'[h].object = h
      /\ DOMAIN handles' \subseteq Names /\ handles' \in [DOMAIN handles' -> HandleRows]
  BY <1>0, <1>1, NewHandleAdded
<1>5. /\ \A d \in Callers : d # c => calls'[d] = calls[d]
      /\ calls' \in [Callers -> Locates \cup Reads \cup {Resting}]
      /\ done => calls'[c] = Resting
      /\ ~done => /\ calls'[c].pc = "put" /\ calls'[c].made = calls[c].made \cup {h} /\ calls'[c].puts = calls[c].puts
                  /\ calls'[c].staged = calls[c].staged /\ calls'[c].ask = calls[c].ask /\ calls'[c].now = calls[c].now
  <2>1. CASE done
    BY <1>1, <1>2, <2>1
  <2>2. CASE ~done
    <3>1. calls'[c] = [calls[c] EXCEPT !.pc = "put", !.made = calls[c].made \cup {h}]
      BY <1>1, <1>2, <2>2
    <3>2. calls[c].made \cup {h} \in SUBSET Names
      BY <1>2 DEF Locates
    <3>3. calls'[c] \in Locates
      BY <1>2, <3>1, <3>2 DEF Locates, LocatePcs
    <3> QED
      BY <1>1, <1>2, <2>2, <3>1, <3>3 DEF Locates
  <2> QED
    BY <2>1, <2>2
<1> HIDE DEF done
<1>6. EvidenceTypes'
  BY <1>1, <1>4, <1>5 DEF EvidenceInv, EvidenceTypes
<1>7. NamesApart'
  BY <1>1, <1>2, <1>5 DEF EvidenceInv, NamesApart, Resting, LocatePcs
<1>8. \A d \in Callers : d # c => LocateKnows(d)' /\ ReadKnows(d)'
  <2>1. \A d \in Callers : d # c /\ calls[d].pc \in LocatePcs => h \notin calls[d].puts
    BY <1>2, <1>3 DEF EvidenceInv, NamesApart
  <2>2. \A d \in Callers : d # c /\ calls[d].pc \in LocatePcs =>
          \A o \in calls[d].puts :
             /\ o \notin DOMAIN handles => o \notin DOMAIN handles'
             /\ (\A g \in DOMAIN handles : handles[g].object # o) => \A g \in DOMAIN handles' : handles'[g].object # o
    BY <1>4, <2>1 DEF Kept
  <2> QED
    BY <1>1, <1>4, <1>5, <2>2, OthersKnow
<1>9. LocateKnows(c)' /\ ReadKnows(c)'
  <2>1. CASE done
    BY <1>5, <2>1 DEF LocateKnows, ReadKnows, Resting, LocatePcs, ReadPcs
  <2>2. CASE ~done
    <3>1. /\ IsFiniteSet(calls[c].made) /\ Cardinality(calls[c].made) < calls[c].ask.needs
          /\ Len(calls[c].staged) = calls[c].ask.needs
      BY <1>1, <1>2 DEF LocateKnows
    <3>2. /\ IsFiniteSet(calls[c].made \cup {h}) /\ Cardinality(calls[c].made) \in Nat
          /\ Cardinality(calls[c].made \cup {h}) = Cardinality(calls[c].made) + 1
      BY <1>3, <3>1, FS_AddElement, FS_CardinalityType DEF Pending
    <3>3. Cardinality(calls'[c].made) < calls'[c].ask.needs /\ IsFiniteSet(calls'[c].made)
      <4>1. calls[c].ask.needs \in Nat
        BY <1>2, EvidenceBounds DEF Locates
      <4>2. calls'[c].made = calls[c].made \cup {h} /\ calls'[c].ask = calls[c].ask
        BY <1>5, <2>2
      <4>3. Cardinality(calls[c].made) + 1 # calls[c].ask.needs
        BY <2>2 DEF done
      <4>4. Cardinality(calls[c].made) + 1 < calls[c].ask.needs
        BY <3>1, <3>2, <4>1, <4>3
      <4> QED
        BY <3>2, <4>2, <4>4
    <3>4. LocateKnows(c)'
      BY <1>1, <1>2, <1>3, <1>5, <2>2, <3>1, <3>3 DEF LocateKnows, Versioned, Projected, Pending
    <3> QED
      BY <1>5, <2>2, <3>4 DEF ReadKnows, ReadPcs
  <2> QED
    BY <2>1, <2>2
<1> QED
  BY <1>4, <1>6, <1>7, <1>8, <1>9 DEF EvidenceInv

\* A locate that gives up, its last insert committed or not.
LEMMA LocateFailsInv ==
  ASSUME EvidenceInv, NEW c \in Locators, LocateFails(c)
  PROVE  EvidenceInv'
<1> c \in Callers
  BY DEF Callers
<1>1. /\ calls[c].pc \in {"put", "lineage", "create"} /\ calls' = [calls EXCEPT ![c].pc = "cleanup"]
      /\ clock' = clock /\ UNCHANGED registryVars /\ binding' = binding /\ epoch' = epoch
      /\ objects' = objects /\ events' = events /\ lineage' = lineage /\ aborted' = aborted /\ sweep' = sweep
  BY DEF LocateFails, To, registryVars
<1>2. /\ calls[c] \in Locates /\ calls \in [Callers -> Locates \cup Reads \cup {Resting}]
      /\ LocateKnows(c) /\ calls[c].pc \in LocatePcs /\ clock \in Nat
  BY <1>1, CallShapes DEF LocatePcs, EvidenceInv, EvidenceTypes
<1>3. /\ calls'[c].pc = "cleanup" /\ calls'[c].puts = calls[c].puts
      /\ calls'[c].staged = calls[c].staged /\ calls'[c].now = calls[c].now
      /\ calls'[c] \in Locates /\ \A d \in Callers : d # c => calls'[d] = calls[d]
      /\ calls' \in [Callers -> Locates \cup Reads \cup {Resting}]
  <2>1. calls'[c] = [calls[c] EXCEPT !.pc = "cleanup"]
    BY <1>1, <1>2
  <2>2. calls'[c] \in Locates
    BY <1>2, <2>1 DEF Locates, LocatePcs
  <2> QED
    BY <1>1, <1>2, <2>1, <2>2 DEF Locates
<1>4. LocateKnows(c)' /\ ReadKnows(c)'
  <2>1. LocateKnows(c)'
    BY <1>1, <1>2, <1>3 DEF LocateKnows, Versioned, Projected
  <2> QED
    BY <1>3, <2>1 DEF ReadKnows, ReadPcs
<1>5. NamesApart'
  BY <1>1, <1>2, <1>3 DEF EvidenceInv, NamesApart
<1>6. CASE UNCHANGED handles
  BY <1>1, <1>2, <1>3, <1>4, <1>6, CallOnly DEF vaultVars
<1>7. CASE calls[c].pc = "create" /\ InsertEvidenceHandle(Latest(c), NewHandle(c, Latest(c)))
  <2>0. PICK h \in Names : h = Latest(c)
    BY <1>7, LatestPending
  <2>1. h \in calls[c].puts /\ Pending(c, h)
    BY <1>7, <2>0, LatestPending
  <2>2. /\ \A g \in DOMAIN handles' : HandleKnows(g)'
        /\ Kept /\ DOMAIN handles' = DOMAIN handles \cup {h} /\ handles'[h].object = h
        /\ DOMAIN handles' \subseteq Names /\ handles' \in [DOMAIN handles' -> HandleRows]
    BY <1>1, <1>7, <2>0, NewHandleAdded
  <2>3. EvidenceTypes'
    BY <1>1, <1>3, <2>2 DEF EvidenceInv, EvidenceTypes
  <2>4. \A d \in Callers : d # c /\ calls[d].pc \in LocatePcs =>
          \A o \in calls[d].puts :
             /\ o \notin DOMAIN handles => o \notin DOMAIN handles'
             /\ (\A g \in DOMAIN handles : handles[g].object # o) => \A g \in DOMAIN handles' : handles'[g].object # o
    <3>1. \A d \in Callers : d # c /\ calls[d].pc \in LocatePcs => h \notin calls[d].puts
      BY <1>2, <2>1 DEF EvidenceInv, NamesApart
    <3> QED
      BY <2>2, <3>1 DEF Kept
  <2>5. \A d \in Callers : d # c => LocateKnows(d)' /\ ReadKnows(d)'
    BY <1>1, <1>3, <2>2, <2>4, OthersKnow
  <2> QED
    BY <1>4, <1>5, <2>2, <2>3, <2>5 DEF EvidenceInv
<1> QED
  BY <1>6, <1>7 DEF LocateFails

\* The clean-up deletes what is this locate's, and nobody else's.
LEMMA CleanupInv ==
  ASSUME EvidenceInv, NEW c \in Locators, Cleanup(c)
  PROVE  EvidenceInv'
<1> c \in Callers
  BY DEF Callers
<1>1. PICK gone \in SUBSET calls[c].puts, undone \in SUBSET calls[c].made :
        /\ objects' = Restrict(objects, DOMAIN objects \ gone)
        /\ events' = events \cup {<<h, "revoked">> : h \in undone}
        /\ aborted' = aborted \cup gone
  BY DEF Cleanup
<1>2. /\ calls[c].pc = "cleanup" /\ calls' = [calls EXCEPT ![c] = Resting]
      /\ clock' = clock /\ UNCHANGED registryVars /\ binding' = binding /\ epoch' = epoch
      /\ handles' = handles /\ lineage' = lineage /\ sweep' = sweep
  BY DEF Cleanup, registryVars
<1>3. /\ calls[c] \in Locates /\ calls \in [Callers -> Locates \cup Reads \cup {Resting}]
      /\ LocateKnows(c) /\ calls[c].pc \in LocatePcs /\ clock \in Nat
  BY <1>2, CallShapes DEF LocatePcs, EvidenceInv, EvidenceTypes
<1>4. /\ calls'[c] = Resting /\ \A d \in Callers : d # c => calls'[d] = calls[d]
      /\ calls' \in [Callers -> Locates \cup Reads \cup {Resting}]
  BY <1>2, <1>3
<1>5. /\ DOMAIN objects' = DOMAIN objects \ gone /\ \A o \in DOMAIN objects' : objects'[o] = objects[o]
      /\ objects' = [o \in DOMAIN objects' |-> objects'[o]]
      /\ gone \subseteq Names /\ undone \subseteq Names
  BY <1>1, <1>3 DEF Restrict, Locates
<1>6. EvidenceTypes'
  <2>1. objects' \in [DOMAIN objects' -> [key : Names, plain : Stageds]] /\ DOMAIN objects' \subseteq Names
    BY <1>5 DEF EvidenceInv, EvidenceTypes
  <2>2. events' \subseteq Names \X {"revoked", "content_expired"} /\ aborted' \subseteq Names
    BY <1>1, <1>5 DEF EvidenceInv, EvidenceTypes
  <2> QED
    BY <1>2, <1>4, <2>1, <2>2 DEF EvidenceInv, EvidenceTypes
<1>7. NamesApart'
  BY <1>1, <1>4, <1>5 DEF EvidenceInv, NamesApart, Resting, LocatePcs
<1>8. \A d \in Callers : d # c => LocateKnows(d)' /\ ReadKnows(d)'
  <2>1. \A d \in Callers : d # c /\ calls[d].pc \in LocatePcs =>
          \A o \in calls[d].puts : o \in DOMAIN objects => o \in DOMAIN objects'
    BY <1>3, <1>5 DEF EvidenceInv, NamesApart
  <2> QED
    BY <1>1, <1>2, <1>4, <2>1, OthersKnow DEF Kept
<1>9. LocateKnows(c)' /\ ReadKnows(c)'
  BY <1>4 DEF LocateKnows, ReadKnows, Resting, LocatePcs, ReadPcs
<1>10. \A h \in DOMAIN handles' : HandleKnows(h)'
  <2>1. SUFFICES ASSUME NEW h \in DOMAIN handles PROVE HandleKnows(h)'
    BY <1>2
  <2>2. HandleKnows(h) /\ handles[h].retention \in Int
    BY DEF EvidenceInv, EvidenceTypes, HandleRows
  <2> QED
    BY <1>1, <1>2, <1>3, <1>5, <2>2, HandleFrame
<1> QED
  BY <1>6, <1>7, <1>8, <1>9, <1>10 DEF EvidenceInv

-----------------------------------------------------------------------------
(* The steps of a read.                                                    *)

\* A read starts on a handle that is there, and remembers what was already revoked.
LEMMA ReadInv ==
  ASSUME EvidenceInv, NEW c \in Readers, NEW h \in DOMAIN handles, NEW o \in Owners, NEW limit \in 0..Count,
         NEW fields \in (SUBSET Fields) \cup {NoFields}, Read(c, h, o, limit, fields)
  PROVE  EvidenceInv'
<1> c \in Callers
  BY DEF Callers
<1> DEFINE rec == [pc |-> "events", handle |-> h, limit |-> limit, fields |-> fields, now |-> clock, puts |-> {},
                   revoked |-> <<h, "revoked">> \in events, aborted |-> handles[h].object \in aborted,
                   source |-> NoBinding, epoch |-> 0, content |-> NoName, shown |-> {}, from |-> 0, to |-> 0,
                   next |-> NoName]
<1>1. calls' = [calls EXCEPT ![c] = rec] /\ UNCHANGED <<clock, registryVars, vaultVars, sweep>>
  BY DEF Read
<1>2. h \in Names /\ clock \in Nat /\ limit \in Nat
  BY EvidenceBounds DEF EvidenceInv, EvidenceTypes
<1>3. (<<h, "revoked">> \in events) \in BOOLEAN /\ (handles[h].object \in aborted) \in BOOLEAN
  OBVIOUS
<1>4. rec \in Reads
  BY <1>2, <1>3 DEF Reads, ReadPcs
<1>5. /\ calls'[c] = rec /\ \A d \in Callers : d # c => calls'[d] = calls[d]
      /\ calls' \in [Callers -> Locates \cup Reads \cup {Resting}]
  BY <1>1, <1>4 DEF EvidenceInv, EvidenceTypes
<1>6. handles' = handles /\ events' = events /\ aborted' = aborted
  BY <1>1 DEF vaultVars
<1>7. ReadKnows(c)'
  <2>1. /\ calls'[c].pc = "events" /\ calls'[c].handle = h /\ calls'[c].revoked = (<<h, "revoked">> \in events)
        /\ calls'[c].aborted = (handles[h].object \in aborted)
    BY <1>5
  <2> QED
    BY <1>6, <2>1 DEF ReadKnows
<1>8. LocateKnows(c)' /\ calls'[c].puts = {}
  BY <1>5 DEF LocateKnows, LocatePcs
<1> QED
  BY <1>1, <1>5, <1>7, <1>8, CallOnly

\* A read that goes on did not begin after a revocation of its handle.
LEMMA ListEvidenceHandleEventsInv ==
  ASSUME EvidenceInv, NEW c \in Readers, ListEvidenceHandleEvents(c)
  PROVE  EvidenceInv'
<1> c \in Callers
  BY DEF Callers
<1>1. /\ calls[c].pc = "events" /\ calls' = [calls EXCEPT ![c].pc = "binding"]
      /\ <<calls[c].handle, "revoked">> \notin events /\ UNCHANGED <<clock, registryVars, vaultVars, sweep>>
  BY DEF ListEvidenceHandleEvents, To
<1>2. calls[c] \in Reads /\ calls \in [Callers -> Locates \cup Reads \cup {Resting}] /\ ReadKnows(c)
  BY <1>1, CallShapes DEF ReadPcs, EvidenceInv, EvidenceTypes
<1>3. calls'[c] = [calls[c] EXCEPT !.pc = "binding"]
  BY <1>1, <1>2
<1>4. /\ calls'[c] \in Reads /\ \A d \in Callers : d # c => calls'[d] = calls[d]
      /\ calls' \in [Callers -> Locates \cup Reads \cup {Resting}]
  <2>1. calls'[c] \in Reads
    BY <1>2, <1>3 DEF Reads, ReadPcs
  <2> QED
    BY <1>1, <1>2, <2>1
<1>5. /\ calls'[c].pc = "binding" /\ calls'[c].handle = calls[c].handle /\ calls'[c].revoked = calls[c].revoked
      /\ calls'[c].aborted = calls[c].aborted
  BY <1>2, <1>3 DEF Reads
<1>6. handles' = handles /\ events' = events /\ aborted' = aborted
  BY <1>1 DEF vaultVars
<1>7. ReadKnows(c)'
  BY <1>1, <1>2, <1>5, <1>6 DEF ReadKnows, ReadPcs
<1>8. LocateKnows(c)' /\ calls'[c].pc \notin LocatePcs
  BY <1>5 DEF LocateKnows, LocatePcs
<1> QED
  BY <1>1, <1>4, <1>7, <1>8, CallOnly

\* The version that is current names the content of the present epoch.
LEMMA CheckBindingInv ==
  ASSUME EvidenceInv, NEW c \in Readers, CheckBinding(c)
  PROVE  EvidenceInv'
<1> c \in Callers
  BY DEF Callers
<1> DEFINE handle == handles[calls[c].handle]
<1>1. /\ calls[c].pc = "binding" /\ binding # NoBinding /\ ~binding.deleted /\ binding.version = handle.version
      /\ calls' = [calls EXCEPT ![c].pc = "get", ![c].source = binding, ![c].epoch = epoch]
      /\ UNCHANGED <<clock, registryVars, vaultVars, sweep>>
  BY DEF CheckBinding, SameSource, GetEvidenceSourceBinding
<1>2. /\ calls[c] \in Reads /\ calls \in [Callers -> Locates \cup Reads \cup {Resting}] /\ ReadKnows(c)
      /\ binding \in Bindings /\ epoch \in Nat
  BY <1>1, CallShapes DEF ReadPcs, EvidenceInv, EvidenceTypes
<1>3. calls'[c] = [calls[c] EXCEPT !.pc = "get", !.source = binding, !.epoch = epoch]
  BY <1>1, <1>2
<1>4. /\ calls'[c] \in Reads /\ \A d \in Callers : d # c => calls'[d] = calls[d]
      /\ calls' \in [Callers -> Locates \cup Reads \cup {Resting}]
  <2>1. calls'[c] \in Reads
    BY <1>2, <1>3, ZenonT(40) DEF Reads, ReadPcs
  <2> QED
    BY <1>1, <1>2, <2>1
<1>5. /\ calls'[c].pc = "get" /\ calls'[c].handle = calls[c].handle /\ calls'[c].revoked = calls[c].revoked
      /\ calls'[c].aborted = calls[c].aborted /\ calls'[c].epoch = epoch
  BY <1>2, <1>3 DEF Reads
<1>6. handles' = handles /\ events' = events /\ aborted' = aborted
  BY <1>1 DEF vaultVars
<1>7. handle.hash.content = epoch
  <2>1. calls[c].handle \in DOMAIN handles
    BY <1>1, <1>2 DEF ReadKnows, ReadPcs
  <2>2. HandleKnows(calls[c].handle)
    BY <2>1 DEF EvidenceInv
  <2> QED
    BY <1>1, <2>2 DEF HandleKnows, Versioned
<1>8. ReadKnows(c)'
  BY <1>1, <1>2, <1>5, <1>6, <1>7 DEF ReadKnows, ReadPcs
<1>9. LocateKnows(c)' /\ calls'[c].pc \notin LocatePcs
  BY <1>5 DEF LocateKnows, LocatePcs
<1> QED
  BY <1>1, <1>4, <1>8, <1>9, CallOnly

\* What opens and hashes right is what was staged, and was not deleted.
LEMMA GetObjectInv ==
  ASSUME EvidenceInv, NEW c \in Readers, GetObject(c)
  PROVE  EvidenceInv'
<1> c \in Callers
  BY DEF Callers
<1> DEFINE handle == handles[calls[c].handle]
<1>1. /\ calls[c].pc = "get" /\ handle.object \in DOMAIN objects /\ objects[handle.object].plain = handle.hash
      /\ calls' = [calls EXCEPT ![c].pc = "page", ![c].content = handle.hash]
      /\ UNCHANGED <<clock, registryVars, vaultVars, sweep>>
  BY DEF GetObject, Intact
<1>2. calls[c] \in Reads /\ calls \in [Callers -> Locates \cup Reads \cup {Resting}] /\ ReadKnows(c)
  BY <1>1, CallShapes DEF ReadPcs, EvidenceInv, EvidenceTypes
<1>3. calls'[c] = [calls[c] EXCEPT !.pc = "page", !.content = handle.hash]
  BY <1>1, <1>2
<1>4. calls[c].handle \in DOMAIN handles /\ handle.hash \in Stageds
  <2>1. calls[c].handle \in DOMAIN handles
    BY <1>1, <1>2 DEF ReadKnows, ReadPcs
  <2> QED
    BY <2>1 DEF EvidenceInv, EvidenceTypes, HandleRows
<1>5. /\ calls'[c] \in Reads /\ \A d \in Callers : d # c => calls'[d] = calls[d]
      /\ calls' \in [Callers -> Locates \cup Reads \cup {Resting}]
  <2>1. calls'[c] \in Reads
    BY <1>2, <1>3, <1>4 DEF Reads, ReadPcs
  <2> QED
    BY <1>1, <1>2, <2>1
<1>6. /\ calls'[c].pc = "page" /\ calls'[c].handle = calls[c].handle /\ calls'[c].revoked = calls[c].revoked
      /\ calls'[c].aborted = calls[c].aborted /\ calls'[c].epoch = calls[c].epoch /\ calls'[c].content = handle.hash
  BY <1>2, <1>3 DEF Reads
<1>7. handles' = handles /\ events' = events /\ aborted' = aborted
  BY <1>1 DEF vaultVars
<1>8. ~calls[c].aborted
  BY <1>1, <1>2 DEF ReadKnows, ReadPcs, EvidenceInv, NamesApart
<1>9. ReadKnows(c)'
  BY <1>1, <1>2, <1>6, <1>7, <1>8 DEF ReadKnows, ReadPcs
<1>10. LocateKnows(c)' /\ calls'[c].pc \notin LocatePcs
  BY <1>6 DEF LocateKnows, LocatePcs
<1> QED
  BY <1>1, <1>5, <1>9, <1>10, CallOnly

\* The page is audited before it is served, and stays what it was.
LEMMA AppendReadAuditInv ==
  ASSUME EvidenceInv, NEW c \in Readers, AppendReadAudit(c)
  PROVE  EvidenceInv'
<1> c \in Callers
  BY DEF Callers
<1>1. /\ calls[c].pc = "audit" /\ calls' = [calls EXCEPT ![c].pc = "served"]
      /\ UNCHANGED <<clock, registryVars, vaultVars, sweep>>
  BY DEF AppendReadAudit, To
<1>2. calls[c] \in Reads /\ calls \in [Callers -> Locates \cup Reads \cup {Resting}] /\ ReadKnows(c)
  BY <1>1, CallShapes DEF ReadPcs, EvidenceInv, EvidenceTypes
<1>3. calls'[c] = [calls[c] EXCEPT !.pc = "served"]
  BY <1>1, <1>2
<1>4. /\ calls'[c] \in Reads /\ \A d \in Callers : d # c => calls'[d] = calls[d]
      /\ calls' \in [Callers -> Locates \cup Reads \cup {Resting}]
  <2>1. calls'[c] \in Reads
    BY <1>2, <1>3 DEF Reads, ReadPcs
  <2> QED
    BY <1>1, <1>2, <2>1
<1>5. /\ calls'[c].pc = "served" /\ calls'[c].handle = calls[c].handle /\ calls'[c].revoked = calls[c].revoked
      /\ calls'[c].aborted = calls[c].aborted /\ calls'[c].epoch = calls[c].epoch /\ calls'[c].content = calls[c].content
      /\ calls'[c].shown = calls[c].shown /\ calls'[c].fields = calls[c].fields /\ calls'[c].from = calls[c].from
      /\ calls'[c].to = calls[c].to /\ calls'[c].next = calls[c].next
  BY <1>2, <1>3 DEF Reads
<1>6. handles' = handles /\ events' = events /\ aborted' = aborted
  BY <1>1 DEF vaultVars
<1>7. ReadKnows(c)'
  BY <1>1, <1>2, <1>5, <1>6 DEF ReadKnows, ReadPcs
<1>8. LocateKnows(c)' /\ calls'[c].pc \notin LocatePcs
  BY <1>5 DEF LocateKnows, LocatePcs
<1> QED
  BY <1>1, <1>4, <1>7, <1>8, CallOnly

\* The page ends where its continuation starts, or where the content does.
LEMMA PageInv ==
  ASSUME EvidenceInv, NEW c \in Readers, Page(c)
  PROVE  EvidenceInv'
<1> c \in Callers
  BY DEF Callers
<1> DEFINE h == calls[c].handle
           handle == handles[h]
           limit == NarrowedLimit(handle.limit, calls[c].limit)
           offset == Shorter(handle.offset, Count)
           bounded == limit > 0 /\ Count - offset > limit
           shown == ProjectRecords(calls[c].content.fields, calls[c].fields)
           to == IF bounded THEN offset + limit ELSE Count
           next == IF bounded THEN FreshName ELSE NoName
<1>1. /\ calls[c].pc = "page" /\ (bounded => Taken # Names)
      /\ IF bounded THEN InsertEvidenceHandle(FreshName, Continuation(handle, limit)) ELSE UNCHANGED handles
      /\ calls' = [calls EXCEPT ![c].pc = "audit", ![c].shown = shown, ![c].from = offset, ![c].to = to, ![c].next = next]
      /\ clock' = clock /\ UNCHANGED registryVars /\ binding' = binding /\ epoch' = epoch
      /\ objects' = objects /\ events' = events /\ lineage' = lineage /\ aborted' = aborted /\ sweep' = sweep
  BY DEF Page, registryVars
<1>2. /\ calls[c] \in Reads /\ calls \in [Callers -> Locates \cup Reads \cup {Resting}] /\ ReadKnows(c) /\ clock \in Nat
  BY <1>1, CallShapes DEF ReadPcs, EvidenceInv, EvidenceTypes
<1>3. /\ h \in DOMAIN handles /\ h \in Names /\ handle \in HandleRows /\ HandleKnows(h) /\ calls[c].content = handle.hash
  BY <1>1, <1>2 DEF ReadKnows, ReadPcs, EvidenceInv, EvidenceTypes
<1>4. offset = handle.offset /\ offset \in Nat /\ (offset < Count \/ offset = 0) /\ Count \in Nat
  BY <1>3, EvidenceBounds DEF HandleKnows, HandleRows, Shorter
<1>5. limit \in Nat
  BY <1>2, <1>3 DEF HandleRows, Reads, NarrowedLimit
<1>6. shown \in SUBSET Fields
  BY <1>3 DEF HandleRows, Stageds, ProjectRecords
<1> HIDE DEF offset, limit, shown
<1>7. bounded \in BOOLEAN /\ (bounded => offset + limit < Count /\ offset < offset + limit)
  BY <1>4, <1>5
<1>8. to \in Nat /\ (offset < to \/ Count = 0)
  BY <1>4, <1>5, <1>7
<1>9. bounded => FreshName \in Names /\ FreshName \notin DOMAIN handles
  BY <1>1, FreshNames
<1>10. next \in Names \cup {NoName}
  BY <1>9
<1> HIDE DEF to, next, bounded
<1>11. calls'[c] = [calls[c] EXCEPT !.pc = "audit", !.shown = shown, !.from = offset, !.to = to, !.next = next]
  BY <1>1, <1>2
<1>12. /\ calls'[c] \in Reads /\ \A d \in Callers : d # c => calls'[d] = calls[d]
       /\ calls' \in [Callers -> Locates \cup Reads \cup {Resting}]
  <2>1. calls'[c] \in Reads
    BY <1>2, <1>4, <1>6, <1>8, <1>10, <1>11, ZenonT(40) DEF Reads, ReadPcs
  <2> QED
    BY <1>1, <1>2, <2>1
<1>13. /\ calls'[c].pc = "audit" /\ calls'[c].handle = h /\ calls'[c].revoked = calls[c].revoked
       /\ calls'[c].aborted = calls[c].aborted /\ calls'[c].epoch = calls[c].epoch
       /\ calls'[c].content = calls[c].content /\ calls'[c].fields = calls[c].fields
       /\ calls'[c].shown = shown /\ calls'[c].from = offset /\ calls'[c].to = to /\ calls'[c].next = next
  BY <1>2, <1>11 DEF Reads
<1> HIDE DEF h
<1>14. LocateKnows(c)' /\ calls'[c].pc \notin LocatePcs
  BY <1>13 DEF LocateKnows, LocatePcs
<1>15. CASE ~bounded
  <2>1. handles' = handles /\ next = NoName /\ to = Count
    BY <1>1, <1>15 DEF next, to
  <2>2. ReadKnows(c)'
    BY <1>1, <1>2, <1>3, <1>4, <1>8, <1>13, <2>1, ZenonT(40) DEF ReadKnows, ReadPcs, shown
  <2>3. UNCHANGED <<clock, registryVars, vaultVars, sweep>>
    BY <1>1, <2>1 DEF vaultVars
  <2> QED
    BY <1>12, <1>14, <2>2, <2>3, CallOnly
<1>16. CASE bounded
  <2>0. PICK f \in Names : f = FreshName
    BY <1>9, <1>16
  <2> DEFINE row == Continuation(handle, limit)
  <2>1. handles' = With(handles, f, row) /\ Taken # Names /\ next = f /\ to = offset + limit /\ offset + limit < Count
    BY <1>1, <1>7, <1>16, <2>0 DEF InsertEvidenceHandle, next, to
  <2>2. row = [handle EXCEPT !.offset = handle.offset + limit]
    BY <1>3 DEF Continuation, HandleRows
  <2>3. /\ row.hash = handle.hash /\ row.version = handle.version /\ row.staged = handle.staged
        /\ row.object = handle.object /\ row.retention = handle.retention /\ row.offset = offset + limit
    BY <1>3, <1>4, <2>2 DEF HandleRows
  <2>4. row \in HandleRows
    BY <1>3, <1>4, <1>5, <2>2 DEF HandleRows
  <2> HIDE DEF row
  <2>5. /\ f \notin DOMAIN handles /\ f # NoName
        /\ \A d \in Callers : calls[d].pc \in LocatePcs => f \notin calls[d].puts
    BY <2>0, <2>1, FreshNames, EvidenceBounds
  <2>6. /\ \A g \in DOMAIN handles' : HandleKnows(g)'
        /\ Kept /\ handles'[f] = row /\ DOMAIN handles' = DOMAIN handles \cup {f}
        /\ DOMAIN handles' \subseteq Names /\ handles' \in [DOMAIN handles' -> HandleRows]
    <3>1. /\ Versioned(row.hash.source, row.hash.content) /\ Projected(row.hash)
          /\ row.version = row.hash.source.version /\ row.staged <= row.hash.fetched
          /\ row.object \in lineage /\ (row.object \in DOMAIN objects \cup aborted \/ row.retention <= clock)
          /\ \A g \in DOMAIN handles : handles[g].object = row.object => handles[g].retention = row.retention
      BY <1>3, <2>3 DEF HandleKnows
    <3>2. UNCHANGED <<clock, registryVars, objects, lineage, aborted>>
      BY <1>1
    <3>3. row.offset = 0 \/ row.offset < Count
      BY <2>1, <2>3
    <3> QED
      BY <2>1, <2>4, <2>5, <3>1, <3>2, <3>3, HandleAdded
  <2>7. EvidenceTypes'
    BY <1>1, <1>12, <2>6 DEF EvidenceInv, EvidenceTypes
  <2>8. NamesApart'
    BY <1>1, <1>12, <1>14 DEF EvidenceInv, NamesApart
  <2>9. \A d \in Callers : d # c => LocateKnows(d)' /\ ReadKnows(d)'
    <3>1. \A d \in Callers : d # c /\ calls[d].pc \in LocatePcs =>
            \A o \in calls[d].puts :
               /\ o \notin DOMAIN handles => o \notin DOMAIN handles'
               /\ (\A g \in DOMAIN handles : handles[g].object # o) => \A g \in DOMAIN handles' : handles'[g].object # o
      BY <1>3, <2>3, <2>5, <2>6 DEF Kept
    <3> QED
      BY <1>1, <1>12, <2>6, <3>1, OthersKnow
  <2>10. ReadKnows(c)'
    <3>1. handles'[h] = handle /\ h \in DOMAIN handles' /\ f \in DOMAIN handles' /\ handles'[f].offset = to
      BY <1>3, <2>1, <2>3, <2>6 DEF Kept
    <3>2. /\ calls[c].aborted => handle.object \in aborted
          /\ calls[c].revoked => <<h, "revoked">> \in events
          /\ ~calls[c].revoked /\ handle.hash.content = calls[c].epoch /\ ~calls[c].aborted
      BY <1>1, <1>2 DEF ReadKnows, ReadPcs, h
    <3>3. shown = ProjectRecords(calls[c].content.fields, calls[c].fields)
      BY DEF shown
    <3>4. /\ calls'[c].from = handle.offset /\ (calls'[c].from < calls'[c].to \/ Count = 0)
          /\ calls'[c].next = f /\ calls'[c].to = to
      BY <1>4, <1>8, <1>13, <2>1
    <3> HIDE DEF handle
    <3> QED
      BY <1>1, <1>3, <1>13, <2>5, <3>1, <3>2, <3>3, <3>4 DEF ReadKnows
  <2> QED
    BY <1>14, <2>6, <2>7, <2>8, <2>9, <2>10 DEF EvidenceInv
<1> QED
  BY <1>7, <1>15, <1>16

-----------------------------------------------------------------------------
(* The registry, the sweep and the rest.                                   *)

\* A change of the registry row under which versions keep what they name.
LEMMA RegistryInv ==
  ASSUME EvidenceInv, UNCHANGED <<clock, vaultVars, calls, sweep>>, epoch' \in 0..MaxVersion,
         binding' \in Bindings, binding'.declaration.effect = "read",
         binding'.version + (IF binding'.deleted THEN 1 ELSE 0) <= epoch' + 1,
         binding # NoBinding => binding.version <= binding'.version,
         \A s \in Bindings, k \in Nat : Versioned(s, k) => Versioned(s, k)'
  PROVE  EvidenceInv'
<1>1. /\ clock' = clock /\ objects' = objects /\ handles' = handles /\ events' = events /\ lineage' = lineage
      /\ aborted' = aborted /\ calls' = calls /\ sweep' = sweep
  BY DEF vaultVars
<1>2. EvidenceTypes' /\ NamesApart'
  BY <1>1 DEF EvidenceInv, EvidenceTypes, NamesApart
<1>3. binding' # NoBinding
  BY EvidenceBounds
<1>4. \A c \in Callers : LocateKnows(c)'
  <2>1. SUFFICES ASSUME NEW c \in Callers, calls[c].pc \in LocatePcs PROVE LocateKnows(c)'
    BY <1>1 DEF LocateKnows
  <2>2. LocateKnows(c) /\ calls[c] \in Locates
    BY <2>1, CallShapes DEF EvidenceInv
  <2>3. \A i \in 1..Len(calls[c].staged) : calls[c].staged[i] \in Stageds
    BY <2>2 DEF Locates
  <2>4. \A i \in 1..Len(calls[c].staged) :
          Versioned(calls[c].staged[i].source, calls[c].staged[i].content)'
    <3>1. SUFFICES ASSUME NEW i \in 1..Len(calls[c].staged)
                   PROVE  Versioned(calls[c].staged[i].source, calls[c].staged[i].content)'
      OBVIOUS
    <3>2. PICK s \in Bindings, k \in Nat : s = calls[c].staged[i].source /\ k = calls[c].staged[i].content
      BY <2>3 DEF Stageds
    <3>3. Versioned(s, k)
      BY <2>1, <2>2, <3>2 DEF LocateKnows
    <3>4. Versioned(s, k)'
      BY <3>3
    <3> QED
      BY <1>1, <3>2, <3>4
  <2>5. calls[c].pc = "fetch" => calls[c].source.version <= binding'.version
    <3>1. SUFFICES ASSUME calls[c].pc = "fetch" PROVE calls[c].source.version <= binding'.version
      OBVIOUS
    <3>2. calls[c].source \in Bindings /\ binding # NoBinding /\ calls[c].source.version <= binding.version
      BY <2>1, <2>2, <3>1 DEF LocateKnows
    <3>3. binding \in Bindings
      BY <3>2 DEF EvidenceInv, EvidenceTypes
    <3>4. calls[c].source.version \in Int /\ binding.version \in Int /\ binding'.version \in Int
      BY <3>2, <3>3, EvidenceBounds DEF Bindings
    <3> QED
      BY <3>2, <3>4
  <2>6. \A o \in calls[c].puts : Pending(c, o) => Pending(c, o)'
    BY <1>1 DEF Pending
  <2> QED
    BY <1>1, <1>3, <2>1, <2>2, <2>4, <2>5, <2>6 DEF LocateKnows, Projected
<1>5. \A c \in Callers : ReadKnows(c)'
  BY <1>1 DEF ReadKnows, EvidenceInv
<1>6. \A h \in DOMAIN handles' : HandleKnows(h)'
  <2>1. SUFFICES ASSUME NEW h \in DOMAIN handles PROVE HandleKnows(h)'
    BY <1>1
  <2>2. HandleKnows(h)
    BY DEF EvidenceInv
  <2>3. PICK s \in Bindings, k \in Nat : s = handles[h].hash.source /\ k = handles[h].hash.content
    BY DEF EvidenceInv, EvidenceTypes, HandleRows, Stageds
  <2>4. Versioned(s, k)
    BY <2>2, <2>3 DEF HandleKnows
  <2>5. Versioned(handles[h].hash.source, handles[h].hash.content)'
    BY <1>1, <2>3, <2>4
  <2> QED
    BY <1>1, <2>2, <2>5 DEF HandleKnows, Projected
<1> QED
  BY <1>2, <1>4, <1>5, <1>6 DEF EvidenceInv

\* An invalidation makes every version named so far an old one.
LEMMA InvalidateSourceVersionInv ==
  ASSUME EvidenceInv, InvalidateSourceVersion
  PROVE  EvidenceInv'
<1>1. /\ binding # NoBinding /\ epoch < MaxVersion /\ binding' = [binding EXCEPT !.version = @ + 1] /\ epoch' = epoch + 1
      /\ UNCHANGED <<clock, vaultVars, calls, sweep>>
  BY DEF InvalidateSourceVersion, BumpEvidenceSourceVersion
<1>2. /\ binding \in Bindings /\ binding.declaration.effect = "read" /\ epoch \in Nat
      /\ binding.version + (IF binding.deleted THEN 1 ELSE 0) <= epoch + 1
  BY <1>1 DEF EvidenceInv, EvidenceTypes
<1>3. binding' = [binding EXCEPT !.version = binding.version + 1]
  BY <1>1, <1>2 DEF Bindings
<1>4. /\ binding'.version = binding.version + 1 /\ binding'.deleted = binding.deleted
      /\ binding'.declaration = binding.declaration /\ binding.version \in 1..(MaxVersion + 1)
      /\ binding.deleted \in BOOLEAN /\ MaxVersion \in Nat
  BY <1>2, <1>3, EvidenceBounds DEF Bindings
<1>5. binding.version + 1 \in 1..(MaxVersion + 1)
  BY <1>1, <1>2, <1>4
<1>6. binding' \in Bindings
  BY <1>2, <1>3, <1>5 DEF Bindings
<1>7. epoch' \in 0..MaxVersion /\ binding'.version + (IF binding'.deleted THEN 1 ELSE 0) <= epoch' + 1
  BY <1>1, <1>2, <1>4
<1>8. \A s \in Bindings, k \in Nat : Versioned(s, k) => Versioned(s, k)'
  <2>1. \A s \in Bindings : s.version \in Int
    BY DEF Bindings
  <2>2. binding' # NoBinding
    BY <1>6, EvidenceBounds
  <2> QED
    BY <1>4, <2>1, <2>2 DEF Versioned
<1>9. binding.version <= binding'.version
  BY <1>4
<1> QED
  BY <1>1, <1>2, <1>4, <1>6, <1>7, <1>8, <1>9, RegistryInv

\* A deletion makes the current version name nothing.
LEMMA DeleteSourceInv ==
  ASSUME EvidenceInv, DeleteSource
  PROVE  EvidenceInv'
<1>1. /\ binding # NoBinding /\ epoch < MaxVersion /\ binding' = [binding EXCEPT !.deleted = TRUE] /\ epoch' = epoch + 1
      /\ UNCHANGED <<clock, vaultVars, calls, sweep>>
  BY DEF DeleteSource, MarkEvidenceSourceDeleted
<1>2. /\ binding \in Bindings /\ binding.declaration.effect = "read" /\ epoch \in Nat
      /\ binding.version + (IF binding.deleted THEN 1 ELSE 0) <= epoch + 1
  BY <1>1 DEF EvidenceInv, EvidenceTypes
<1>3. /\ binding'.version = binding.version /\ binding'.deleted
      /\ binding'.declaration = binding.declaration /\ binding.version \in 1..(MaxVersion + 1)
      /\ binding.deleted \in BOOLEAN /\ MaxVersion \in Nat
  BY <1>1, <1>2, EvidenceBounds DEF Bindings
<1>4. binding' \in Bindings
  BY <1>1, <1>2 DEF Bindings
<1>5. epoch' \in 0..MaxVersion /\ binding'.version + (IF binding'.deleted THEN 1 ELSE 0) <= epoch' + 1
  BY <1>1, <1>2, <1>3
<1>6. \A s \in Bindings, k \in Nat : Versioned(s, k) => Versioned(s, k)'
  <2>1. binding' # NoBinding
    BY <1>4, EvidenceBounds
  <2> QED
    BY <1>3, <2>1 DEF Versioned
<1>7. binding.version <= binding'.version
  BY <1>3
<1> QED
  BY <1>1, <1>2, <1>3, <1>4, <1>5, <1>6, <1>7, RegistryInv

\* A registration passes the version of a deleted row.
LEMMA ApplySourceCatalogInv ==
  ASSUME EvidenceInv, NEW d \in Declarations, ApplySourceCatalog(d)
  PROVE  EvidenceInv'
<1> DEFINE version == IF binding = NoBinding THEN 1
                      ELSE Max({1, binding.version + (IF binding.deleted THEN 1 ELSE 0)})
<1>1. /\ d.effect = "read" /\ binding' = [declaration |-> d, deleted |-> FALSE, version |-> version]
      /\ UNCHANGED <<clock, epoch, vaultVars, calls, sweep>>
  BY DEF ApplySourceCatalog, ResolveConnectorSource, RegisterSourceBinding, UpsertEvidenceSourceBinding
<1>2. epoch \in 0..MaxVersion /\ MaxVersion \in Nat /\ epoch' = epoch
  BY <1>1, EvidenceBounds DEF EvidenceInv, EvidenceTypes
<1>3. binding # NoBinding =>
        /\ binding \in Bindings /\ binding.deleted \in BOOLEAN /\ binding.version \in 1..(MaxVersion + 1)
        /\ binding.version + (IF binding.deleted THEN 1 ELSE 0) <= epoch + 1
  BY DEF EvidenceInv, EvidenceTypes, Bindings
<1>4. binding # NoBinding => version = binding.version + (IF binding.deleted THEN 1 ELSE 0)
  <2>1. SUFFICES ASSUME binding # NoBinding PROVE version = binding.version + (IF binding.deleted THEN 1 ELSE 0)
    OBVIOUS
  <2>2. PICK v \in Nat : v = binding.version + (IF binding.deleted THEN 1 ELSE 0) /\ v >= 1
    BY <1>2, <1>3, <2>1
  <2>3. version = Max({1, v})
    BY <2>1, <2>2
  <2>4. Max({1, v}) = v
    <3>1. v \in {1, v} /\ \A y \in {1, v} : v >= y
      BY <2>2
    <3>2. \A x \in {1, v} : (\A y \in {1, v} : x >= y) => x = v
      BY <2>2
    <3> QED
      BY <3>1, <3>2 DEF Max
  <2> QED
    BY <2>2, <2>3, <2>4
<1>5. version \in 1..(MaxVersion + 1) /\ version <= epoch + 1
  <2>1. CASE binding = NoBinding
    BY <1>2, <2>1
  <2>2. CASE binding # NoBinding
    BY <1>2, <1>3, <1>4, <2>2
  <2> QED
    BY <2>1, <2>2
<1> HIDE DEF version
<1>6. /\ binding' \in Bindings /\ binding'.declaration.effect = "read" /\ binding'.version = version
      /\ binding'.deleted = FALSE
  BY <1>1, <1>5 DEF Bindings
<1>7. binding'.version + (IF binding'.deleted THEN 1 ELSE 0) <= epoch' + 1
  BY <1>2, <1>5, <1>6
<1>8. \A s \in Bindings, k \in Nat : Versioned(s, k) => Versioned(s, k)'
  <2>1. SUFFICES ASSUME NEW s \in Bindings, NEW k \in Nat, Versioned(s, k) PROVE Versioned(s, k)'
    OBVIOUS
  <2>2. binding # NoBinding /\ s.version <= binding.version /\ s.version \in Int
    BY <2>1 DEF Versioned, Bindings
  <2>3. binding' # NoBinding
    BY <1>6, EvidenceBounds
  <2>4. s.version <= version /\ (s.version = version => ~binding.deleted /\ s.version = binding.version)
    BY <1>3, <1>4, <2>2
  <2> QED
    BY <1>2, <1>6, <2>1, <2>3, <2>4 DEF Versioned
<1>9. binding # NoBinding => binding.version <= binding'.version
  BY <1>3, <1>4, <1>6
<1> QED
  BY <1>1, <1>2, <1>6, <1>7, <1>8, <1>9, RegistryInv

\* A step that adds events, lets time pass, or takes away objects whose time has come.
LEMMA VaultInv ==
  ASSUME EvidenceInv, UNCHANGED <<registryVars, handles, lineage, aborted, calls>>,
         clock' \in 0..MaxTime, clock <= clock', events \subseteq events',
         events' \subseteq Names \X {"revoked", "content_expired"},
         objects' \in [DOMAIN objects' -> [key : Names, plain : Stageds]], DOMAIN objects' \subseteq DOMAIN objects,
         \A o \in DOMAIN objects \ DOMAIN objects' :
           /\ \E h \in DOMAIN handles : handles[h].object = o
           /\ \A h \in DOMAIN handles : handles[h].object = o => handles[h].retention <= clock,
         sweep' = NoName \/ sweep' \in DOMAIN handles
  PROVE  EvidenceInv'
<1>1. /\ binding' = binding /\ epoch' = epoch /\ handles' = handles /\ lineage' = lineage /\ aborted' = aborted
      /\ calls' = calls
  BY DEF registryVars
<1>2. EvidenceTypes' /\ NamesApart'
  BY <1>1 DEF EvidenceInv, EvidenceTypes, NamesApart
<1>3. clock \in Nat /\ clock' \in Nat
  BY EvidenceBounds DEF EvidenceInv, EvidenceTypes
<1>4. \A c \in Callers : ReadKnows(c)'
  BY <1>1, ReadFrame DEF EvidenceInv, Kept
<1>5. \A h \in DOMAIN handles' : HandleKnows(h)'
  <2>1. SUFFICES ASSUME NEW h \in DOMAIN handles PROVE HandleKnows(h)'
    BY <1>1
  <2>2. HandleKnows(h) /\ handles[h].retention \in Int
    BY DEF EvidenceInv, EvidenceTypes, HandleRows
  <2> QED
    BY <1>1, <1>3, <2>2, HandleFrame
<1>6. \A c \in Callers : LocateKnows(c)'
  <2>1. SUFFICES ASSUME NEW c \in Callers, calls[c].pc \in LocatePcs PROVE LocateKnows(c)'
    BY <1>1 DEF LocateKnows
  <2>2. LocateKnows(c) /\ calls[c] \in Locates
    BY <2>1, CallShapes DEF EvidenceInv
  <2>3. \A o \in calls[c].puts : Pending(c, o) => Pending(c, o)'
    BY <1>1 DEF Pending
  <2>4. calls[c].now <= clock'
    BY <1>3, <2>1, <2>2 DEF LocateKnows, Locates
  <2> QED
    BY <1>1, <2>1, <2>2, <2>3, <2>4 DEF LocateKnows, Versioned, Projected
<1> QED
  BY <1>2, <1>4, <1>5, <1>6 DEF EvidenceInv

\* A revocation only adds an event.
LEMMA RevokeAuthorizationInv ==
  ASSUME EvidenceInv, NEW h \in DOMAIN handles, RevokeAuthorization(h)
  PROVE  EvidenceInv'
<1>1. /\ events' = events \cup {<<h, "revoked">>}
      /\ UNCHANGED <<clock, registryVars, objects, handles, lineage, aborted, calls, sweep>>
  BY DEF RevokeAuthorization, InsertEvidenceHandleEvent
<1>2. /\ clock \in 0..MaxTime /\ h \in Names /\ events \subseteq Names \X {"revoked", "content_expired"}
      /\ objects \in [DOMAIN objects -> [key : Names, plain : Stageds]]
      /\ (sweep = NoName \/ sweep \in DOMAIN handles)
  BY DEF EvidenceInv, EvidenceTypes
<1> QED
  BY <1>1, <1>2, VaultInv

\* The sweep takes an object only when every handle that shares it is past its deadline.
LEMMA SweepDeleteInv ==
  ASSUME EvidenceInv, NEW h \in DOMAIN handles, SweepDelete(h)
  PROVE  EvidenceInv'
<1> DEFINE o == handles[h].object
<1>1. /\ handles[h].retention <= clock /\ objects' = Restrict(objects, DOMAIN objects \ {o}) /\ sweep' = h
      /\ UNCHANGED <<clock, registryVars, handles, events, lineage, aborted, calls>>
  BY DEF SweepDelete, ListEvidenceRetentionExpired
<1>2. /\ clock \in 0..MaxTime /\ events \subseteq Names \X {"revoked", "content_expired"}
      /\ objects \in [DOMAIN objects -> [key : Names, plain : Stageds]]
  BY DEF EvidenceInv, EvidenceTypes
<1>3. /\ DOMAIN objects' = DOMAIN objects \ {o} /\ objects' \in [DOMAIN objects' -> [key : Names, plain : Stageds]]
  BY <1>1, <1>2 DEF Restrict
<1>4. \A g \in DOMAIN handles : handles[g].object = o => handles[g].retention <= clock
  BY <1>1 DEF EvidenceInv, HandleKnows
<1>5. \A p \in DOMAIN objects \ DOMAIN objects' : p = o
  BY <1>3
<1> HIDE DEF o
<1>6. \A p \in DOMAIN objects \ DOMAIN objects' :
        /\ \E g \in DOMAIN handles : handles[g].object = p
        /\ \A g \in DOMAIN handles : handles[g].object = p => handles[g].retention <= clock
  BY <1>4, <1>5 DEF o
<1>7. clock' \in 0..MaxTime /\ clock <= clock'
  BY <1>1, <1>2, EvidenceBounds
<1>8. DOMAIN objects' \subseteq DOMAIN objects
  BY <1>3
<1> QED
  BY <1>1, <1>2, <1>3, <1>6, <1>7, <1>8, VaultInv

\* The sweep's event, or none when it stops there.
LEMMA SweepAppendInv ==
  ASSUME EvidenceInv, SweepAppend
  PROVE  EvidenceInv'
<1>1. /\ sweep # NoName /\ sweep' = NoName /\ (events' = events \cup {<<sweep, "content_expired">>} \/ events' = events)
      /\ UNCHANGED <<clock, registryVars, objects, handles, lineage, aborted, calls>>
  BY DEF SweepAppend, InsertEvidenceHandleEvent
<1>2. /\ clock \in 0..MaxTime /\ events \subseteq Names \X {"revoked", "content_expired"} /\ sweep \in Names
      /\ objects \in [DOMAIN objects -> [key : Names, plain : Stageds]]
  BY <1>1 DEF EvidenceInv, EvidenceTypes
<1> QED
  BY <1>1, <1>2, VaultInv

\* A file that holds another's content is still typed; reads find it out.
LEMMA MixUpFilesInv ==
  ASSUME EvidenceInv, NEW o \in DOMAIN objects, NEW p \in DOMAIN objects, MixUpFiles(o, p)
  PROVE  EvidenceInv'
<1>1. /\ objects' = [objects EXCEPT ![o] = objects[p]]
      /\ UNCHANGED <<clock, registryVars, handles, events, lineage, aborted, calls, sweep>>
  BY DEF MixUpFiles
<1>2. /\ clock \in 0..MaxTime /\ events \subseteq Names \X {"revoked", "content_expired"}
      /\ objects \in [DOMAIN objects -> [key : Names, plain : Stageds]]
      /\ (sweep = NoName \/ sweep \in DOMAIN handles)
  BY DEF EvidenceInv, EvidenceTypes
<1> QED
  BY <1>1, <1>2, VaultInv

\* Time passes.
LEMMA TickInv ==
  ASSUME EvidenceInv, Tick
  PROVE  EvidenceInv'
<1>1. clock < MaxTime /\ clock' = clock + 1 /\ UNCHANGED <<registryVars, vaultVars, calls, sweep>>
  BY DEF Tick
<1>2. /\ clock \in 0..MaxTime /\ MaxTime \in Nat /\ events \subseteq Names \X {"revoked", "content_expired"}
      /\ objects \in [DOMAIN objects -> [key : Names, plain : Stageds]]
      /\ (sweep = NoName \/ sweep \in DOMAIN handles)
  BY EvidenceBounds DEF EvidenceInv, EvidenceTypes
<1>3. clock' \in 0..MaxTime /\ clock <= clock'
  BY <1>1, <1>2
<1> QED
  BY <1>1, <1>2, <1>3, VaultInv DEF vaultVars

-----------------------------------------------------------------------------
\* Initially, and after any step or none.
LEMMA EvidenceInitInv == EvidenceInit => EvidenceInv
<1> SUFFICES ASSUME EvidenceInit PROVE EvidenceInv
  OBVIOUS
<1>1. /\ clock = 0 /\ binding = NoBinding /\ epoch = 0 /\ objects = <<>> /\ handles = <<>> /\ events = {}
      /\ lineage = {} /\ aborted = {} /\ calls = [c \in Callers |-> Resting] /\ sweep = NoName
  BY DEF EvidenceInit
<1>2. DOMAIN objects = {} /\ DOMAIN handles = {}
  BY <1>1
<1>3. \A c \in Callers : calls[c] = Resting
  BY <1>1
<1>4. EvidenceTypes
  <2>1. 0 \in 0..MaxTime /\ 0 \in 0..MaxVersion
    BY EvidenceBounds
  <2>2. objects \in [DOMAIN objects -> [key : Names, plain : Stageds]] /\ handles \in [DOMAIN handles -> HandleRows]
    BY <1>1, <1>2
  <2> QED
    BY <1>1, <1>2, <2>1, <2>2 DEF EvidenceTypes
<1>5. NamesApart
  BY <1>2, <1>3 DEF NamesApart, Resting, LocatePcs
<1>6. \A c \in Callers : LocateKnows(c) /\ ReadKnows(c)
  BY <1>3 DEF LocateKnows, ReadKnows, Resting, LocatePcs, ReadPcs
<1> QED
  BY <1>2, <1>4, <1>5, <1>6 DEF EvidenceInv

\* Every step, of any call, keeps the invariant.
LEMMA EvidenceNextInv == EvidenceInv /\ [EvidenceNext]_evidenceVars => EvidenceInv'
<1> SUFFICES ASSUME EvidenceInv, [EvidenceNext]_evidenceVars PROVE EvidenceInv'
  OBVIOUS
<1>1. ASSUME NEW c \in Locators, LocateStep(c) PROVE EvidenceInv'
  <2> c \in Callers
    BY DEF Callers
  <2>1. DenyLocate(c) => EvidenceInv'
    BY RestInv DEF DenyLocate
  <2> QED
    BY <1>1, <2>1, LocateInv, ResolveNeedInv, FetchEvidenceInv, PutObjectInv, AppendLocateAuditInv, CreateHandleInv,
       LocateFailsInv, CleanupInv DEF LocateStep
<1>2. ASSUME NEW c \in Readers, ReadStep(c) PROVE EvidenceInv'
  <2> c \in Callers
    BY DEF Callers
  <2>1. DenyRead(c) => EvidenceInv'
    BY RestInv DEF DenyRead
  <2> QED
    BY <1>2, <2>1, ReadInv, ListEvidenceHandleEventsInv, CheckBindingInv, GetObjectInv, PageInv, AppendReadAuditInv
       DEF ReadStep
<1>3. ASSUME NEW c \in Callers, EndCall(c) PROVE EvidenceInv'
  BY <1>3, RestInv DEF EndCall
<1>4. CASE UNCHANGED evidenceVars
  <2>1. /\ clock' = clock /\ binding' = binding /\ epoch' = epoch /\ objects' = objects /\ handles' = handles
        /\ events' = events /\ lineage' = lineage /\ aborted' = aborted /\ calls' = calls /\ sweep' = sweep
    BY <1>4 DEF evidenceVars, registryVars, vaultVars
  <2> QED
    BY <2>1, SMTT(40) DEF EvidenceInv, EvidenceTypes, NamesApart, LocateKnows, ReadKnows, HandleKnows, Versioned, Projected, Pending
<1> QED
  BY <1>1, <1>2, <1>3, <1>4, ApplySourceCatalogInv, InvalidateSourceVersionInv, DeleteSourceInv,
     RevokeAuthorizationInv, SweepDeleteInv, SweepAppendInv, TickInv, MixUpFilesInv DEF EvidenceNext

\* The inductive invariant: versions name epochs, names are apart, and every
\* call and handle is what its step says (Locate, Read and the registry).
THEOREM EvidenceInvariant == EvidenceSpec => []EvidenceInv
<1> QED
  BY EvidenceInitInv, EvidenceNextInv, PTL DEF EvidenceSpec

\* What a read serves is current, its own locate's, of a locate that stands,
\* and attested no younger than it is (Locate and Read).
THEOREM EvidenceIsServedSound == EvidenceSpec => []ServedIsSound
<1>1. EvidenceInv => ServedIsSound
  <2> SUFFICES ASSUME EvidenceInv PROVE ServedIsSound
    OBVIOUS
  <2>1. ASSUME NEW c \in Served
        PROVE  /\ c \in Callers /\ calls[c].pc = "served" /\ ReadKnows(c) /\ calls[c] \in Reads
               /\ calls[c].handle \in DOMAIN handles /\ HandleKnows(calls[c].handle)
               /\ handles[calls[c].handle] \in HandleRows
    <3>1. c \in Callers /\ calls[c].pc = "served"
      BY <2>1 DEF Served
    <3>2. ReadKnows(c) /\ calls[c] \in Reads
      BY <3>1, CallShapes DEF ReadPcs, EvidenceInv
    <3>3. calls[c].handle \in DOMAIN handles
      BY <3>1, <3>2 DEF ReadKnows, ReadPcs
    <3> QED
      BY <3>1, <3>2, <3>3 DEF EvidenceInv, EvidenceTypes
  <2>2. ServedIsCurrent
    BY <2>1 DEF ServedIsCurrent, ReadKnows, ReadPcs
  <2>3. AbortedIsUnreadable
    BY <2>1 DEF AbortedIsUnreadable, ReadKnows, ReadPcs
  <2>4. ReceiptNotFresher
    <3>1. SUFFICES ASSUME NEW c \in Served PROVE MintObservationReceipt(c).observedAt =< calls[c].content.fetched
      BY DEF ReceiptNotFresher
    <3>2. calls[c].content = handles[calls[c].handle].hash
      BY <2>1 DEF ReadKnows, ReadPcs
    <3>3. handles[calls[c].handle].staged <= handles[calls[c].handle].hash.fetched
      BY <2>1 DEF HandleKnows
    <3> QED
      BY <3>2, <3>3 DEF MintObservationReceipt
  <2>5. ShownIsAsLocated
    <3>1. SUFFICES ASSUME NEW c \in Served
                   PROVE  LET need == handles[calls[c].handle].hash.need IN
                          /\ calls[c].content = handles[calls[c].handle].hash
                          /\ Given(need.fields) => calls[c].shown \subseteq need.fields
                          /\ Given(need.allowed) => calls[c].shown \subseteq need.allowed
                          /\ calls[c].fields # NoFields => calls[c].shown \subseteq calls[c].fields
      BY DEF ShownIsAsLocated
    <3> DEFINE hash == handles[calls[c].handle].hash
    <3>2. calls[c].content = hash /\ calls[c].shown = ProjectRecords(hash.fields, calls[c].fields)
      BY <2>1 DEF ReadKnows, ReadPcs
    <3>3. hash.fields = ProjectRecords(Fields, StagingFields(hash.need))
      BY <2>1 DEF HandleKnows, Projected
    <3> HIDE DEF hash
    <3>4. calls[c].shown \subseteq hash.fields /\ (calls[c].fields # NoFields => calls[c].shown \subseteq calls[c].fields)
      BY <3>2 DEF ProjectRecords
    <3>5. Given(hash.need.fields) => hash.fields \subseteq hash.need.fields
      <4>1. SUFFICES ASSUME Given(hash.need.fields) PROVE hash.fields \subseteq hash.need.fields
        OBVIOUS
      <4>2. hash.need \in Asks
        BY <2>1 DEF HandleRows, Stageds, hash
      <4>3. hash.need.fields \in SUBSET Fields
        BY <4>1, <4>2, EvidenceBounds DEF Given
      <4>4. CASE Given(hash.need.allowed)
        <5>1. hash.need.allowed \in SUBSET Fields
          BY <4>2, <4>4, EvidenceBounds DEF Given
        <5>2. StagingFields(hash.need) = hash.need.fields \cap hash.need.allowed
          BY <4>1, <4>4 DEF StagingFields
        <5>3. hash.need.fields \cap hash.need.allowed # NoFields
          BY <5>1, EvidenceBounds
        <5> QED
          BY <3>3, <5>2, <5>3 DEF ProjectRecords
      <4>5. CASE ~Given(hash.need.allowed)
        <5>1. StagingFields(hash.need) = hash.need.fields
          BY <4>1, <4>5 DEF StagingFields
        <5> QED
          BY <3>3, <4>1, <5>1 DEF ProjectRecords, Given
      <4> QED
        BY <4>4, <4>5
    <3>6. Given(hash.need.allowed) => hash.fields \subseteq hash.need.allowed
      <4>1. SUFFICES ASSUME Given(hash.need.allowed) PROVE hash.fields \subseteq hash.need.allowed
        OBVIOUS
      <4>2. hash.need \in Asks
        BY <2>1 DEF HandleRows, Stageds, hash
      <4>3. hash.need.allowed \in SUBSET Fields
        BY <4>1, <4>2, EvidenceBounds DEF Given
      <4>4. CASE Given(hash.need.fields)
        <5>2. StagingFields(hash.need) = hash.need.fields \cap hash.need.allowed
          BY <4>1, <4>4 DEF StagingFields
        <5>3. hash.need.fields \cap hash.need.allowed # NoFields
          BY <4>3, EvidenceBounds
        <5> QED
          BY <3>3, <5>2, <5>3 DEF ProjectRecords
      <4>5. CASE ~Given(hash.need.fields)
        <5>1. StagingFields(hash.need) = hash.need.allowed
          BY <4>1, <4>5 DEF StagingFields
        <5> QED
          BY <3>3, <4>1, <5>1 DEF ProjectRecords, Given
      <4> QED
        BY <4>4, <4>5
    <3> QED
      BY <3>2, <3>4, <3>5, <3>6 DEF hash
  <2> QED
    BY <2>2, <2>3, <2>4, <2>5 DEF ServedIsSound
<1> QED
  BY <1>1, EvidenceInvariant, PTL

\* The handles of one locate page through its content without gap or overlap,
\* keep it until their deadline, and have a lineage.
THEOREM HandleSoundness == EvidenceSpec => []HandlesAreSound
<1>1. EvidenceInv => HandlesAreSound
  <2> SUFFICES ASSUME EvidenceInv PROVE HandlesAreSound
    OBVIOUS
  <2>1. EvidenceTypeOK
    BY DEF EvidenceInv, EvidenceTypes, EvidenceTypeOK, HandleRows
  <2>2. PagesPartition
    <3>1. SUFFICES ASSUME NEW c \in Served
                   PROVE  /\ calls[c].from = handles[calls[c].handle].offset
                          /\ calls[c].to = IF calls[c].next = NoName THEN Count ELSE handles[calls[c].next].offset
                          /\ calls[c].from < calls[c].to \/ Count = 0
      BY DEF PagesPartition
    <3>2. calls[c].pc = "served" /\ ReadKnows(c)
      BY DEF Served, EvidenceInv
    <3> QED
      BY <3>2 DEF ReadKnows, ReadPcs
  <2>3. SweptIsPast /\ HandlesAreAudited
    BY DEF EvidenceInv, HandleKnows, SweptIsPast, HandlesAreAudited
  <2> QED
    BY <2>1, <2>2, <2>3 DEF HandlesAreSound
<1> QED
  BY <1>1, EvidenceInvariant, PTL

-----------------------------------------------------------------------------
(* Numbers and sequences.                                                  *)

\* A set of natural numbers has a least element.
LEMMA LeastNatural ==
  ASSUME NEW S \in SUBSET Nat, S # {}
  PROVE  \E m \in S : \A k \in S : m <= k
<1> DEFINE R == OpToRel(<, Nat)
<1>1. IsWellFoundedOn(R, Nat)
  BY NatLessThanWellFounded
<1>2. PICK m \in S : \A k \in S : ~(<<k, m>> \in R)
  <2> HIDE DEF R
  <2> QED
    BY <1>1, WFMin
<1>3. \A k \in S : ~(k < m)
  BY <1>2 DEF OpToRel
<1> QED
  BY <1>3

\* A sequence is one of its own elements.
LEMMA OwnRange ==
  ASSUME NEW T, NEW s \in Seq(T)
  PROVE  /\ s \in Seq(Range(s)) /\ Len(s) \in Nat /\ DOMAIN s = 1..Len(s) /\ (s = <<>> <=> Len(s) = 0)
<1>1. Len(s) \in Nat /\ DOMAIN s = 1..Len(s) /\ s \in [1..Len(s) -> T]
  BY LenProperties
<1>2. s \in [1..Len(s) -> Range(s)]
  BY <1>1 DEF Range
<1>3. s \in Seq(Range(s))
  BY <1>1, <1>2, SeqDef
<1> QED
  BY <1>1, <1>3, EmptySeq

\* A function on 1..n is a sequence.
LEMMA Sequence ==
  ASSUME NEW n \in Nat, NEW s, s = [i \in 1..n |-> s[i]]
  PROVE  /\ s \in Seq(Range(s)) /\ Len(s) = n /\ DOMAIN s = 1..n /\ (s = <<>> <=> n = 0)
<1>1. DOMAIN s = 1..n
  OBVIOUS
<1>2. s \in [1..n -> Range(s)]
  BY <1>1 DEF Range
<1>3. s \in Seq(Range(s))
  BY <1>2, SeqDef
<1>4. Len(s) \in Nat /\ DOMAIN s = 1..Len(s)
  BY <1>3, LenProperties
<1>5. Len(s) = n
  BY <1>1, <1>4
<1> QED
  BY <1>1, <1>3, <1>5, OwnRange

-----------------------------------------------------------------------------
(* The Merkle tree.                                                        *)

\* What holds at 0 and goes on to hold at the next number holds up to n.
LEMMA Upwards ==
  ASSUME NEW n \in Nat, NEW S, 0 \in S, \A k \in 0..n : k \in S /\ k < n => k + 1 \in S
  PROVE  \A k \in 0..n : k \in S
<1> DEFINE Bad == {k \in 0..n : k \notin S}
<1>1. SUFFICES ASSUME Bad # {} PROVE FALSE
  OBVIOUS
<1>2. PICK m \in Bad : \A k \in Bad : m <= k
  <2>1. Bad \in SUBSET Nat
    OBVIOUS
  <2> HIDE DEF Bad
  <2> QED
    BY <1>1, <2>1, LeastNatural
<1>3. m \in 0..n /\ m \notin S /\ m # 0
  OBVIOUS
<1>4. m - 1 \in 0..n /\ m - 1 < n /\ (m - 1) + 1 = m /\ m - 1 \notin Bad
  BY <1>2, <1>3
<1>5. m - 1 \in S
  BY <1>4
<1> QED
  BY <1>3, <1>4, <1>5

\* What holds at n and goes on to hold at the number before holds down to 0.
LEMMA Downwards ==
  ASSUME NEW n \in Nat, NEW S, n \in S, \A k \in 0..n : k \in S /\ k > 0 => k - 1 \in S
  PROVE  \A k \in 0..n : k \in S
<1> DEFINE U == {k \in 0..n : n - k \in S}
<1>1. 0 \in U
  OBVIOUS
<1>2. \A k \in 0..n : k \in U /\ k < n => k + 1 \in U
  <2>1. SUFFICES ASSUME NEW k \in 0..n, n - k \in S, k < n PROVE n - (k + 1) \in S
    OBVIOUS
  <2>2. n - k \in 0..n /\ n - k > 0 /\ (n - k) - 1 = n - (k + 1)
    BY <2>1
  <2> QED
    BY <2>1, <2>2
<1>3. \A k \in 0..n : k \in U
  <2> HIDE DEF U
  <2> QED
    BY <1>1, <1>2, Upwards
<1>4. ASSUME NEW k \in 0..n PROVE k \in S
  <2>1. n - k \in 0..n /\ n - (n - k) = k
    OBVIOUS
  <2> QED
    BY <1>3, <2>1
<1> QED
  BY <1>4

\* A level of n nodes.
IsRow(a, n) == n \in Nat /\ n >= 1 /\ a = [i \in 1..n |-> a[i]]

\* The level above one of n nodes.
LEMMA NextRow ==
  ASSUME NEW a, NEW n, IsRow(a, n)
  PROVE  /\ Len(a) = n
         /\ IsRow(NextLevel(a), (n + 1) \div 2)
         /\ \A i \in 1..((n + 1) \div 2) :
              NextLevel(a)[i] = IF 2 * i > n THEN a[2 * i - 1] ELSE NodeDigest(a[2 * i - 1], a[2 * i])
<1>1. n \in Nat /\ n >= 1 /\ a = [i \in 1..n |-> a[i]]
  BY DEF IsRow
<1>2. Len(a) = n
  BY <1>1, Sequence
<1> DEFINE m == (n + 1) \div 2
<1>3. m \in Nat /\ m >= 1
  BY <1>1
<1>4. NextLevel(a) = [i \in 1..m |-> IF 2 * i > n THEN a[2 * i - 1] ELSE NodeDigest(a[2 * i - 1], a[2 * i])]
  BY <1>2 DEF NextLevel
<1> HIDE DEF m
<1>5. NextLevel(a) = [i \in 1..m |-> NextLevel(a)[i]]
  BY <1>4
<1>6. \A i \in 1..m : NextLevel(a)[i] = IF 2 * i > n THEN a[2 * i - 1] ELSE NodeDigest(a[2 * i - 1], a[2 * i])
  BY <1>4
<1>7. IsRow(NextLevel(a), m)
  BY <1>3, <1>5 DEF IsRow
<1> QED
  BY <1>2, <1>6, <1>7 DEF m

\* The leaves are a level.
LEMMA LeafRow ==
  ASSUME NEW T, NEW h \in Seq(T), h # <<>>
  PROVE  /\ Len(h) \in Nat /\ Len(h) >= 1 /\ IsRow(Leaves(h), Len(h))
         /\ \A i \in 1..Len(h) : Leaves(h)[i] = LeafDigest(h[i])
<1>1. PICK n \in Nat : n = Len(h) /\ n # 0
  BY OwnRange
<1>2. Leaves(h) = [i \in 1..n |-> LeafDigest(h[i])]
  BY <1>1 DEF Leaves
<1>3. n >= 1
  BY <1>1
<1> QED
  BY <1>1, <1>2, <1>3 DEF IsRow

\* f holds the levels 0 to n over h.
IsTree(f, h, n) == f = [k \in 0..n |-> IF k = 0 THEN Leaves(h) ELSE NextLevel(f[k - 1])]

\* Trees of every height exist, so the recursive function is what it says.
LEMMA TreesExist ==
  ASSUME NEW h
  PROVE  \A n \in Nat : \E f : IsTree(f, h, n)
<1> DEFINE Good(n) == \E f : IsTree(f, h, n)
           S == {n \in Nat : Good(n)}
<1>1. Good(0)
  <2> DEFINE g == [k \in 0..0 |-> Leaves(h)]
  <2>1. IsTree(g, h, 0)
    BY DEF IsTree
  <2> HIDE DEF g
  <2> QED
    BY <2>1
<1>2. ASSUME NEW n \in Nat, Good(n) PROVE Good(n + 1)
  <2>1. PICK f : IsTree(f, h, n)
    BY <1>2
  <2> DEFINE g == [k \in 0..(n + 1) |-> IF k = n + 1 THEN NextLevel(f[n]) ELSE f[k]]
  <2>2. ASSUME NEW k \in 0..(n + 1) PROVE g[k] = IF k = 0 THEN Leaves(h) ELSE NextLevel(g[k - 1])
    <3>1. CASE k = n + 1
      <4>1. g[n + 1] = NextLevel(f[n]) /\ g[n] = f[n] /\ n + 1 # 0 /\ (n + 1) - 1 = n
        OBVIOUS
      <4> HIDE DEF g
      <4> QED
        BY <3>1, <4>1
    <3>2. CASE k # n + 1
      <4>1. k \in 0..n /\ (k # 0 => k - 1 \in 0..n)
        BY <3>2
      <4>2. g[k] = f[k] /\ (k # 0 => g[k - 1] = f[k - 1])
        BY <4>1
      <4>3. f[k] = IF k = 0 THEN Leaves(h) ELSE NextLevel(f[k - 1])
        BY <2>1, <4>1 DEF IsTree
      <4> HIDE DEF g
      <4> QED
        BY <4>2, <4>3
    <3> QED
      BY <3>1, <3>2
  <2>3. IsTree(g, h, n + 1)
    BY <2>2 DEF IsTree
  <2> HIDE DEF g
  <2> QED
    BY <2>3
<1>3. ASSUME NEW n \in Nat PROVE Good(n)
  <2>1. 0 \in S /\ \A k \in 0..n : k \in S /\ k < n => k + 1 \in S
    BY <1>1, <1>2
  <2> HIDE DEF S
  <2>2. n \in S
    BY <2>1, Upwards
  <2> QED
    BY <2>2 DEF S
<1> QED
  BY <1>3

\* What a tree is, level by level.
LEMMA TreeSteps ==
  ASSUME NEW f, NEW h, NEW n \in Nat, IsTree(f, h, n)
  PROVE  f[0] = Leaves(h) /\ \A k \in 0..(n - 1) : f[k + 1] = NextLevel(f[k])
<1>1. \A k \in 0..n : f[k] = IF k = 0 THEN Leaves(h) ELSE NextLevel(f[k - 1])
  BY DEF IsTree
<1>2. ASSUME NEW k \in 0..(n - 1) PROVE f[k + 1] = NextLevel(f[k])
  <2>1. k + 1 \in 0..n /\ k + 1 # 0 /\ (k + 1) - 1 = k
    OBVIOUS
  <2> QED
    BY <1>1, <2>1
<1> QED
  BY <1>1, <1>2

\* Two trees over the same leaves agree as far as both go.
LEMMA TreesAgree ==
  ASSUME NEW h, NEW n \in Nat, NEW m \in Nat, n <= m, NEW f, NEW g, IsTree(f, h, n), IsTree(g, h, m)
  PROVE  f[n] = g[n]
<1> DEFINE S == {k \in 0..n : f[k] = g[k]}
<1>1. f[0] = Leaves(h) /\ g[0] = Leaves(h)
  BY TreeSteps
<1>2. \A k \in 0..(n - 1) : f[k + 1] = NextLevel(f[k]) /\ g[k + 1] = NextLevel(g[k])
  <2>1. \A k \in 0..(n - 1) : k \in 0..(m - 1)
    OBVIOUS
  <2>2. (\A k \in 0..(n - 1) : f[k + 1] = NextLevel(f[k])) /\ (\A k \in 0..(m - 1) : g[k + 1] = NextLevel(g[k]))
    BY TreeSteps
  <2> QED
    BY <2>1, <2>2
<1>3. 0 \in S
  BY <1>1
<1>4. ASSUME NEW k \in 0..n, k \in S, k < n PROVE k + 1 \in S
  <2>1. k \in 0..(n - 1) /\ k + 1 \in 0..n /\ f[k] = g[k]
    BY <1>4
  <2> QED
    BY <1>2, <2>1
<1>5. n \in S
  <2> HIDE DEF S
  <2> QED
    BY <1>3, <1>4, Upwards
<1> QED
  BY <1>5

\* The levels of a batch are its tree, as high as it has leaves.
LEMMA LevelIsTree ==
  ASSUME NEW h, Len(h) \in Nat
  PROVE  IsTree(Level(h), h, Len(h))
<1>1. PICK n \in Nat : n = Len(h)
  OBVIOUS
<1>2. \E f : IsTree(f, h, n)
  BY <1>1, TreesExist
<1>3. Level(h) = CHOOSE f : IsTree(f, h, n)
  BY <1>1 DEF Level, IsTree
<1>4. IsTree(Level(h), h, n)
  BY <1>2, <1>3, Zenon
<1> QED
  BY <1>1, <1>4

\* Every level is shorter than the one below, until it is one node.
LEMMA TreeRows ==
  ASSUME NEW T, NEW h \in Seq(T), h # <<>>, NEW n \in Nat, NEW f, IsTree(f, h, n)
  PROVE  \A k \in 0..n : \E s : IsRow(f[k], s) /\ (s = 1 \/ s + k <= Len(h))
<1> DEFINE Good(k) == \E s : IsRow(f[k], s) /\ (s = 1 \/ s + k <= Len(h))
           S == {k \in 0..n : Good(k)}
<1>1. 0 \in S
  <2>1. IsRow(f[0], Len(h)) /\ Len(h) + 0 <= Len(h)
    <3>1. Len(h) \in Nat /\ IsRow(Leaves(h), Len(h)) /\ f[0] = Leaves(h)
      BY LeafRow, TreeSteps
    <3> QED
      BY <3>1
  <2> QED
    BY <2>1
<1>2. ASSUME NEW k \in 0..n, k \in S, k < n PROVE k + 1 \in S
  <2>1. PICK s : IsRow(f[k], s) /\ (s = 1 \/ s + k <= Len(h))
    BY <1>2
  <2>2. k \in 0..(n - 1) /\ k + 1 \in 0..n /\ f[k + 1] = NextLevel(f[k])
    <3>1. k \in 0..(n - 1) /\ k + 1 \in 0..n
      BY <1>2
    <3> QED
      BY <3>1, TreeSteps
  <2>3. IsRow(f[k + 1], (s + 1) \div 2)
    BY <2>1, <2>2, NextRow
  <2>4. (s + 1) \div 2 = 1 \/ (s + 1) \div 2 + (k + 1) <= Len(h)
    <3>1. s \in Nat /\ s >= 1 /\ Len(h) \in Nat
      BY <2>1, LeafRow DEF IsRow
    <3>2. PICK l \in Nat : l = Len(h)
      BY <3>1
    <3>3. (s + 1) \div 2 = 1 \/ (s + 1) \div 2 + (k + 1) <= l
      BY <2>1, <3>1, <3>2
    <3> QED
      BY <3>2, <3>3
  <2> QED
    BY <2>2, <2>3, <2>4
<1>3. \A k \in 0..n : k \in S
  <2> HIDE DEF S
  <2> QED
    BY <1>1, <1>2, Upwards
<1> QED
  BY <1>3

\* The level as high as the batch has leaves is its root alone.
LEMMA TopIsRoot ==
  ASSUME NEW T, NEW h \in Seq(T), h # <<>>
  PROVE  Level(h)[Len(h)] = [i \in 1..1 |-> MerkleRoot(h)]
<1>1. Len(h) \in Nat /\ Len(h) >= 1
  BY LeafRow
<1>2. IsTree(Level(h), h, Len(h))
  BY <1>1, LevelIsTree
<1>3. PICK n \in Nat : n = Len(h)
  BY <1>1
<1>4. \A k \in 0..n : \E s : IsRow(Level(h)[k], s) /\ (s = 1 \/ s + k <= Len(h))
  BY <1>2, <1>3, TreeRows
<1>5. PICK s : IsRow(Level(h)[n], s) /\ (s = 1 \/ s + n <= Len(h))
  BY <1>4
<1>6. s = 1
  BY <1>3, <1>5 DEF IsRow
<1>7. Level(h)[n] = [i \in 1..1 |-> Level(h)[n][i]]
  BY <1>5, <1>6 DEF IsRow
<1>8. \A i \in 1..1 : Level(h)[n][i] = MerkleRoot(h)
  BY <1>3 DEF MerkleRoot
<1> QED
  BY <1>3, <1>7, <1>8

\* r folds the first n siblings of w.
IsRun(r, v, w, n) == r = [k \in 0..n |-> IF k = 0 THEN LeafDigest(v) ELSE Combine(r[k - 1], w[k])]

\* Runs of every length exist.
LEMMA RunsExist ==
  ASSUME NEW v, NEW w
  PROVE  \A n \in Nat : \E r : IsRun(r, v, w, n)
<1> DEFINE Good(n) == \E r : IsRun(r, v, w, n)
           S == {n \in Nat : Good(n)}
<1>1. Good(0)
  <2> DEFINE g == [k \in 0..0 |-> LeafDigest(v)]
  <2>1. IsRun(g, v, w, 0)
    BY DEF IsRun
  <2> HIDE DEF g
  <2> QED
    BY <2>1
<1>2. ASSUME NEW n \in Nat, Good(n) PROVE Good(n + 1)
  <2>1. PICK r : IsRun(r, v, w, n)
    BY <1>2
  <2> DEFINE g == [k \in 0..(n + 1) |-> IF k = n + 1 THEN Combine(r[n], w[n + 1]) ELSE r[k]]
  <2>2. ASSUME NEW k \in 0..(n + 1) PROVE g[k] = IF k = 0 THEN LeafDigest(v) ELSE Combine(g[k - 1], w[k])
    <3>1. CASE k = n + 1
      <4>1. g[n + 1] = Combine(r[n], w[n + 1]) /\ g[n] = r[n] /\ n + 1 # 0 /\ (n + 1) - 1 = n
        OBVIOUS
      <4> HIDE DEF g
      <4> QED
        BY <3>1, <4>1
    <3>2. CASE k # n + 1
      <4>1. k \in 0..n /\ (k # 0 => k - 1 \in 0..n)
        BY <3>2
      <4>2. g[k] = r[k] /\ (k # 0 => g[k - 1] = r[k - 1])
        BY <4>1
      <4>3. r[k] = IF k = 0 THEN LeafDigest(v) ELSE Combine(r[k - 1], w[k])
        BY <2>1, <4>1 DEF IsRun
      <4> HIDE DEF g
      <4> QED
        BY <4>2, <4>3
    <3> QED
      BY <3>1, <3>2
  <2>3. IsRun(g, v, w, n + 1)
    BY <2>2 DEF IsRun
  <2> HIDE DEF g
  <2> QED
    BY <2>3
<1>3. ASSUME NEW n \in Nat PROVE Good(n)
  <2>1. 0 \in S /\ \A k \in 0..n : k \in S /\ k < n => k + 1 \in S
    BY <1>1, <1>2
  <2> HIDE DEF S
  <2>2. n \in S
    BY <2>1, Upwards
  <2> QED
    BY <2>2 DEF S
<1> QED
  BY <1>3

\* Running is the end of a run.
LEMMA RunningRuns ==
  ASSUME NEW v, NEW w, Len(w) \in Nat
  PROVE  \E r : IsRun(r, v, w, Len(w)) /\ Running(v, w) = r[Len(w)]
<1>1. PICK n \in Nat : n = Len(w)
  OBVIOUS
<1> DEFINE r == CHOOSE f : IsRun(f, v, w, n)
<1>2. IsRun(r, v, w, n)
  BY RunsExist, Zenon
<1>3. Running(v, w) = r[n]
  BY <1>1 DEF Running, IsRun
<1> HIDE DEF r
<1> QED
  BY <1>1, <1>2, <1>3

\* Nothing is folded over no sibling, and the last one is folded last.
LEMMA RunningSteps ==
  ASSUME NEW v
  PROVE  /\ Running(v, <<>>) = LeafDigest(v)
         /\ \A T, x : \A w \in Seq(T) : Running(v, w \o <<x>>) = Combine(Running(v, w), x)
<1>1. Running(v, <<>>) = LeafDigest(v)
  <2>1. Len(<<>>) = 0 /\ 0 \in Nat
    BY EmptySeq
  <2>2. PICK w : w = <<>>
    OBVIOUS
  <2>3. PICK r : IsRun(r, v, w, 0) /\ Running(v, w) = r[0]
    BY <2>1, <2>2, RunningRuns
  <2>4. r[0] = LeafDigest(v)
    BY <2>3 DEF IsRun
  <2> QED
    BY <2>2, <2>3, <2>4
<1>2. ASSUME NEW T, NEW x, NEW w \in Seq(T) PROVE Running(v, w \o <<x>>) = Combine(Running(v, w), x)
  <2>1. PICK n \in Nat : n = Len(w)
    BY OwnRange
  <2>2. PICK u : u = w \o <<x>>
    OBVIOUS
  <2>3. Len(u) = n + 1 /\ u[n + 1] = x /\ \A i \in 1..n : u[i] = w[i]
    <3>1. w \in Seq(T \cup {x}) /\ <<x>> \in Seq(T \cup {x})
      <4>1. w \in [1..n -> T]
        BY <2>1, LenProperties
      <4>2. w \in [1..n -> T \cup {x}]
        BY <4>1
      <4> QED
        BY <2>1, <4>2, SeqDef
    <3>2. Len(<<x>>) = 1 /\ <<x>>[1] = x
      OBVIOUS
    <3>3. /\ Len(w \o <<x>>) = Len(w) + Len(<<x>>)
          /\ \A i \in 1..(Len(w) + Len(<<x>>)) :
               (w \o <<x>>)[i] = IF i <= Len(w) THEN w[i] ELSE <<x>>[i - Len(w)]
      BY <3>1, ConcatProperties
    <3>4. n + 1 \in 1..(n + 1) /\ ~(n + 1 <= n) /\ (n + 1) - n = 1 /\ \A i \in 1..n : i \in 1..(n + 1) /\ i <= n
      BY <2>1
    <3>5. Len(u) = n + 1 /\ \A i \in 1..(n + 1) : u[i] = IF i <= n THEN w[i] ELSE <<x>>[i - n]
      BY <2>1, <2>2, <3>2, <3>3
    <3> QED
      BY <3>2, <3>4, <3>5
  <2>4. PICK f : IsRun(f, v, w, n) /\ Running(v, w) = f[n]
    BY <2>1, RunningRuns
  <2>5. PICK g : IsRun(g, v, u, n + 1) /\ Running(v, u) = g[n + 1]
    BY <2>1, <2>3, RunningRuns
  <2> DEFINE S == {k \in 0..n : f[k] = g[k]}
  <2>6. \A k \in 0..n : f[k] = IF k = 0 THEN LeafDigest(v) ELSE Combine(f[k - 1], w[k])
    BY <2>4 DEF IsRun
  <2>7. \A k \in 0..(n + 1) : g[k] = IF k = 0 THEN LeafDigest(v) ELSE Combine(g[k - 1], u[k])
    BY <2>5 DEF IsRun
  <2>8. 0 \in S
    BY <2>6, <2>7
  <2>9. ASSUME NEW k \in 0..n, k \in S, k < n PROVE k + 1 \in S
    <3>1. k + 1 \in 0..n /\ k + 1 \in 0..(n + 1) /\ k + 1 # 0 /\ (k + 1) - 1 = k /\ k + 1 \in 1..n
      BY <2>9
    <3>2. f[k] = g[k]
      BY <2>9
    <3>3. f[k + 1] = Combine(f[k], w[k + 1]) /\ g[k + 1] = Combine(g[k], u[k + 1]) /\ u[k + 1] = w[k + 1]
      BY <2>3, <2>6, <2>7, <3>1
    <3> QED
      BY <3>1, <3>2, <3>3
  <2>10. f[n] = g[n]
    <3> HIDE DEF S
    <3>1. \A k \in 0..n : k \in S
      BY <2>8, <2>9, Upwards
    <3>2. n \in S
      BY <3>1
    <3> QED
      BY <3>2 DEF S
  <2>11. g[n + 1] = Combine(g[n], u[n + 1])
    <3>1. n + 1 \in 0..(n + 1) /\ n + 1 # 0 /\ (n + 1) - 1 = n
      OBVIOUS
    <3> QED
      BY <2>7, <3>1
  <2> QED
    BY <2>2, <2>3, <2>4, <2>5, <2>10, <2>11
<1> QED
  BY <1>1, <1>2

\* c climbs n levels from leaf index.
IsClimb(c, h, index, n) ==
  c = [k \in 0..n |->
        IF k = 0 THEN [pos |-> index, siblings |-> <<>>]
        ELSE [pos |-> c[k - 1].pos \div 2,
              siblings |-> c[k - 1].siblings \o SiblingAt(Level(h)[k - 1], c[k - 1].pos)]]

\* Climbs of every height exist.
LEMMA ClimbsExist ==
  ASSUME NEW h, NEW index
  PROVE  \A n \in Nat : \E c : IsClimb(c, h, index, n)
<1> DEFINE Start == [pos |-> index, siblings |-> <<>>]
           Higher(at, l) == [pos |-> at.pos \div 2, siblings |-> at.siblings \o SiblingAt(l, at.pos)]
           Good(n) == \E c : IsClimb(c, h, index, n)
           S == {n \in Nat : Good(n)}
<1>0. \A c, n : IsClimb(c, h, index, n) <=> c = [k \in 0..n |-> IF k = 0 THEN Start ELSE Higher(c[k - 1], Level(h)[k - 1])]
  BY DEF IsClimb
<1> HIDE DEF Start, Higher
<1>1. Good(0)
  <2> DEFINE g == [k \in 0..0 |-> Start]
  <2>1. g = [k \in 0..0 |-> IF k = 0 THEN Start ELSE Higher(g[k - 1], Level(h)[k - 1])]
    OBVIOUS
  <2>2. IsClimb(g, h, index, 0)
    BY <1>0, <2>1
  <2> HIDE DEF g
  <2> QED
    BY <2>2
<1>2. ASSUME NEW n \in Nat, Good(n) PROVE Good(n + 1)
  <2>1. PICK c : IsClimb(c, h, index, n)
    BY <1>2
  <2> DEFINE g == [k \in 0..(n + 1) |-> IF k = n + 1 THEN Higher(c[n], Level(h)[n]) ELSE c[k]]
  <2>2. ASSUME NEW k \in 0..(n + 1) PROVE g[k] = IF k = 0 THEN Start ELSE Higher(g[k - 1], Level(h)[k - 1])
    <3>1. CASE k = n + 1
      <4>1. g[n + 1] = Higher(c[n], Level(h)[n]) /\ g[n] = c[n] /\ n + 1 # 0 /\ (n + 1) - 1 = n
        OBVIOUS
      <4> HIDE DEF g
      <4> QED
        BY <3>1, <4>1
    <3>2. CASE k # n + 1
      <4>1. k \in 0..n /\ (k # 0 => k - 1 \in 0..n)
        BY <3>2
      <4>2. g[k] = c[k] /\ (k # 0 => g[k - 1] = c[k - 1])
        BY <4>1
      <4>3. c[k] = IF k = 0 THEN Start ELSE Higher(c[k - 1], Level(h)[k - 1])
        BY <1>0, <2>1, <4>1
      <4> HIDE DEF g
      <4> QED
        BY <4>2, <4>3
    <3> QED
      BY <3>1, <3>2
  <2>3. g = [k \in 0..(n + 1) |-> IF k = 0 THEN Start ELSE Higher(g[k - 1], Level(h)[k - 1])]
    BY <2>2
  <2>4. IsClimb(g, h, index, n + 1)
    BY <1>0, <2>3
  <2> HIDE DEF g
  <2> QED
    BY <2>4
<1>3. ASSUME NEW n \in Nat PROVE Good(n)
  <2>1. 0 \in S /\ \A k \in 0..n : k \in S /\ k < n => k + 1 \in S
    BY <1>1, <1>2
  <2> HIDE DEF S
  <2>2. n \in S
    BY <2>1, Upwards
  <2> QED
    BY <2>2 DEF S
<1> QED
  BY <1>3

\* What a climb through n levels is, level by level.
Climbed(c, level, n, index) ==
  /\ c[0].pos = index /\ c[0].siblings = <<>>
  /\ \A k \in 0..(n - 1) :
       /\ c[k + 1].pos = c[k].pos \div 2
       /\ c[k + 1].siblings = c[k].siblings \o SiblingAt(level[k], c[k].pos)

LEMMA ClimbSteps ==
  ASSUME NEW T, NEW h \in Seq(T), NEW index, NEW c, c = Climb(h, index)
  PROVE  Climbed(c, Level(h), Len(h), index)
<1>1. PICK n \in Nat : n = Len(h)
  BY OwnRange
<1>2. \E f : IsClimb(f, h, index, n)
  BY ClimbsExist
<1>3. c = CHOOSE f : IsClimb(f, h, index, n)
  BY <1>1 DEF Climb, IsClimb
<1>4. IsClimb(c, h, index, n)
  BY <1>2, <1>3, Zenon
<1>5. \A k \in 0..n : c[k] =
        IF k = 0 THEN [pos |-> index, siblings |-> <<>>]
        ELSE [pos |-> c[k - 1].pos \div 2,
              siblings |-> c[k - 1].siblings \o SiblingAt(Level(h)[k - 1], c[k - 1].pos)]
  BY <1>4 DEF IsClimb
<1>6. ASSUME NEW k \in 0..(n - 1)
      PROVE  /\ c[k + 1].pos = c[k].pos \div 2
             /\ c[k + 1].siblings = c[k].siblings \o SiblingAt(Level(h)[k], c[k].pos)
  <2>1. k + 1 \in 0..n /\ k + 1 # 0 /\ (k + 1) - 1 = k
    OBVIOUS
  <2>2. PICK p, w : p = c[k].pos \div 2 /\ w = c[k].siblings \o SiblingAt(Level(h)[k], c[k].pos)
    OBVIOUS
  <2>3. c[k + 1] = [pos |-> p, siblings |-> w]
    BY <1>5, <2>1, <2>2
  <2>4. c[k + 1].pos = p /\ c[k + 1].siblings = w
    BY <2>3
  <2> QED
    BY <2>2, <2>4
<1>7. c[0].pos = index /\ c[0].siblings = <<>>
  <2>1. 0 \in 0..n
    OBVIOUS
  <2>2. c[0] = [pos |-> index, siblings |-> <<>>]
    BY <1>5, <2>1
  <2> QED
    BY <2>2
<1> QED
  BY <1>1, <1>6, <1>7 DEF Climbed

\* A digest says what was hashed.
LEMMA Digests ==
  /\ \A v, w : LeafDigest(v) = LeafDigest(w) <=> v = w
  /\ \A a, b, c, d : NodeDigest(a, b) = NodeDigest(c, d) <=> a = c /\ b = d
  /\ \A v, a, b : LeafDigest(v) # NodeDigest(a, b)
BY DEF LeafDigest, NodeDigest

\* A sequence and one more element.
LEMMA OneMore ==
  ASSUME NEW T, NEW w \in Seq(T), NEW x
  PROVE  w \o <<x>> \in Seq(T \cup {x})
<1>1. PICK n \in Nat : n = Len(w) /\ w \in [1..n -> T]
  BY OwnRange, LenProperties
<1>2. w \in [1..n -> T \cup {x}]
  BY <1>1
<1>3. w \in Seq(T \cup {x}) /\ <<x>> \in Seq(T \cup {x})
  BY <1>1, <1>2, SeqDef
<1> QED
  BY <1>3, ConcatProperties

\* One level up, the value and its siblings amount to the node above exactly
\* when they amounted to the node below.
LEMMA ClimbStep ==
  ASSUME NEW a, NEW s, IsRow(a, s), NEW p \in 0..(s - 1), NEW v, NEW T, NEW w \in Seq(T)
  PROVE  /\ p \div 2 \in 0..((s + 1) \div 2 - 1)
         /\ \E U : w \o SiblingAt(a, p) \in Seq(U)
         /\ Running(v, w \o SiblingAt(a, p)) = NextLevel(a)[p \div 2 + 1] <=> Running(v, w) = a[p + 1]
<1>1. s \in Nat /\ s >= 1
  BY DEF IsRow
<1>2. p \div 2 \in 0..((s + 1) \div 2 - 1) /\ p \div 2 + 1 \in 1..((s + 1) \div 2)
  BY <1>1
<1>3. PICK i : i = p \div 2 + 1
  OBVIOUS
<1>4. NextLevel(a)[i] = (IF 2 * i > s THEN a[2 * i - 1] ELSE NodeDigest(a[2 * i - 1], a[2 * i])) /\ Len(a) = s
  BY <1>2, <1>3, NextRow
<1>5. CASE p % 2 = 1
  <2>1. PICK x : x = [hash |-> a[p], right |-> FALSE]
    OBVIOUS
  <2>2. SiblingAt(a, p) = <<x>>
    <3>1. ~(p % 2 = 0)
      BY <1>5
    <3> QED
      BY <1>5, <2>1, <3>1 DEF SiblingAt
  <2>3. 2 * i = p + 1 /\ ~(2 * i > s) /\ 2 * i - 1 = p
    BY <1>1, <1>3, <1>5
  <2>4. NextLevel(a)[i] = NodeDigest(a[p], a[p + 1])
    BY <1>4, <2>3
  <2>5. Running(v, w \o <<x>>) = NodeDigest(a[p], Running(v, w))
    <3>1. Running(v, w \o <<x>>) = Combine(Running(v, w), x)
      BY RunningSteps
    <3>2. x.right = FALSE /\ x.hash = a[p]
      BY <2>1
    <3> QED
      BY <3>1, <3>2 DEF Combine
  <2>6. w \o <<x>> \in Seq(T \cup {x})
    BY OneMore
  <2> QED
    BY <1>2, <1>3, <2>2, <2>4, <2>5, <2>6, Digests
<1>6. CASE p % 2 = 0 /\ p + 1 < s
  <2>1. PICK x : x = [hash |-> a[p + 2], right |-> TRUE]
    OBVIOUS
  <2>2. SiblingAt(a, p) = <<x>>
    <3>1. ~(p % 2 = 1)
      BY <1>6
    <3> QED
      BY <1>4, <1>6, <2>1, <3>1 DEF SiblingAt
  <2>3. 2 * i = p + 2 /\ ~(2 * i > s) /\ 2 * i - 1 = p + 1
    BY <1>1, <1>3, <1>6
  <2>4. NextLevel(a)[i] = NodeDigest(a[p + 1], a[p + 2])
    BY <1>4, <2>3
  <2>5. Running(v, w \o <<x>>) = NodeDigest(Running(v, w), a[p + 2])
    <3>1. Running(v, w \o <<x>>) = Combine(Running(v, w), x)
      BY RunningSteps
    <3>2. x.right = TRUE /\ x.hash = a[p + 2]
      BY <2>1
    <3> QED
      BY <3>1, <3>2 DEF Combine
  <2>6. w \o <<x>> \in Seq(T \cup {x})
    BY OneMore
  <2> QED
    BY <1>2, <1>3, <2>2, <2>4, <2>5, <2>6, Digests
<1>7. CASE p % 2 = 0 /\ ~(p + 1 < s)
  <2>1. SiblingAt(a, p) = <<>>
    <3>1. ~(p % 2 = 1)
      BY <1>7
    <3> QED
      BY <1>4, <1>7, <3>1 DEF SiblingAt
  <2>2. 2 * i = p + 2 /\ 2 * i > s /\ 2 * i - 1 = p + 1
    BY <1>1, <1>3, <1>7
  <2>3. NextLevel(a)[i] = a[p + 1]
    BY <1>4, <2>2
  <2>4. w \o <<>> = w
    BY ConcatEmptySeq
  <2> QED
    BY <1>2, <1>3, <2>1, <2>3, <2>4
<1>8. p % 2 = 1 \/ p % 2 = 0
  BY <1>1
<1> QED
  BY <1>5, <1>6, <1>7, <1>8

\* The witness of a leaf proves the inclusion of its own value and of no other.
LEMMA WitnessIsExact ==
  ASSUME NEW T, NEW h \in Seq(T), NEW i \in 1..Len(h), NEW v
  PROVE  VerifyMerkleProof(v, MerkleRoot(h), MerkleProof(h, i - 1)) <=> v = h[i]
<1>0. PICK n \in Nat : n = Len(h) /\ n # 0 /\ h # <<>>
  <2>1. Len(h) \in Nat /\ (h = <<>> <=> Len(h) = 0)
    BY OwnRange
  <2> QED
    BY <2>1
<1>1. PICK l : l = Level(h)
  OBVIOUS
<1>2. PICK c : c = Climb(h, i - 1)
  OBVIOUS
<1>3. IsTree(l, h, n)
  BY <1>0, <1>1, LevelIsTree
<1>4. l[0] = Leaves(h) /\ \A k \in 0..(n - 1) : l[k + 1] = NextLevel(l[k])
  BY <1>3, TreeSteps
<1>5. /\ c[0].pos = i - 1 /\ c[0].siblings = <<>>
      /\ \A k \in 0..(n - 1) :
           /\ c[k + 1].pos = c[k].pos \div 2
           /\ c[k + 1].siblings = c[k].siblings \o SiblingAt(l[k], c[k].pos)
  <2>1. PICK q : q = i - 1
    OBVIOUS
  <2>3. c = Climb(h, q)
    BY <1>2, <2>1
  <2>4. Climbed(c, l, n, q)
    BY <1>0, <1>1, <2>3, ClimbSteps
  <2> QED
    BY <2>1, <2>4 DEF Climbed
<1> DEFINE At(k, s) ==
             /\ IsRow(l[k], s) /\ c[k].pos \in 0..(s - 1)
             /\ \E U : c[k].siblings \in Seq(U)
             /\ Running(v, c[k].siblings) = l[k][c[k].pos + 1] <=> v = h[i]
           S == {k \in 0..n : \E s : At(k, s)}
<1>6. At(0, n)
  <2>1. IsRow(l[0], n) /\ l[0][i] = LeafDigest(h[i])
    BY <1>0, <1>4, LeafRow
  <2>2. i - 1 \in 0..(n - 1) /\ (i - 1) + 1 = i
    BY <1>0
  <2>3. <<>> \in Seq({})
    BY EmptySeq
  <2>4. Running(v, <<>>) = LeafDigest(v)
    BY RunningSteps
  <2> QED
    BY <1>5, <2>1, <2>2, <2>3, <2>4, Digests
<1>7. ASSUME NEW k \in 0..(n - 1), NEW s, At(k, s) PROVE At(k + 1, (s + 1) \div 2)
  <2>1. PICK U : c[k].siblings \in Seq(U)
    BY <1>7
  <2>2. PICK p, w : p = c[k].pos /\ w = c[k].siblings
    OBVIOUS
  <2>3. PICK a : a = l[k]
    OBVIOUS
  <2>4. /\ p \div 2 \in 0..((s + 1) \div 2 - 1)
        /\ \E X : w \o SiblingAt(a, p) \in Seq(X)
        /\ Running(v, w \o SiblingAt(a, p)) = NextLevel(a)[p \div 2 + 1] <=> Running(v, w) = a[p + 1]
    <3>1. IsRow(a, s) /\ p \in 0..(s - 1) /\ w \in Seq(U)
      BY <1>7, <2>1, <2>2, <2>3
    <3> HIDE DEF At
    <3> QED
      <4>1. p \div 2 \in 0..((s + 1) \div 2 - 1)
        BY <3>1, ClimbStep
      <4>2. \E X : w \o SiblingAt(a, p) \in Seq(X)
        BY <3>1, ClimbStep
      <4>3. Running(v, w \o SiblingAt(a, p)) = NextLevel(a)[p \div 2 + 1] <=> Running(v, w) = a[p + 1]
        BY <3>1, ClimbStep
      <4> QED
        BY <4>1, <4>2, <4>3
  <2>5. IsRow(NextLevel(a), (s + 1) \div 2)
    BY <1>7, <2>3, NextRow
  <2>6. l[k + 1] = NextLevel(a) /\ c[k + 1].pos = p \div 2 /\ c[k + 1].siblings = w \o SiblingAt(a, p)
    BY <1>4, <1>5, <2>2, <2>3
  <2>7. Running(v, w) = a[p + 1] <=> v = h[i]
    BY <1>7, <2>2, <2>3
  <2> QED
    BY <2>4, <2>5, <2>6, <2>7
<1>8. \A k \in 0..n : k \in S
  <2>1. 0 \in S
    BY <1>6
  <2>2. ASSUME NEW k \in 0..n, k \in S, k < n PROVE k + 1 \in S
    <3>1. PICK s : At(k, s)
      BY <2>2
    <3>2. k \in 0..(n - 1)
      BY <2>2
    <3>3. \E r : At(k + 1, r)
      BY <1>7, <3>1, <3>2
    <3> QED
      BY <3>2, <3>3
  <2> HIDE DEF S
  <2> QED
    BY <2>1, <2>2, Upwards
<1>9. PICK s : At(n, s)
  BY <1>8
<1>10. l[n] = [j \in 1..1 |-> MerkleRoot(h)]
  BY <1>0, <1>1, TopIsRoot
<1>11. s = 1
  <2>1. Len(l[n]) = s
    BY <1>9, NextRow
  <2>2. PICK a : a = l[n]
    OBVIOUS
  <2>3. a = [j \in 1..1 |-> a[j]]
    BY <1>10, <2>2
  <2>4. Len(a) = 1
    BY <2>3, Sequence
  <2> QED
    BY <2>1, <2>2, <2>4
<1>12. c[n].pos = 0 /\ l[n][c[n].pos + 1] = MerkleRoot(h)
  BY <1>9, <1>10, <1>11
<1>13. MerkleProof(h, i - 1) = c[n].siblings
  BY <1>0, <1>2 DEF MerkleProof
<1>14. VerifyMerkleProof(v, MerkleRoot(h), MerkleProof(h, i - 1)) <=> Running(v, c[n].siblings) = MerkleRoot(h)
  BY <1>13 DEF VerifyMerkleProof
<1> QED
  BY <1>9, <1>12, <1>14

\* s descends from d by left children to a leaf, in j steps.
IsSpine(s, d, j) ==
  /\ s[0] = d /\ \E v : s[j] = LeafDigest(v)
  /\ \A i \in 0..(j - 1) : \E a : s[i] = NodeDigest(s[i + 1], a)

Deep(d, j) == \E s : IsSpine(s, d, j)

\* A digest is as deep as it is.
LEMMA DepthIsUnique ==
  ASSUME NEW d, NEW j \in Nat, NEW k \in Nat, Deep(d, j), Deep(d, k)
  PROVE  ~(j < k)
<1> SUFFICES ASSUME j < k PROVE FALSE
  OBVIOUS
<1>1. PICK s : IsSpine(s, d, j)
  BY DEF Deep
<1>2. PICK t : IsSpine(t, d, k)
  BY DEF Deep
<1> DEFINE S == {i \in 0..j : s[i] = t[i]}
<1>3. 0 \in S
  BY <1>1, <1>2 DEF IsSpine
<1>4. ASSUME NEW i \in 0..j, i \in S, i < j PROVE i + 1 \in S
  <2>1. i \in 0..(j - 1) /\ i \in 0..(k - 1) /\ i + 1 \in 0..j /\ s[i] = t[i]
    BY <1>4
  <2>2. PICK a : s[i] = NodeDigest(s[i + 1], a)
    BY <1>1, <2>1 DEF IsSpine
  <2>3. PICK b : t[i] = NodeDigest(t[i + 1], b)
    BY <1>2, <2>1 DEF IsSpine
  <2>4. s[i + 1] = t[i + 1]
    <3>1. NodeDigest(s[i + 1], a) = NodeDigest(t[i + 1], b)
      BY <2>1, <2>2, <2>3
    <3> QED
      BY <3>1, Digests
  <2> QED
    BY <2>1, <2>4
<1>5. s[j] = t[j]
  <2>1. \A i \in 0..j : i \in S
    <3> HIDE DEF S
    <3> QED
      BY <1>3, <1>4, Upwards
  <2>2. j \in S
    BY <2>1
  <2> QED
    BY <2>2
<1>6. PICK v : s[j] = LeafDigest(v)
  BY <1>1 DEF IsSpine
<1>7. PICK a : t[j] = NodeDigest(t[j + 1], a)
  <2>1. j \in 0..(k - 1)
    OBVIOUS
  <2> QED
    BY <1>2, <2>1 DEF IsSpine
<1>8. LeafDigest(v) = NodeDigest(t[j + 1], a)
  BY <1>5, <1>6, <1>7
<1> QED
  BY <1>8, Digests

\* A leaf is not deep; a node is deeper by one than its left child.
LEMMA Depths ==
  /\ \A v : Deep(LeafDigest(v), 0)
  /\ \A j \in Nat : \A a, b : Deep(a, j) => Deep(NodeDigest(a, b), j + 1)
<1>1. ASSUME NEW v PROVE Deep(LeafDigest(v), 0)
  <2> DEFINE s == [i \in 0..0 |-> LeafDigest(v)]
  <2>1. s[0] = LeafDigest(v) /\ 0..(0 - 1) = {}
    OBVIOUS
  <2> HIDE DEF s
  <2>2. IsSpine(s, LeafDigest(v), 0)
    BY <2>1 DEF IsSpine
  <2> QED
    BY <2>2 DEF Deep
<1>2. ASSUME NEW j \in Nat, NEW a, NEW b, Deep(a, j) PROVE Deep(NodeDigest(a, b), j + 1)
  <2>1. PICK t : IsSpine(t, a, j)
    BY <1>2 DEF Deep
  <2> DEFINE s == [i \in 0..(j + 1) |-> IF i = 0 THEN NodeDigest(a, b) ELSE t[i - 1]]
  <2>2. s[0] = NodeDigest(a, b) /\ \A i \in 0..j : s[i + 1] = t[i]
    <3>1. \A i \in 0..j : i + 1 \in 0..(j + 1) /\ i + 1 # 0 /\ (i + 1) - 1 = i
      OBVIOUS
    <3> QED
      BY <3>1
  <2> HIDE DEF s
  <2>3. \E v : s[j + 1] = LeafDigest(v)
    BY <2>1, <2>2 DEF IsSpine
  <2>4. ASSUME NEW i \in 0..((j + 1) - 1) PROVE \E x : s[i] = NodeDigest(s[i + 1], x)
    <3>1. CASE i = 0
      <4>1. s[i] = NodeDigest(a, b) /\ s[i + 1] = t[0] /\ t[0] = a
        BY <2>1, <2>2, <3>1 DEF IsSpine
      <4> QED
        BY <4>1
    <3>2. CASE i # 0
      <4>1. i - 1 \in 0..(j - 1) /\ i - 1 \in 0..j /\ (i - 1) + 1 = i /\ i \in 0..j
        BY <3>2
      <4>2. PICK x : t[i - 1] = NodeDigest(t[(i - 1) + 1], x)
        BY <2>1, <4>1 DEF IsSpine
      <4>3. s[i] = t[i - 1] /\ s[i + 1] = t[i]
        BY <2>2, <4>1
      <4> QED
        BY <4>1, <4>2, <4>3
    <3> QED
      BY <3>1, <3>2
  <2>5. IsSpine(s, NodeDigest(a, b), j + 1)
    BY <2>2, <2>3, <2>4 DEF IsSpine
  <2> QED
    BY <2>5 DEF Deep
<1> QED
  BY <1>1, <1>2

\* A level of n nodes, k levels above the leaves: all but the last are full.
Full(a, n, k) ==
  /\ IsRow(a, n)
  /\ \A i \in 1..n : \E j \in 0..k : Deep(a[i], j)
  /\ \A i \in 1..(n - 1) : Deep(a[i], k)

\* The level above a level of full nodes is one.
LEMMA FullUp ==
  ASSUME NEW a, NEW n, NEW k \in Nat, Full(a, n, k)
  PROVE  Full(NextLevel(a), (n + 1) \div 2, k + 1)
<1>1. n \in Nat /\ n >= 1 /\ IsRow(a, n)
  BY DEF Full, IsRow
<1>2. PICK m : m = (n + 1) \div 2
  OBVIOUS
<1>3. /\ m \in Nat /\ m >= 1 /\ IsRow(NextLevel(a), m)
      /\ \A i \in 1..m : NextLevel(a)[i] = IF 2 * i > n THEN a[2 * i - 1] ELSE NodeDigest(a[2 * i - 1], a[2 * i])
  <2>1. m \in Nat /\ m >= 1
    BY <1>1, <1>2
  <2> QED
    BY <1>1, <1>2, <2>1, NextRow
<1>4. ASSUME NEW i \in 1..m, ~(2 * i > n) PROVE Deep(NextLevel(a)[i], k + 1)
  <2>1. 2 * i - 1 \in 1..(n - 1)
    BY <1>1, <1>3, <1>4
  <2>2. Deep(a[2 * i - 1], k)
    BY <2>1 DEF Full
  <2>3. NextLevel(a)[i] = NodeDigest(a[2 * i - 1], a[2 * i])
    BY <1>3, <1>4
  <2> QED
    BY <2>2, <2>3, Depths
<1>5. ASSUME NEW i \in 1..m PROVE \E j \in 0..(k + 1) : Deep(NextLevel(a)[i], j)
  <2>1. CASE 2 * i > n
    <3>1. 2 * i - 1 \in 1..n
      BY <1>1, <1>2, <2>1
    <3>2. PICK j \in 0..k : Deep(a[2 * i - 1], j)
      BY <3>1 DEF Full
    <3>3. NextLevel(a)[i] = a[2 * i - 1]
      BY <1>3, <2>1
    <3>4. j \in 0..(k + 1)
      OBVIOUS
    <3> QED
      BY <3>2, <3>3, <3>4
  <2>2. CASE ~(2 * i > n)
    <3>1. k + 1 \in 0..(k + 1)
      OBVIOUS
    <3> QED
      BY <1>4, <2>2, <3>1
  <2> QED
    BY <2>1, <2>2
<1>6. ASSUME NEW i \in 1..(m - 1) PROVE Deep(NextLevel(a)[i], k + 1)
  <2>1. i \in 1..m /\ ~(2 * i > n)
    BY <1>1, <1>2
  <2> QED
    BY <1>4, <2>1
<1> QED
  BY <1>2, <1>3, <1>5, <1>6 DEF Full

\* A promoted node is not the node of two others: it is not as deep.
LEMMA PromotedIsNoNode ==
  ASSUME NEW a, NEW b, NEW n \in Nat, NEW k \in Nat, Full(a, 2 * n + 1, k), Full(b, 2 * n + 2, k)
  PROVE  NextLevel(a) # NextLevel(b)
<1>1. PICK i : i = n + 1
  OBVIOUS
<1>2. i \in 1..(((2 * n + 1) + 1) \div 2) /\ i \in 1..(((2 * n + 2) + 1) \div 2)
  BY <1>1
<1>3. NextLevel(a)[i] = a[2 * n + 1]
  <2>1. NextLevel(a)[i] = IF 2 * i > 2 * n + 1 THEN a[2 * i - 1] ELSE NodeDigest(a[2 * i - 1], a[2 * i])
    BY <1>2, NextRow DEF Full
  <2>2. 2 * i > 2 * n + 1 /\ 2 * i - 1 = 2 * n + 1
    BY <1>1
  <2> QED
    BY <2>1, <2>2
<1>4. NextLevel(b)[i] = NodeDigest(b[2 * n + 1], b[2 * n + 2])
  <2>1. NextLevel(b)[i] = IF 2 * i > 2 * n + 2 THEN b[2 * i - 1] ELSE NodeDigest(b[2 * i - 1], b[2 * i])
    BY <1>2, NextRow DEF Full
  <2>2. ~(2 * i > 2 * n + 2) /\ 2 * i - 1 = 2 * n + 1 /\ 2 * i = 2 * n + 2
    BY <1>1
  <2> QED
    BY <2>1, <2>2
<1>5. PICK j \in 0..k : Deep(a[2 * n + 1], j)
  <2>1. 2 * n + 1 \in 1..(2 * n + 1)
    OBVIOUS
  <2> QED
    BY <2>1 DEF Full
<1>6. Deep(NodeDigest(b[2 * n + 1], b[2 * n + 2]), k + 1)
  <2>1. 2 * n + 1 \in 1..((2 * n + 2) - 1)
    OBVIOUS
  <2>2. Deep(b[2 * n + 1], k)
    BY <2>1 DEF Full
  <2> QED
    BY <2>2, Depths
<1>7. ~(j < k + 1) \/ a[2 * n + 1] # NodeDigest(b[2 * n + 1], b[2 * n + 2])
  <2>1. j \in Nat /\ k + 1 \in Nat
    OBVIOUS
  <2> QED
    BY <1>5, <1>6, <2>1, DepthIsUnique
<1>8. j < k + 1
  OBVIOUS
<1> QED
  BY <1>3, <1>4, <1>7, <1>8

\* A level is known by the level above it.
LEMMA KnownFromAbove ==
  ASSUME NEW a, NEW b, NEW n, NEW m, NEW k \in Nat, Full(a, n, k), Full(b, m, k), NextLevel(a) = NextLevel(b)
  PROVE  n = m /\ a = b
<1>1. n \in Nat /\ n >= 1 /\ m \in Nat /\ m >= 1 /\ IsRow(a, n) /\ IsRow(b, m)
  BY DEF Full, IsRow
<1>2. (n + 1) \div 2 = (m + 1) \div 2
  <2>1. IsRow(NextLevel(a), (n + 1) \div 2) /\ IsRow(NextLevel(b), (m + 1) \div 2)
    BY <1>1, NextRow
  <2>2. Len(NextLevel(a)) = (n + 1) \div 2 /\ Len(NextLevel(b)) = (m + 1) \div 2
    BY <2>1, NextRow
  <2> QED
    BY <2>2
<1>3. n = m
  <2>1. ASSUME NEW i \in Nat, n = 2 * i + 1, m = 2 * i + 2 PROVE FALSE
    BY <2>1, PromotedIsNoNode
  <2>2. ASSUME NEW i \in Nat, m = 2 * i + 1, n = 2 * i + 2 PROVE FALSE
    BY <2>2, PromotedIsNoNode
  <2>3. PICK i \in Nat : (n = 2 * i + 1 \/ n = 2 * i + 2) /\ (m = 2 * i + 1 \/ m = 2 * i + 2)
    <3>1. PICK i : i = (n + 1) \div 2 - 1
      OBVIOUS
    <3>2. i \in Nat /\ (n = 2 * i + 1 \/ n = 2 * i + 2) /\ (m = 2 * i + 1 \/ m = 2 * i + 2)
      BY <1>1, <1>2, <3>1
    <3> QED
      BY <3>2
  <2> QED
    BY <2>1, <2>2, <2>3
<1>4. ASSUME NEW j \in 1..n PROVE a[j] = b[j]
  <2>1. PICK i : i = (j + 1) \div 2
    OBVIOUS
  <2>2. i \in 1..((n + 1) \div 2) /\ (2 * i > n => j = 2 * i - 1) /\ (j = 2 * i - 1 \/ j = 2 * i)
    BY <1>1, <2>1
  <2>3. NextLevel(a)[i] = IF 2 * i > n THEN a[2 * i - 1] ELSE NodeDigest(a[2 * i - 1], a[2 * i])
    BY <1>1, <2>2, NextRow
  <2>4. NextLevel(b)[i] = IF 2 * i > n THEN b[2 * i - 1] ELSE NodeDigest(b[2 * i - 1], b[2 * i])
    BY <1>1, <1>3, <2>2, NextRow
  <2>5. CASE 2 * i > n
    BY <2>2, <2>3, <2>4, <2>5
  <2>6. CASE ~(2 * i > n)
    <3>1. NodeDigest(a[2 * i - 1], a[2 * i]) = NodeDigest(b[2 * i - 1], b[2 * i])
      BY <2>3, <2>4, <2>6
    <3>2. a[2 * i - 1] = b[2 * i - 1] /\ a[2 * i] = b[2 * i]
      BY <3>1, Digests
    <3> QED
      BY <2>2, <3>2
  <2> QED
    BY <2>5, <2>6
<1>5. a = b
  <2>1. a = [j \in 1..n |-> a[j]] /\ b = [j \in 1..n |-> b[j]]
    BY <1>1, <1>3 DEF IsRow
  <2> QED
    BY <1>4, <2>1
<1> QED
  BY <1>3, <1>5

\* Every level of a tree is full, and one node from the height of its leaves on.
LEMMA TreeIsFull ==
  ASSUME NEW T, NEW h \in Seq(T), h # <<>>, NEW n \in Nat, NEW f, IsTree(f, h, n)
  PROVE  \A k \in 0..n : \E s : Full(f[k], s, k)
<1> DEFINE S == {k \in 0..n : \E s : Full(f[k], s, k)}
<1>1. f[0] = Leaves(h) /\ \A k \in 0..(n - 1) : f[k + 1] = NextLevel(f[k])
  BY TreeSteps
<1>2. Full(f[0], Len(h), 0)
  <2>1. IsRow(f[0], Len(h)) /\ \A i \in 1..Len(h) : f[0][i] = LeafDigest(h[i])
    BY <1>1, LeafRow
  <2>2. \A i \in 1..Len(h) : Deep(f[0][i], 0)
    BY <2>1, Depths
  <2>3. \A i \in 1..(Len(h) - 1) : i \in 1..Len(h)
    BY LeafRow
  <2> QED
    BY <2>1, <2>2, <2>3 DEF Full
<1>3. ASSUME NEW k \in 0..n, k \in S, k < n PROVE k + 1 \in S
  <2>1. PICK s : Full(f[k], s, k)
    BY <1>3
  <2>2. k \in 0..(n - 1) /\ k + 1 \in 0..n
    BY <1>3
  <2>3. Full(NextLevel(f[k]), (s + 1) \div 2, k + 1)
    BY <2>1, FullUp
  <2> QED
    BY <1>1, <2>2, <2>3
<1>4. \A k \in 0..n : k \in S
  <2>1. 0 \in S
    BY <1>2
  <2> HIDE DEF S
  <2> QED
    BY <1>3, <2>1, Upwards
<1> QED
  BY <1>4

\* The one node of a top level.
RootRow(h) == [i \in 1..1 |-> MerkleRoot(h)]

\* However high the tree is built, its top is the root of the batch.
LEMMA TopStays ==
  ASSUME NEW T, NEW h \in Seq(T), h # <<>>, NEW top \in Nat, Len(h) <= top, NEW f, IsTree(f, h, top)
  PROVE  f[top] = RootRow(h)
<1>0. PICK n \in Nat : n = Len(h)
  BY OwnRange
<1>1. PICK m \in Nat : n + m = top /\ n = Len(h)
  <2>1. top - n \in Nat /\ n + (top - n) = top
    BY <1>0
  <2> QED
    BY <1>0, <2>1
<1> DEFINE S == {k \in 0..m : f[n + k] = [i \in 1..1 |-> MerkleRoot(h)]}
<1>2. 0 \in S
  <2>1. IsTree(Level(h), h, n)
    BY <1>1, LevelIsTree
  <2>2. n <= n + m /\ n + m \in Nat /\ IsTree(f, h, n + m)
    BY <1>1
  <2>3. Level(h)[n] = f[n]
    BY <2>1, <2>2, TreesAgree
  <2>4. Level(h)[n] = [i \in 1..1 |-> MerkleRoot(h)]
    BY <1>1, TopIsRoot
  <2>5. n + 0 = n /\ 0 \in 0..m
    OBVIOUS
  <2> QED
    BY <2>3, <2>4, <2>5
<1>3. ASSUME NEW k \in 0..m, k \in S, k < m PROVE k + 1 \in S
  <2>1. PICK a : a = f[n + k]
    OBVIOUS
  <2>2. a = [i \in 1..1 |-> MerkleRoot(h)]
    BY <1>3, <2>1
  <2>3. IsRow(a, 1) /\ a[1] = MerkleRoot(h)
    BY <2>2 DEF IsRow
  <2>4. f[n + (k + 1)] = NextLevel(a)
    <3>1. n + m \in Nat /\ n + k \in 0..((n + m) - 1) /\ (n + k) + 1 = n + (k + 1) /\ IsTree(f, h, n + m)
      BY <1>1, <1>3
    <3>2. \A l \in 0..((n + m) - 1) : f[l + 1] = NextLevel(f[l])
      BY <3>1, TreeSteps
    <3>3. f[(n + k) + 1] = NextLevel(f[n + k])
      BY <3>1, <3>2
    <3> QED
      BY <2>1, <3>1, <3>3
  <2>5. IsRow(NextLevel(a), 1) /\ NextLevel(a)[1] = a[1]
    <3>1. (1 + 1) \div 2 = 1 /\ 2 * 1 > 1 /\ 2 * 1 - 1 = 1 /\ 1 \in 1..1
      OBVIOUS
    <3>2. IsRow(NextLevel(a), (1 + 1) \div 2)
      BY <2>3, NextRow
    <3>3. \A i \in 1..((1 + 1) \div 2) : NextLevel(a)[i] = IF 2 * i > 1 THEN a[2 * i - 1] ELSE NodeDigest(a[2 * i - 1], a[2 * i])
      BY <2>3, NextRow
    <3>4. NextLevel(a)[1] = a[1]
      BY <3>1, <3>3
    <3> QED
      BY <3>1, <3>2, <3>4
  <2>6. NextLevel(a) = [i \in 1..1 |-> MerkleRoot(h)]
    <3>1. PICK b : b = NextLevel(a)
      OBVIOUS
    <3>2. b = [i \in 1..1 |-> b[i]] /\ b[1] = MerkleRoot(h)
      BY <2>3, <2>5, <3>1 DEF IsRow
    <3> QED
      BY <3>1, <3>2
  <2>7. k + 1 \in 0..m
    BY <1>3
  <2> QED
    BY <2>4, <2>6, <2>7
<1>4. \A k \in 0..m : k \in S
  <2> HIDE DEF S
  <2> QED
    BY <1>2, <1>3, Upwards
<1>5. m \in S
  BY <1>4
<1> QED
  BY <1>1, <1>5 DEF RootRow

\* Two batches of one root are one batch.
LEMMA RootIsExact ==
  ASSUME NEW T, NEW g \in Seq(T), NEW h \in Seq(T), g # <<>>, h # <<>>
  PROVE  MerkleRoot(g) = MerkleRoot(h) => g = h
<1>1. PICK p \in Nat : p = Len(g)
  BY OwnRange
<1>2. PICK q \in Nat : q = Len(h)
  BY OwnRange
<1>3. PICK n \in Nat : n = p + q /\ n = q + p
  OBVIOUS
<1>4. PICK e : IsTree(e, g, n)
  BY TreesExist
<1>5. PICK f : IsTree(f, h, n)
  BY TreesExist
<1>6. MerkleRoot(g) = MerkleRoot(h) => e[n] = f[n]
  <2>1. e[n] = RootRow(g)
    <3>1. Len(g) <= n /\ n \in Nat
      BY <1>1, <1>3
    <3>2. IsTree(e, g, n)
      BY <1>4
    <3> QED
      BY <3>1, <3>2, TopStays
  <2>2. f[n] = RootRow(h)
    <3>1. Len(h) <= n /\ n \in Nat
      BY <1>2, <1>3
    <3>2. IsTree(f, h, n)
      BY <1>5
    <3> QED
      BY <3>1, <3>2, TopStays
  <2> QED
    BY <2>1, <2>2 DEF RootRow
<1> SUFFICES ASSUME e[n] = f[n] PROVE g = h
  BY <1>6
<1> DEFINE S == {k \in 0..n : e[k] = f[k]}
<1>7. \A k \in 0..(n - 1) : e[k + 1] = NextLevel(e[k]) /\ f[k + 1] = NextLevel(f[k])
  <2>1. \A k \in 0..(n - 1) : e[k + 1] = NextLevel(e[k])
    BY <1>4, TreeSteps
  <2>2. \A k \in 0..(n - 1) : f[k + 1] = NextLevel(f[k])
    BY <1>5, TreeSteps
  <2> QED
    BY <2>1, <2>2
<1>8. ASSUME NEW k \in 0..n, k \in S, k > 0 PROVE k - 1 \in S
  <2>1. PICK l : l = k - 1
    OBVIOUS
  <2>2. l \in 0..(n - 1) /\ l \in 0..n /\ l \in Nat /\ l + 1 = k
    BY <1>8, <2>1
  <2>3. PICK s : Full(e[l], s, l)
    BY <1>4, <2>2, TreeIsFull
  <2>4. PICK t : Full(f[l], t, l)
    BY <1>5, <2>2, TreeIsFull
  <2>5. NextLevel(e[l]) = NextLevel(f[l])
    BY <1>7, <1>8, <2>2
  <2>6. e[l] = f[l]
    BY <2>2, <2>3, <2>4, <2>5, KnownFromAbove
  <2> QED
    BY <2>1, <2>2, <2>6
<1>9. e[0] = f[0]
  <2>1. n \in S
    OBVIOUS
  <2>2. \A k \in 0..n : k \in S
    <3> HIDE DEF S
    <3> QED
      BY <1>8, <2>1, Downwards
  <2>3. 0 \in S
    BY <2>2
  <2> QED
    BY <2>3
<1>10. Leaves(g) = Leaves(h)
  <2>1. e[0] = Leaves(g)
    BY <1>4, TreeSteps
  <2>2. f[0] = Leaves(h)
    BY <1>5, TreeSteps
  <2> QED
    BY <1>9, <2>1, <2>2
<1>11. p = q
  <2>1. IsRow(Leaves(g), p)
    BY <1>1, LeafRow
  <2>2. IsRow(Leaves(h), q)
    BY <1>2, LeafRow
  <2>3. Len(Leaves(g)) = p
    BY <2>1, NextRow
  <2>4. Len(Leaves(h)) = q
    BY <2>2, NextRow
  <2> QED
    BY <1>10, <2>3, <2>4
<1>12. ASSUME NEW i \in 1..p PROVE g[i] = h[i]
  <2>1. Leaves(g)[i] = LeafDigest(g[i])
    BY <1>1, LeafRow
  <2>2. Leaves(h)[i] = LeafDigest(h[i])
    BY <1>2, <1>11, LeafRow
  <2>3. LeafDigest(g[i]) = LeafDigest(h[i])
    BY <1>10, <2>1, <2>2
  <2> QED
    BY <2>3, Digests
<1> QED
  <2>1. g \in [1..p -> T] /\ h \in [1..p -> T]
    BY <1>1, <1>2, <1>11, LenProperties
  <2> QED
    BY <1>12, <2>1

\* For batches of every length: a witness proves the inclusion of its own leaf
\* and of no other, and no two batches share a root, although an odd node is
\* promoted unchanged (MerkleRoot, MerkleProof, VerifyMerkleProof).
THEOREM MerkleIsExact == \A size \in Nat : MerkleSound(size)
<1> SUFFICES ASSUME NEW size \in Nat PROVE MerkleSound(size)
  OBVIOUS
<1>1. ASSUME NEW n \in 1..size, NEW hashes, hashes = [i \in 1..n |-> i], NEW i \in 1..n, NEW j \in 1..n
      PROVE  VerifyMerkleProof(j, MerkleRoot(hashes), MerkleProof(hashes, i - 1)) <=> i = j
  <2>1. n \in Nat /\ hashes = [x \in 1..n |-> hashes[x]]
    BY <1>1
  <2>2. hashes \in Seq(Range(hashes)) /\ Len(hashes) = n
    BY <2>1, Sequence
  <2>3. i \in 1..Len(hashes) /\ hashes[i] = i
    BY <1>1, <2>2
  <2>4. VerifyMerkleProof(j, MerkleRoot(hashes), MerkleProof(hashes, i - 1)) <=> j = hashes[i]
    BY <2>2, <2>3, WitnessIsExact
  <2> QED
    BY <2>3, <2>4
<1> DEFINE Batches == UNION {[1..n -> 1..2] : n \in 1..size}
<1>2. ASSUME NEW s \in Batches, NEW t \in Batches, MerkleRoot(s) = MerkleRoot(t) PROVE s = t
  <2>1. ASSUME NEW u \in Batches PROVE u \in Seq(1..2) /\ u # <<>>
    <3>1. PICK n \in 1..size : u \in [1..n -> 1..2]
      OBVIOUS
    <3>2. n \in Nat /\ n # 0 /\ u = [i \in 1..n |-> u[i]]
      BY <3>1
    <3>3. u # <<>>
      BY <3>2, Sequence
    <3>4. u \in Seq(1..2)
      BY <3>1, <3>2, SeqDef
    <3> QED
      BY <3>3, <3>4
  <2> HIDE DEF Batches
  <2>2. s \in Seq(1..2) /\ t \in Seq(1..2) /\ s # <<>> /\ t # <<>>
    BY <2>1
  <2> QED
    BY <1>2, <2>2, RootIsExact
<1> QED
  BY <1>1, <1>2 DEF MerkleSound

-----------------------------------------------------------------------------
(* The audit ledger.                                                       *)

Kinds == {"evidence", "approval", "lineage", "transition"}

\* The row that a writer who holds the lock would insert now.
Built(w) ==
  LET a == appends[w]  id == AuditID(a.key) IN
  IF a.kind = "transition"
  THEN SignEvent(NewEvent(id, AllocateNextTenantSeq, a.body, GetLatestSignedEnterpriseAuditHash, a.key), a.key)
  ELSE NewEvent(id, 0, a.body, GetLatestEnterpriseAuditHash, a.key)

\* A row says of itself what it was built of, and links to the row before it:
\* of all rows if it is unsigned, of the signed ones if it is signed.
RowKnows(i) ==
  LET r == rows[i] IN
  /\ r.seq \in 0..i /\ r.body \in Bodies /\ r.tenant = Tenant /\ r.hash = EventHash(r)
  /\ r.key \in RequestKeys => r.id = <<"keyed", r.key>>
  /\ r.key \notin RequestKeys => \E n \in 1..MaxAppends : r.id = <<"random", n>>
  /\ r.seq = 0 => ~r.late /\ r.prev = IF i = 1 THEN Nil ELSE rows[i - 1].hash
  /\ r.seq > 0 =>
       /\ \E k \in registered : r.signature = Signature(k, Canonical(r))
       /\ r.late => r.signature.key \in revoked
       /\ ValidateCapability(r.body)
       /\ r.seq = 1 => r.prev = Nil
       /\ \A j \in SignedRows : rows[j].seq + 1 = r.seq => r.prev = rows[j].hash

\* The signed rows have the numbers up to k.
Sequenced(k) ==
  /\ \A i \in SignedRows : rows[i].seq \in 1..k
  /\ \A n \in 1..k : \E i \in SignedRows : rows[i].seq = n

RowsInv ==
  /\ rows \in Seq(Range(rows))
  /\ \A i \in DOMAIN rows : RowKnows(i)
  /\ \A i, j \in DOMAIN rows : rows[i].id = rows[j].id => i = j
  /\ \A i, j \in SignedRows : i < j => rows[i].seq < rows[j].seq
  /\ \E k \in 0..Len(rows) : Sequenced(k)

AppendTypes(a) ==
  a \in [pc : {"locked", "insert", "answered"}, kind : Kinds, key : RequestKeys \cup Signers \cup {NoKey},
         body : Bodies, event : {a.event}]

\* What a writer knows at each of its steps.
AppendKnows(w) ==
  LET a == appends[w] IN
  a # Quiet =>
    /\ AppendTypes(a)
    /\ a.kind = "transition" => a.key \in registered /\ ValidateCapability(a.body)
    /\ a.kind # "transition" => a.key \in RequestKeys \cup {NoKey}
    /\ a.kind \in {"approval", "lineage"} => a.key = NoKey
    /\ a.pc \in {"locked", "insert"} => auditLock = w /\ issued < MaxAppends
    /\ a.pc = "insert" => a.event = Built(w)
    /\ a.pc = "answered" /\ a.key \in RequestKeys /\ ~lost =>
         \E i \in DOMAIN rows : rows[i].key = a.key /\ rows[i].body = a.body

\* No more than the chain has, unless rows were lost.
Covered(n) == n \in 0..MaxAppends /\ (~lost => n <= Cardinality(SignedRows))

\* A chain that was read: whole, and with every late row's key revoked.
Snapshot(chain) ==
  /\ chain \in Seq(Range(chain)) /\ chain # <<>> /\ Covered(Len(chain)) /\ Last(chain).seq = Len(chain)
  /\ \A n \in DOMAIN chain : chain[n].late => chain[n].signature.key \in revoked

\* What an operator's command knows at each of its steps.
ExportKnows(o) ==
  LET x == exports[o] IN
  /\ x.pc \in {"rest", "keys", "package", "compare", "verdict"}
  /\ x.pc = "keys" => Snapshot(x.events)
  /\ x.pc = "package" =>
       \A n \in DOMAIN x.package.events : x.package.events[n].late =>
         \E y \in x.package.keys : y.id = x.package.events[n].signature.key /\ y.revoked
  /\ x.pc = "compare" => Covered(x.root.last) /\ \A r \in x.all : r.last \in Nat /\ r.last <= x.root.last
  /\ x.pc = "verdict" => IF x.truncated THEN lost ELSE \A r \in x.all : r.last <= Len(x.chain)

AuditTypes ==
  /\ issued \in 0..MaxAppends /\ Len(rows) <= issued /\ lost \in BOOLEAN
  /\ revoked \subseteq registered /\ registered \subseteq Signers /\ auditLock \in Writers \cup {Nil}
  /\ DOMAIN appends = Writers /\ DOMAIN exports = Operators /\ roots \in Seq(Range(roots))

AuditInv ==
  /\ AuditTypes /\ RowsInv
  /\ \A w \in Writers : AppendKnows(w)
  /\ \A i \in DOMAIN roots : Covered(roots[i].last)
  /\ \A o \in Operators : ExportKnows(o)

\* Rows that have every number of 1..m once are m.
LEMMA Numbered ==
  ASSUME NEW m \in Nat, NEW S, \A i \in S : rows[i].seq \in 1..m, \A n \in 1..m : \E i \in S : rows[i].seq = n,
         \A i, j \in S : rows[i].seq = rows[j].seq => i = j
  PROVE  Cardinality(S) = m
<1> DEFINE f == [n \in 1..m |-> CHOOSE i \in S : rows[i].seq = n]
<1>1. \A n \in 1..m : f[n] \in S /\ rows[f[n]].seq = n
  OBVIOUS
<1>2. f \in Bijection(1..m, S)
  <2>1. f \in [1..m -> S]
    BY <1>1
  <2> HIDE DEF f
  <2>2. \A a, b \in 1..m : f[a] = f[b] => a = b
    BY <1>1
  <2>3. \A i \in S : \E n \in 1..m : f[n] = i
    <3>1. SUFFICES ASSUME NEW i \in S PROVE f[rows[i].seq] = i
      OBVIOUS
    <3>2. f[rows[i].seq] \in S /\ rows[f[rows[i].seq]].seq = rows[i].seq
      BY <1>1
    <3> QED
      BY <3>2
  <2> QED
    BY <2>1, <2>2, <2>3 DEF Bijection, Injection, Surjection, IsInjective
<1> QED
  BY <1>2, FS_CountingElements DEF ExistsBijection

\* The chain that is listed has the row numbered n at n, and the next number
\* and the head are those of its end.
LEMMA Chained ==
  ASSUME RowsInv, NEW k \in 0..Len(rows), Sequenced(k), NEW chain, chain = ListSignedAuditEventsForTenant
  PROVE  /\ Cardinality(SignedRows) = k
         /\ chain \in Seq(Range(chain)) /\ Len(chain) = k /\ DOMAIN chain = 1..k /\ (chain = <<>> <=> k = 0)
         /\ \A n \in 1..k : \E i \in SignedRows : rows[i].seq = n /\ chain[n] = rows[i]
         /\ AllocateNextTenantSeq = k + 1
         /\ GetLatestSignedEnterpriseAuditHash = IF k = 0 THEN Nil ELSE chain[k].hash
<1>0. k \in Nat /\ Len(rows) \in Nat /\ DOMAIN rows = 1..Len(rows)
  BY OwnRange DEF RowsInv
<1>1. SignedRows \subseteq Nat
  BY <1>0 DEF SignedRows
<1>2. \A i, j \in SignedRows : rows[i].seq = rows[j].seq => i = j
  <2>1. SUFFICES ASSUME NEW i \in SignedRows, NEW j \in SignedRows, rows[i].seq = rows[j].seq PROVE i = j
    OBVIOUS
  <2>2. i \in Nat /\ j \in Nat /\ rows[i].seq \in Nat /\ (i < j => rows[i].seq < rows[j].seq) /\ (j < i => rows[j].seq < rows[i].seq)
    BY <1>1 DEF RowsInv, Sequenced
  <2> QED
    BY <2>1, <2>2
<1>3. Cardinality(SignedRows) = k
  BY <1>0, <1>2, Numbered DEF Sequenced
<1>4. \A i \in SignedRows : Cardinality(SignedBefore(i)) = rows[i].seq - 1
  <2>1. SUFFICES ASSUME NEW i \in SignedRows PROVE Cardinality(SignedBefore(i)) = rows[i].seq - 1
    OBVIOUS
  <2>2. rows[i].seq \in 1..k /\ rows[i].seq - 1 \in Nat
    BY <1>0 DEF Sequenced
  <2>3. \A j \in SignedBefore(i) : j \in SignedRows /\ rows[j].seq \in 1..(rows[i].seq - 1)
    BY <2>2 DEF SignedBefore, Sequenced
  <2>4. \A n \in 1..(rows[i].seq - 1) : \E j \in SignedBefore(i) : rows[j].seq = n
    BY <1>0, <2>2 DEF SignedBefore, Sequenced
  <2>5. \A a, b \in SignedBefore(i) : rows[a].seq = rows[b].seq => a = b
    BY <1>2 DEF SignedBefore
  <2>6. PICK m \in Nat : m = rows[i].seq - 1
    BY <2>2
  <2>7. \A j \in SignedBefore(i) : rows[j].seq \in 1..m
    BY <2>3, <2>6
  <2>8. \A n \in 1..m : \E j \in SignedBefore(i) : rows[j].seq = n
    BY <2>4, <2>6
  <2>9. Cardinality(SignedBefore(i)) = m
    <3> HIDE DEF SignedBefore
    <3> QED
      BY <2>5, <2>7, <2>8, Numbered
  <2> QED
    BY <2>6, <2>9
<1>5. chain = [n \in 1..k |-> chain[n]]
  BY <1>3 DEF ListSignedAuditEventsForTenant
<1>6. chain \in Seq(Range(chain)) /\ Len(chain) = k /\ DOMAIN chain = 1..k /\ (chain = <<>> <=> k = 0)
  BY <1>0, <1>5, Sequence
<1>7. \A n \in 1..k : \E i \in SignedRows : rows[i].seq = n /\ chain[n] = rows[i]
  <2>1. SUFFICES ASSUME NEW n \in 1..k PROVE \E i \in SignedRows : rows[i].seq = n /\ chain[n] = rows[i]
    OBVIOUS
  <2> DEFINE j == CHOOSE i \in SignedRows : Cardinality(SignedBefore(i)) = n - 1
  <2>2. chain[n] = rows[j]
    BY <1>3 DEF ListSignedAuditEventsForTenant
  <2>3. PICK i \in SignedRows : rows[i].seq = n
    BY DEF Sequenced
  <2>4. Cardinality(SignedBefore(i)) = n - 1
    BY <1>4, <2>3
  <2>5. j \in SignedRows /\ Cardinality(SignedBefore(j)) = n - 1
    BY <2>4
  <2> HIDE DEF j
  <2>6. rows[j].seq - 1 = n - 1 /\ rows[j].seq \in 1..k
    BY <1>4, <2>5 DEF Sequenced
  <2>7. rows[j].seq = n
    BY <1>0, <2>6
  <2> QED
    BY <2>2, <2>5, <2>7
<1>8. AllocateNextTenantSeq = k + 1
  <2> DEFINE N == {0} \cup {rows[i].seq : i \in DOMAIN rows}
  <2>1. \A n \in N : n \in 0..k
    <3>1. \A i \in DOMAIN rows : rows[i].seq \in 0..k
      <4>1. SUFFICES ASSUME NEW i \in DOMAIN rows PROVE rows[i].seq \in 0..k
        OBVIOUS
      <4>2. rows[i].seq \in 0..i /\ i \in Nat
        BY <1>0 DEF RowsInv, RowKnows
      <4>3. rows[i].seq > 0 => rows[i].seq \in 1..k
        BY DEF SignedRows, Sequenced
      <4> QED
        BY <1>0, <4>2, <4>3
    <3> QED
      BY <1>0, <3>1
  <2>2. k \in N
    <3>1. CASE k = 0
      BY <3>1
    <3>2. CASE k # 0
      <4>1. \E i \in SignedRows : rows[i].seq = k
        BY <1>0, <3>2 DEF Sequenced
      <4> QED
        BY <4>1 DEF SignedRows
    <3> QED
      BY <3>1, <3>2
  <2> HIDE DEF N
  <2>3. Max(N) = k
    <3>1. \A y \in N : k >= y
      BY <1>0, <2>1
    <3>2. \A x \in N : (\A y \in N : x >= y) => x = k
      BY <1>0, <2>1, <2>2
    <3> QED
      BY <2>2, <3>1, <3>2 DEF Max
  <2> QED
    BY <2>3 DEF AllocateNextTenantSeq, N
<1>9. GetLatestSignedEnterpriseAuditHash = IF k = 0 THEN Nil ELSE chain[k].hash
  BY <1>6 DEF GetLatestSignedEnterpriseAuditHash, Last
<1> QED
  BY <1>3, <1>6, <1>7, <1>8, <1>9

\* Rows stay true while keys are registered and revoked.
LEMMA RowsKept ==
  ASSUME RowsInv, rows' = rows, registered \subseteq registered', revoked \subseteq revoked'
  PROVE  RowsInv' /\ SignedRows' = SignedRows
<1>1. SignedRows' = SignedRows
  BY DEF SignedRows
<1>2. \A i \in DOMAIN rows : RowKnows(i)'
  <2>1. SUFFICES ASSUME NEW i \in DOMAIN rows PROVE RowKnows(i)'
    OBVIOUS
  <2>2. RowKnows(i)
    BY DEF RowsInv
  <2> QED
    BY <1>1, <2>2 DEF RowKnows
<1>3. \E k \in 0..Len(rows') : Sequenced(k)'
  BY <1>1 DEF RowsInv, Sequenced
<1> QED
  BY <1>1, <1>2, <1>3 DEF RowsInv

\* What is covered stays covered while the rows are there.
LEMMA CoveredKept ==
  ASSUME rows' = rows, lost => lost'
  PROVE  \A n : Covered(n) => Covered(n)'
<1>1. SignedRows' = SignedRows
  BY DEF SignedRows
<1> QED
  BY <1>1 DEF Covered

\* The row to insert depends on the rows and the request only.
LEMMA BuiltKept ==
  ASSUME NEW w, rows' = rows, issued' = issued, appends'[w].kind = appends[w].kind,
         appends'[w].key = appends[w].key, appends'[w].body = appends[w].body
  PROVE  Built(w)' = Built(w)
<1>1. AllocateNextTenantSeq' = AllocateNextTenantSeq /\ GetLatestEnterpriseAuditHash' = GetLatestEnterpriseAuditHash
  BY DEF AllocateNextTenantSeq, GetLatestEnterpriseAuditHash
<1> DEFINE Signed(r) == {i \in DOMAIN r : r[i].seq > 0}
           Listed(r) == [n \in 1..Cardinality(Signed(r)) |->
                           r[CHOOSE i \in Signed(r) : Cardinality({j \in Signed(r) : r[j].seq < r[i].seq}) = n - 1]]
<1>2. ListSignedAuditEventsForTenant = Listed(rows) /\ ListSignedAuditEventsForTenant' = Listed(rows')
  BY DEF ListSignedAuditEventsForTenant, SignedRows, SignedBefore
<1>3. ListSignedAuditEventsForTenant' = ListSignedAuditEventsForTenant
  <2> HIDE DEF Listed
  <2> QED
    BY <1>2
<1>4. GetLatestSignedEnterpriseAuditHash' = GetLatestSignedEnterpriseAuditHash
  BY <1>3 DEF GetLatestSignedEnterpriseAuditHash
<1>5. AuditID(appends[w].key)' = AuditID(appends[w].key)
  BY DEF AuditID
<1> QED
  BY <1>1, <1>4, <1>5 DEF Built

\* A writer that another one overtakes does not hold the lock; its answer stays true.
LEMMA AppendKept ==
  ASSUME NEW w \in Writers, AppendKnows(w), appends'[w] = appends[w],
         registered \subseteq registered', lost => lost', auditLock = w => auditLock' = w,
         \/ rows' = rows /\ issued' = issued
         \/ /\ auditLock # w
            /\ ~lost' => \A i \in DOMAIN rows : i \in DOMAIN rows' /\ rows'[i] = rows[i]
  PROVE  AppendKnows(w)'
<1> DEFINE a == appends[w]
<1> SUFFICES ASSUME a # Quiet PROVE AppendKnows(w)'
  BY DEF AppendKnows
<1>1. AppendTypes(a) /\ (AppendTypes(a))'
  BY DEF AppendKnows, AppendTypes
<1>2. /\ a.kind = "transition" => a.key \in registered' /\ ValidateCapability(a.body)
      /\ a.kind # "transition" => a.key \in RequestKeys \cup {NoKey}
      /\ a.kind \in {"approval", "lineage"} => a.key = NoKey
  BY DEF AppendKnows
<1>3. a.pc \in {"locked", "insert"} => auditLock' = w /\ issued' < MaxAppends
  BY DEF AppendKnows
<1>4. a.pc = "insert" => a.event = Built(w)'
  <2>1. SUFFICES ASSUME a.pc = "insert" PROVE a.event = Built(w)'
    OBVIOUS
  <2>2. rows' = rows /\ issued' = issued /\ a.event = Built(w)
    BY <2>1 DEF AppendKnows
  <2>3. Built(w)' = Built(w)
    BY <2>2, BuiltKept
  <2> QED
    BY <2>2, <2>3
<1>5. a.pc = "answered" /\ a.key \in RequestKeys /\ ~lost' =>
        \E i \in DOMAIN rows' : rows'[i].key = a.key /\ rows'[i].body = a.body
  BY DEF AppendKnows
<1> QED
  BY <1>1, <1>2, <1>3, <1>4, <1>5 DEF AppendKnows

\* What a command has read stays read.
LEMMA ExportKept ==
  ASSUME NEW o \in Operators, ExportKnows(o), exports'[o] = exports[o],
         revoked \subseteq revoked', lost => lost', \A n : Covered(n) => Covered(n)'
  PROVE  ExportKnows(o)'
BY DEF ExportKnows, Snapshot

\* A step of a writer that leaves the rows alone.
LEMMA WriterInv ==
  ASSUME AuditInv, NEW w \in Writers, UNCHANGED <<rows, registered, revoked, roots, exports, issued, lost>>,
         appends' = [appends EXCEPT ![w] = appends'[w]],
         auditLock' \in Writers \cup {Nil}, \A v \in Writers \ {w} : auditLock = v => auditLock' = v,
         AppendKnows(w)'
  PROVE  AuditInv'
<1>1. AuditTypes'
  BY DEF AuditInv, AuditTypes
<1>2. RowsInv'
  BY RowsKept DEF AuditInv
<1>3. \A n : Covered(n) => Covered(n)'
  BY CoveredKept
<1>4. \A v \in Writers : AppendKnows(v)'
  <2>1. SUFFICES ASSUME NEW v \in Writers \ {w} PROVE AppendKnows(v)'
    OBVIOUS
  <2>2. AppendKnows(v) /\ appends'[v] = appends[v]
    BY DEF AuditInv, AuditTypes
  <2> QED
    BY <2>2, AppendKept
<1>5. \A o \in Operators : ExportKnows(o)'
  BY <1>3, ExportKept DEF AuditInv
<1> QED
  BY <1>1, <1>2, <1>3, <1>4, <1>5 DEF AuditInv

\* A step of an operator's command.
LEMMA OperatorInv ==
  ASSUME AuditInv, NEW o \in Operators, UNCHANGED <<rows, auditLock, appends, revoked, issued, lost>>,
         registered \subseteq registered', registered' \subseteq Signers,
         exports' = [exports EXCEPT ![o] = exports'[o]], ExportKnows(o)',
         roots' \in Seq(Range(roots')), \A i \in DOMAIN roots' : Covered(roots'[i].last)
  PROVE  AuditInv'
<1>1. AuditTypes'
  BY DEF AuditInv, AuditTypes
<1>2. RowsInv'
  BY RowsKept DEF AuditInv
<1>3. \A n : Covered(n) => Covered(n)'
  BY CoveredKept
<1>4. \A v \in Writers : AppendKnows(v)'
  BY AppendKept DEF AuditInv
<1>5. \A x \in Operators : ExportKnows(x)'
  <2>1. SUFFICES ASSUME NEW x \in Operators \ {o} PROVE ExportKnows(x)'
    OBVIOUS
  <2>2. ExportKnows(x) /\ exports'[x] = exports[x]
    BY DEF AuditInv, AuditTypes
  <2> QED
    BY <1>3, <2>2, ExportKept
<1> QED
  BY <1>1, <1>2, <1>3, <1>4, <1>5 DEF AuditInv

\* A request takes the lock.
LEMMA BeginInv ==
  ASSUME AuditInv, NEW w \in Writers, NEW kind \in Kinds, NEW key \in RequestKeys \cup Signers \cup {NoKey},
         NEW body \in Bodies, Begin(w, kind, key, body),
         kind = "transition" => key \in registered /\ ValidateCapability(body),
         kind # "transition" => key \in RequestKeys \cup {NoKey},
         kind \in {"approval", "lineage"} => key = NoKey
  PROVE  AuditInv'
<1>1. appends' = [appends EXCEPT ![w] = appends'[w]] /\ DOMAIN appends = Writers
  BY DEF Begin, AuditInv, AuditTypes
<1>2. appends'[w] = [pc |-> "locked", kind |-> kind, key |-> key, body |-> body, event |-> Nil]
  BY <1>1 DEF Begin
<1>3. AppendKnows(w)'
  <2>1. AppendTypes(appends[w])'
    BY <1>2 DEF AppendTypes
  <2> QED
    BY <1>2, <2>1 DEF AppendKnows, Begin, AcquireEnterpriseAuditLock, keyVars
<1>4. auditLock' \in Writers \cup {Nil} /\ \A v \in Writers \ {w} : auditLock = v => auditLock' = v
  BY AuditAssumption DEF Begin, AcquireEnterpriseAuditLock
<1> QED
  BY <1>1, <1>3, <1>4, WriterInv DEF Begin, keyVars

\* A writer that ends or is answered releases the lock if it has it.
LEMMA Released ==
  ASSUME AuditInv, NEW w \in Writers, Release(w)
  PROVE  auditLock' \in Writers \cup {Nil} /\ \A v \in Writers \ {w} : auditLock = v => auditLock' = v
BY DEF Release, AuditInv, AuditTypes

\* A request that ends leaves the lock free and knows nothing.
LEMMA EndAppendInv ==
  ASSUME AuditInv, NEW w \in Writers, EndAppend(w)
  PROVE  AuditInv'
<1>1. appends' = [appends EXCEPT ![w] = appends'[w]] /\ appends'[w] = Quiet
  BY DEF EndAppend, AuditInv, AuditTypes
<1>2. AppendKnows(w)'
  BY <1>1 DEF AppendKnows
<1> QED
  BY <1>1, <1>2, Released, WriterInv DEF EndAppend, keyVars

\* The row of the key is there; the request is answered from it.
LEMMA AnswerFromRowInv ==
  ASSUME AuditInv, NEW w \in Writers, AnswerFromRow(w)
  PROVE  AuditInv'
<1> DEFINE a == appends[w]  same == GetAuditEventByID(AuditID(a.key))
<1>1. appends' = [appends EXCEPT ![w] = appends'[w]] /\ DOMAIN appends = Writers
  BY DEF AnswerFromRow, AuditInv, AuditTypes
<1>2. appends'[w] = IF \E i \in same : rows[i].body = a.body THEN [a EXCEPT !.pc = "answered"] ELSE Quiet
  BY <1>1 DEF AnswerFromRow
<1>3. AppendKnows(w) /\ a # Quiet /\ a.kind = "evidence" /\ a.key \in RequestKeys
  BY DEF AuditInv, AnswerFromRow, Quiet
<1>4. \A i \in same : i \in DOMAIN rows /\ rows[i].key = a.key
  <2>1. SUFFICES ASSUME NEW i \in same PROVE i \in DOMAIN rows /\ rows[i].key = a.key
    OBVIOUS
  <2>2. i \in DOMAIN rows /\ rows[i].id = <<"keyed", a.key>>
    BY <1>3 DEF GetAuditEventByID, AuditID
  <2>3. RowKnows(i)
    BY <2>2 DEF AuditInv, RowsInv
  <2>4. rows[i].key \in RequestKeys
    <3>1. SUFFICES ASSUME NEW n \in 1..MaxAppends PROVE rows[i].id # <<"random", n>>
      BY <2>3 DEF RowKnows
    <3> QED
      BY <2>2
  <2> QED
    BY <2>2, <2>3, <2>4 DEF RowKnows
<1>5. AppendKnows(w)'
  <2>1. CASE \E i \in same : rows[i].body = a.body
    <3>1. appends'[w] = [a EXCEPT !.pc = "answered"]
      BY <1>2, <2>1
    <3>2. AppendTypes(a) /\ a.kind = "evidence"
      BY <1>3 DEF AppendKnows
    <3>3. /\ appends'[w].pc = "answered" /\ appends'[w].kind = a.kind /\ appends'[w].key = a.key
          /\ appends'[w].body = a.body
      BY <3>1, <3>2 DEF AppendTypes
    <3>4. AppendTypes(appends[w])'
      BY <3>1, <3>2 DEF AppendTypes
    <3>5. \E i \in DOMAIN rows' : rows'[i].key = a.key /\ rows'[i].body = a.body
      BY <1>4, <2>1 DEF AnswerFromRow
    <3> QED
      BY <1>3, <3>3, <3>4, <3>5 DEF AppendKnows
  <2>2. CASE ~\E i \in same : rows[i].body = a.body
    BY <1>2, <2>2 DEF AppendKnows
  <2> QED
    BY <2>1, <2>2
<1> QED
  BY <1>1, <1>5, Released, WriterInv DEF AnswerFromRow, keyVars

\* The writer that has the lock builds the row it will insert.
LEMMA ChainInv ==
  ASSUME AuditInv, NEW w \in Writers, Chain(w)
  PROVE  AuditInv'
<1> DEFINE a == appends[w]
<1>1. appends' = [appends EXCEPT ![w] = appends'[w]] /\ DOMAIN appends = Writers
  BY DEF Chain, AuditInv, AuditTypes
<1>2. AppendKnows(w) /\ a # Quiet /\ a.pc = "locked" /\ AppendTypes(a)
  BY DEF AuditInv, Chain, Quiet, AppendKnows
<1>3. appends'[w] = [a EXCEPT !.pc = "insert", !.event = Built(w)]
  BY <1>1 DEF Chain, Built
<1>4. /\ appends'[w].pc = "insert" /\ appends'[w].kind = a.kind /\ appends'[w].key = a.key
      /\ appends'[w].body = a.body /\ appends'[w].event = Built(w)
  BY <1>2, <1>3 DEF AppendTypes
<1>5. AppendTypes(appends[w])'
  BY <1>2, <1>3 DEF AppendTypes
<1>6. UNCHANGED <<rows, issued, auditLock, registered, revoked, roots, exports, lost>>
  BY DEF Chain, keyVars
<1>7. Built(w)' = Built(w)
  BY <1>4, <1>6, BuiltKept
<1>8. AppendKnows(w)'
  BY <1>2, <1>4, <1>5, <1>6, <1>7 DEF AppendKnows
<1>9. auditLock' \in Writers \cup {Nil}
  BY <1>6 DEF AuditInv, AuditTypes
<1> QED
  BY <1>1, <1>6, <1>8, <1>9, WriterInv

\* A key is registered by a process that starts, or revoked.
LEMMA KeysInv ==
  ASSUME AuditInv, UNCHANGED <<rows, auditLock, appends, roots, exports, issued, lost>>,
         registered \subseteq registered', registered' \subseteq Signers,
         revoked \subseteq revoked', revoked' \subseteq registered'
  PROVE  AuditInv'
<1>1. AuditTypes'
  BY DEF AuditInv, AuditTypes
<1>2. RowsInv'
  BY RowsKept DEF AuditInv
<1>3. \A n : Covered(n) => Covered(n)'
  BY CoveredKept
<1>4. \A v \in Writers : AppendKnows(v)'
  BY AppendKept DEF AuditInv
<1>5. \A o \in Operators : ExportKnows(o)'
  BY <1>3, ExportKept DEF AuditInv
<1> QED
  BY <1>1, <1>2, <1>3, <1>4, <1>5 DEF AuditInv

\* What is left of the rows is still a ledger.
LEMMA LostTailRows ==
  ASSUME RowsInv, rows # <<>>, rows' = Front(rows), UNCHANGED keyVars
  PROVE  RowsInv' /\ Len(rows') <= Len(rows)
<1> DEFINE n == Len(rows)
<1>1. n \in Nat \ {0} /\ DOMAIN rows = 1..n
  BY OwnRange DEF RowsInv
<1>2. rows' = [i \in 1..(n - 1) |-> rows[i]]
  BY <1>1 DEF Front, SubSeq
<1>3. PICK m \in Nat : m = n - 1
  <2>1. n - 1 \in Nat
    BY <1>1
  <2> QED
    BY <2>1
<1> HIDE DEF n
<1>4. rows' = [i \in 1..m |-> rows'[i]] /\ \A i \in 1..m : rows'[i] = rows[i]
  BY <1>2, <1>3
<1>5. rows' \in Seq(Range(rows')) /\ Len(rows') = m /\ DOMAIN rows' = 1..m
  BY <1>3, <1>4, Sequence
<1>6. SignedRows' = SignedRows \ {n}
  BY <1>1, <1>3, <1>4, <1>5 DEF SignedRows
<1>7. \A i \in DOMAIN rows' : RowKnows(i)'
  <2>1. SUFFICES ASSUME NEW i \in 1..m PROVE RowKnows(i)'
    BY <1>5
  <2>2. RowKnows(i) /\ rows'[i] = rows[i] /\ (i # 1 => rows'[i - 1] = rows[i - 1])
    BY <1>1, <1>3, <1>4 DEF RowsInv
  <2>3. \A j \in SignedRows' : j \in SignedRows /\ rows'[j] = rows[j]
    BY <1>1, <1>3, <1>4, <1>6 DEF SignedRows
  <2> QED
    BY <2>2, <2>3 DEF RowKnows, keyVars
<1>8. \A i, j \in DOMAIN rows' : rows'[i].id = rows'[j].id => i = j
  BY <1>1, <1>3, <1>4, <1>5 DEF RowsInv
<1>9. \A i \in SignedRows' : i \in SignedRows /\ i \in 1..m /\ rows'[i] = rows[i]
  BY <1>1, <1>3, <1>4, <1>6 DEF SignedRows
<1>10. \A i, j \in SignedRows' : i < j => rows'[i].seq < rows'[j].seq
  BY <1>9 DEF RowsInv
<1>11. \E k \in 0..m : Sequenced(k)'
  <2>1. PICK k \in 0..n : Sequenced(k)
    BY DEF RowsInv, n
  <2>2. CASE n \in SignedRows
    <3>1. \A i \in SignedRows' : rows[i].seq < rows[n].seq
      BY <1>1, <1>3, <1>9, <2>2 DEF RowsInv
    <3>2. k # 0 /\ rows[n].seq \in 1..k
      BY <1>1, <2>1, <2>2 DEF Sequenced
    <3>3. rows[n].seq = k
      <4>1. PICK i \in SignedRows : rows[i].seq = k
        BY <1>1, <2>1, <3>2 DEF Sequenced
      <4>2. i \in SignedRows' => FALSE
        <5>1. SUFFICES ASSUME i \in SignedRows' PROVE FALSE
          OBVIOUS
        <5> QED
          BY <1>1, <3>1, <3>2, <4>1, <5>1
      <4> QED
        BY <1>6, <4>1, <4>2
    <3>4. k - 1 \in 0..m
      BY <1>1, <1>3, <3>2
    <3>5. \A i \in SignedRows' : rows'[i].seq \in 1..(k - 1)
      <4>1. SUFFICES ASSUME NEW i \in SignedRows' PROVE rows'[i].seq \in 1..(k - 1)
        OBVIOUS
      <4>2. rows[i].seq \in 1..k /\ rows[i].seq < k /\ rows'[i] = rows[i]
        BY <1>9, <2>1, <3>1, <3>3 DEF Sequenced
      <4> QED
        BY <1>1, <4>2
    <3>6. \A x \in 1..(k - 1) : \E i \in SignedRows' : rows'[i].seq = x
      <4>1. SUFFICES ASSUME NEW x \in 1..(k - 1) PROVE \E i \in SignedRows' : rows'[i].seq = x
        OBVIOUS
      <4>2. x \in 1..k /\ x # k
        BY <1>1, <3>2
      <4>3. PICK i \in SignedRows : rows[i].seq = x
        BY <2>1, <4>2 DEF Sequenced
      <4>4. i # n
        BY <3>3, <4>2, <4>3
      <4> QED
        BY <1>6, <1>9, <4>3, <4>4
    <3> QED
      BY <3>4, <3>5, <3>6 DEF Sequenced
  <2>3. CASE n \notin SignedRows
    <3>1. SignedRows' = SignedRows
      BY <1>6, <2>3
    <3>2. k \in 0..m
      <4>1. CASE k = 0
        BY <1>3, <4>1
      <4>2. CASE k # 0
        <5>1. PICK i \in SignedRows : rows[i].seq = k
          BY <1>1, <2>1, <4>2 DEF Sequenced
        <5>2. i \in 1..m /\ RowKnows(i)
          BY <1>1, <1>9, <3>1 DEF RowsInv, SignedRows
        <5> QED
          BY <1>1, <1>3, <4>2, <5>1, <5>2 DEF RowKnows
      <4> QED
        BY <4>1, <4>2
    <3>3. Sequenced(k)'
      BY <1>9, <2>1, <3>1 DEF Sequenced
    <3> QED
      BY <3>2, <3>3
  <2> QED
    BY <2>2, <2>3
<1> QED
  BY <1>1, <1>3, <1>5, <1>7, <1>8, <1>10, <1>11 DEF RowsInv, n

\* A loss takes no lock and contradicts no command: it is on record as lost.
LEMMA LoseTailInv ==
  ASSUME AuditInv, LoseTail
  PROVE  AuditInv'
<1> USE DEF LoseTail, keyVars
<1>1. RowsInv' /\ Len(rows') <= Len(rows)
  BY LostTailRows DEF AuditInv
<1>2. Len(rows) \in Nat /\ Len(rows') \in Nat
  BY <1>1, OwnRange DEF AuditInv, RowsInv
<1>3. AuditTypes'
  BY <1>1, <1>2 DEF AuditInv, AuditTypes
<1>4. \A n : Covered(n) => Covered(n)'
  BY DEF Covered
<1>5. \A v \in Writers : AppendKnows(v)'
  BY AuditAssumption, AppendKept DEF AuditInv
<1>6. \A o \in Operators : ExportKnows(o)'
  BY <1>4, ExportKept DEF AuditInv
<1> QED
  BY <1>1, <1>3, <1>4, <1>5, <1>6 DEF AuditInv

\* The row as it is committed, with what history notes of it.
Inserted(w, late) == [Built(w) EXCEPT !.late = late]

\* The fields of the row that is inserted.
LEMMA RowBuilt ==
  ASSUME NEW w, NEW late, NEW r, r = Inserted(w, late)
  PROVE  /\ r.id = AuditID(appends[w].key) /\ r.tenant = Tenant
         /\ r.body = appends[w].body /\ r.key = appends[w].key
         /\ r.hash = EventHash(r) /\ r.late = late
         /\ appends[w].kind = "transition" =>
              /\ r.seq = AllocateNextTenantSeq /\ r.prev = GetLatestSignedEnterpriseAuditHash
              /\ r.signature = Signature(appends[w].key, Canonical(r))
         /\ appends[w].kind # "transition" => r.seq = 0 /\ r.prev = GetLatestEnterpriseAuditHash
<1> HIDE DEF AuditID, AllocateNextTenantSeq, GetLatestSignedEnterpriseAuditHash, GetLatestEnterpriseAuditHash
<1> QED
  BY DEF Inserted, Built, SignEvent, NewEvent, EventHash, Canonical

\* A ledger with one more row, built on its heads by a writer that has the lock.
LEMMA AppendedRows ==
  ASSUME RowsInv, UNCHANGED keyVars, NEW w \in Writers, AppendKnows(w), appends[w] # Quiet,
         NEW late \in BOOLEAN, NEW r, r = Inserted(w, late),
         late => appends[w].kind = "transition" /\ appends[w].key \in revoked,
         issued \in Nat, issued < MaxAppends,
         \A i \in DOMAIN rows : rows[i].id # r.id /\ (r.seq > 0 => rows[i].seq # r.seq),
         rows' = Append(rows, r)
  PROVE  /\ RowsInv' /\ Len(rows') = Len(rows) + 1
         /\ \A i \in DOMAIN rows : i \in DOMAIN rows' /\ rows'[i] = rows[i]
         /\ \E i \in DOMAIN rows' : rows'[i] = r
         /\ SignedRows \subseteq SignedRows'
<1> DEFINE a == appends[w]
<1>1. Len(rows) \in Nat /\ DOMAIN rows = 1..Len(rows)
  BY OwnRange DEF RowsInv
<1>2. PICK n \in Nat : n = Len(rows) + 1
  BY <1>1
<1>3. rows' \in Seq(Range(rows) \cup {r})
  <2>1. rows \in Seq(Range(rows) \cup {r})
    BY <1>1, SeqDef DEF RowsInv, Range
  <2> QED
    BY <2>1, AppendProperties
<1>4. /\ Len(rows') = n /\ DOMAIN rows' = 1..n /\ rows'[n] = r
      /\ \A i \in DOMAIN rows : i \in DOMAIN rows' /\ rows'[i] = rows[i]
  BY <1>1, <1>2, AppendProperties DEF RowsInv
<1>5. rows' \in Seq(Range(rows'))
  BY <1>3, OwnRange
<1>6. PICK k \in 0..Len(rows) : Sequenced(k)
  BY DEF RowsInv
<1>7. /\ AllocateNextTenantSeq = k + 1
      /\ k = 0 => GetLatestSignedEnterpriseAuditHash = Nil
      /\ \A i \in SignedRows : rows[i].seq = k => GetLatestSignedEnterpriseAuditHash = rows[i].hash
  <2> DEFINE chain == ListSignedAuditEventsForTenant
  <2>1. /\ AllocateNextTenantSeq = k + 1
        /\ GetLatestSignedEnterpriseAuditHash = IF k = 0 THEN Nil ELSE chain[k].hash
        /\ \A x \in 1..k : \E i \in SignedRows : rows[i].seq = x /\ chain[x] = rows[i]
    BY <1>6, Chained
  <2>2. ASSUME NEW i \in SignedRows, rows[i].seq = k PROVE GetLatestSignedEnterpriseAuditHash = rows[i].hash
    <3>1. k \in 1..k
      BY <1>6, <2>2 DEF Sequenced
    <3>2. PICK j \in SignedRows : rows[j].seq = k /\ chain[k] = rows[j]
      BY <2>1, <3>1
    <3>3. ~(i < j) /\ ~(j < i)
      BY <2>2, <3>1, <3>2 DEF RowsInv
    <3>4. i = j
      BY <1>1, <3>3 DEF SignedRows
    <3> QED
      BY <1>1, <2>1, <3>1, <3>2, <3>4
  <2> QED
    BY <2>1, <2>2
<1>8. /\ r.id = AuditID(a.key) /\ r.tenant = Tenant /\ r.body = a.body /\ r.key = a.key
      /\ r.hash = EventHash(r) /\ r.late = late
      /\ a.kind = "transition" =>
           /\ r.seq = k + 1 /\ r.prev = GetLatestSignedEnterpriseAuditHash
           /\ r.signature = Signature(a.key, Canonical(r))
      /\ a.kind # "transition" => r.seq = 0 /\ r.prev = GetLatestEnterpriseAuditHash
  <2>1. /\ r.id = AuditID(a.key) /\ r.tenant = Tenant /\ r.body = a.body /\ r.key = a.key
        /\ r.hash = EventHash(r) /\ r.late = late
        /\ a.kind = "transition" =>
             /\ r.seq = AllocateNextTenantSeq /\ r.prev = GetLatestSignedEnterpriseAuditHash
             /\ r.signature = Signature(a.key, Canonical(r))
        /\ a.kind # "transition" => r.seq = 0 /\ r.prev = GetLatestEnterpriseAuditHash
    BY RowBuilt
  <2> QED
    BY <1>7, <2>1
<1>9. /\ a.body \in Bodies /\ a.key \in RequestKeys \cup Signers \cup {NoKey}
      /\ a.kind = "transition" => a.key \in registered /\ ValidateCapability(a.body)
  BY DEF AppendKnows, AppendTypes
<1>10. /\ a.kind = "transition" => r.seq > 0 /\ r.seq = k + 1 /\ SignedRows' = SignedRows \cup {n}
       /\ a.kind # "transition" => r.seq = 0 /\ SignedRows' = SignedRows
  BY <1>1, <1>2, <1>4, <1>6, <1>8 DEF SignedRows
<1>11. \A j \in SignedRows : rows'[j] = rows[j] /\ rows[j].seq \in 1..k /\ j \in 1..(n - 1)
  BY <1>1, <1>2, <1>4, <1>6 DEF SignedRows, Sequenced
<1>12. \A i \in DOMAIN rows : RowKnows(i)'
  <2>1. SUFFICES ASSUME NEW i \in DOMAIN rows PROVE RowKnows(i)'
    OBVIOUS
  <2>2. RowKnows(i) /\ rows'[i] = rows[i] /\ (i # 1 => rows'[i - 1] = rows[i - 1])
    BY <1>1, <1>4 DEF RowsInv
  <2>3. \A j \in SignedRows' : rows[i].seq > 0 /\ rows'[j].seq + 1 = rows[i].seq => j \in SignedRows /\ rows'[j] = rows[j]
    <3>1. rows[i].seq > 0 => rows[i].seq \in 1..k
      BY <1>6 DEF SignedRows, Sequenced
    <3>2. r.seq + 1 = rows[i].seq => ~(rows[i].seq > 0 /\ a.kind = "transition")
      BY <1>1, <1>6, <1>10, <3>1
    <3> QED
      BY <1>4, <1>10, <1>11, <3>2
  <2>4. \A j \in SignedRows' : rows[i].seq > 0 /\ rows'[j].seq + 1 = rows[i].seq => rows[i].prev = rows'[j].hash
    BY <2>2, <2>3 DEF RowKnows
  <2> QED
    BY <2>2, <2>4 DEF RowKnows, keyVars
<1>13. RowKnows(n)'
  <2>1. /\ r.body \in Bodies /\ r.tenant = Tenant /\ r.hash = EventHash(r)
        /\ r.key \in RequestKeys => r.id = <<"keyed", r.key>>
        /\ r.key \notin RequestKeys => \E x \in 1..MaxAppends : r.id = <<"random", x>>
    <3>1. issued + 1 \in 1..MaxAppends
      BY AuditAssumption
    <3> QED
      BY <1>8, <1>9, <3>1 DEF AuditID
  <2>2. r.seq \in 0..n
    BY <1>1, <1>2, <1>6, <1>10
  <2>3. r.seq = 0 => ~r.late /\ r.prev = IF n = 1 THEN Nil ELSE rows'[n - 1].hash
    <3>1. SUFFICES ASSUME r.seq = 0 PROVE ~r.late /\ r.prev = IF n = 1 THEN Nil ELSE rows'[n - 1].hash
      OBVIOUS
    <3>2. a.kind # "transition" /\ ~r.late /\ r.prev = GetLatestEnterpriseAuditHash
      BY <1>8, <1>10, <3>1
    <3>3. rows = <<>> <=> n = 1
      BY <1>1, <1>2, OwnRange DEF RowsInv
    <3>4. n # 1 => Last(rows) = rows'[n - 1]
      <4>1. n # 1 => Len(rows) \in DOMAIN rows /\ Len(rows) = n - 1
        BY <1>1, <1>2
      <4> QED
        BY <1>4, <4>1 DEF Last
    <3> QED
      BY <3>2, <3>3, <3>4 DEF GetLatestEnterpriseAuditHash
  <2>4. r.seq > 0 =>
          /\ \E x \in registered' : r.signature = Signature(x, Canonical(r))
          /\ r.late => r.signature.key \in revoked'
          /\ ValidateCapability(r.body)
          /\ r.seq = 1 => r.prev = Nil
          /\ \A j \in SignedRows' : rows'[j].seq + 1 = r.seq => r.prev = rows'[j].hash
    <3>1. SUFFICES ASSUME r.seq > 0
                   PROVE  /\ \E x \in registered' : r.signature = Signature(x, Canonical(r))
                          /\ r.late => r.signature.key \in revoked'
                          /\ ValidateCapability(r.body)
                          /\ r.seq = 1 => r.prev = Nil
                          /\ \A j \in SignedRows' : rows'[j].seq + 1 = r.seq => r.prev = rows'[j].hash
      OBVIOUS
    <3>2. a.kind = "transition"
      BY <1>10, <3>1
    <3>3. r.signature = Signature(a.key, Canonical(r)) /\ a.key \in registered' /\ ValidateCapability(r.body)
      BY <1>8, <1>9, <3>2 DEF keyVars
    <3>4. r.signature.key = a.key
      BY <3>3 DEF Signature
    <3>5. r.seq = 1 => r.prev = Nil
      BY <1>1, <1>6, <1>7, <1>8, <3>2
    <3>6. ASSUME NEW j \in SignedRows', rows'[j].seq + 1 = r.seq PROVE r.prev = rows'[j].hash
      <4>1. r.seq = k + 1 /\ rows'[n].seq = k + 1 /\ k \in Nat
        BY <1>1, <1>4, <1>10, <3>2
      <4>2. j # n
        <5>1. SUFFICES ASSUME j = n PROVE FALSE
          OBVIOUS
        <5>2. (k + 1) + 1 = k + 1
          BY <3>6, <4>1, <5>1
        <5> QED
          BY <4>1, <5>2
      <4>3. j \in SignedRows /\ rows'[j] = rows[j]
        BY <1>10, <1>11, <3>2, <3>6, <4>2
      <4>4. rows[j].seq \in 1..k
        BY <1>11, <4>3
      <4>5. rows[j].seq = k
        <5>1. PICK x \in 1..k : x = rows[j].seq
          BY <4>4
        <5>2. x + 1 = k + 1
          BY <3>6, <4>1, <4>3, <5>1
        <5> QED
          BY <4>1, <5>1, <5>2
      <4> QED
        BY <1>7, <1>8, <3>2, <4>3, <4>5
    <3>7. r.late => r.signature.key \in revoked'
      BY <1>8, <3>4 DEF keyVars
    <3> QED
      BY <3>3, <3>5, <3>6, <3>7
  <2>5. rows'[n] = r
    BY <1>4
  <2> QED
    BY <2>1, <2>2, <2>3, <2>4, <2>5 DEF RowKnows
<1>14. \A i, j \in DOMAIN rows' : rows'[i].id = rows'[j].id => i = j
  BY <1>1, <1>2, <1>4 DEF RowsInv
<1>15. \A i, j \in SignedRows' : i < j => rows'[i].seq < rows'[j].seq
  <2>1. SUFFICES ASSUME NEW i \in SignedRows', NEW j \in SignedRows', i < j PROVE rows'[i].seq < rows'[j].seq
    OBVIOUS
  <2>2. i \in SignedRows
    BY <1>2, <1>10, <1>11, <2>1
  <2>3. CASE j \in SignedRows
    BY <1>11, <2>1, <2>2, <2>3 DEF RowsInv
  <2>4. CASE j \notin SignedRows
    <3>1. j = n /\ a.kind = "transition"
      BY <1>10, <2>4
    <3>2. rows'[j].seq = k + 1 /\ rows'[i].seq \in 1..k
      BY <1>4, <1>10, <1>11, <2>2, <3>1
    <3>3. PICK x \in 1..k : x = rows'[i].seq
      BY <3>2
    <3>4. x < k + 1
      BY <1>1
    <3> QED
      BY <3>2, <3>3, <3>4
  <2> QED
    BY <2>3, <2>4
<1>16. \E x \in 0..Len(rows') : Sequenced(x)'
  <2>1. CASE a.kind = "transition"
    <3>1. k + 1 \in 0..Len(rows')
      BY <1>1, <1>2, <1>4
    <3>2. \A i \in SignedRows' : rows'[i].seq \in 1..(k + 1)
      BY <1>1, <1>4, <1>10, <1>11, <2>1
    <3>3. \A x \in 1..(k + 1) : \E i \in SignedRows' : rows'[i].seq = x
      <4>1. SUFFICES ASSUME NEW x \in 1..(k + 1) PROVE \E i \in SignedRows' : rows'[i].seq = x
        OBVIOUS
      <4>2. CASE x = k + 1
        BY <1>4, <1>10, <2>1, <4>2
      <4>3. CASE x # k + 1
        <5>1. x \in 1..k
          BY <1>1, <4>3
        <5>2. PICK i \in SignedRows : rows[i].seq = x
          BY <1>6, <5>1 DEF Sequenced
        <5> QED
          BY <1>10, <1>11, <2>1, <5>2
      <4> QED
        BY <4>2, <4>3
    <3> QED
      BY <3>1, <3>2, <3>3 DEF Sequenced
  <2>2. CASE a.kind # "transition"
    <3>1. Sequenced(k)'
      BY <1>6, <1>10, <1>11, <2>2, ZenonT(40) DEF Sequenced
    <3>2. k \in 0..Len(rows')
      BY <1>1, <1>2, <1>4
    <3> QED
      BY <3>1, <3>2
  <2> QED
    BY <2>1, <2>2
<1>17. \A i \in DOMAIN rows' : RowKnows(i)'
  BY <1>1, <1>2, <1>4, <1>12, <1>13
<1>18. RowsInv'
  BY <1>5, <1>14, <1>15, <1>16, <1>17 DEF RowsInv
<1> QED
  BY <1>2, <1>4, <1>10, <1>18

\* What is covered stays covered when a row is added.
LEMMA CoveredGrows ==
  ASSUME RowsInv', SignedRows \subseteq SignedRows', lost' = lost
  PROVE  \A n : Covered(n) => Covered(n)'
<1> DEFINE S == SignedRows'
<1>1. Len(rows') \in Nat /\ DOMAIN rows' = 1..Len(rows')
  BY OwnRange DEF RowsInv
<1>2. IsFiniteSet(S)
  <2>1. PICK n \in Nat : n = Len(rows')
    BY <1>1
  <2>2. S \subseteq 1..n
    BY <1>1, <2>1 DEF SignedRows
  <2> HIDE DEF S
  <2>3. IsFiniteSet(1..n)
    BY FS_Interval
  <2> QED
    BY <2>2, <2>3, FS_Subset
<1>3. Cardinality(SignedRows) \in Nat /\ Cardinality(S) \in Nat /\ Cardinality(SignedRows) <= Cardinality(S)
  <2> HIDE DEF S
  <2>1. SignedRows \subseteq S
    BY DEF S
  <2> QED
    BY <1>2, <2>1, FS_Subset, FS_CardinalityType
<1>4. ASSUME NEW n, Covered(n) PROVE Covered(n)'
  <2>1. n \in 0..MaxAppends /\ (~lost => n <= Cardinality(SignedRows))
    BY <1>4 DEF Covered
  <2>2. ~lost' => n <= Cardinality(S)
    <3> HIDE DEF S
    <3> QED
      BY AuditAssumption, <1>3, <2>1
  <2> QED
    BY <2>1, <2>2 DEF Covered
<1> QED
  BY <1>4

\* The insert and the commit.
LEMMA AppendRowInv ==
  ASSUME AuditInv, NEW w \in Writers, AppendRow(w)
  PROVE  AuditInv'
<1> DEFINE a == appends[w]
<1>1. UNCHANGED <<registered, revoked, roots, exports, lost>> /\ issued' = issued + 1
  BY DEF AppendRow, keyVars
<1>2. AppendKnows(w) /\ a # Quiet /\ AppendTypes(a) /\ a.event = Built(w) /\ auditLock = w /\ issued < MaxAppends
  BY DEF AuditInv, AppendRow, Quiet, AppendKnows
<1>3. appends' = [appends EXCEPT ![w] = appends'[w]] /\ DOMAIN appends = Writers
      /\ appends'[w] = [a EXCEPT !.pc = "answered", !.event = Nil]
  BY DEF AppendRow, AuditInv, AuditTypes
<1>4. /\ appends'[w].pc = "answered" /\ appends'[w].kind = a.kind /\ appends'[w].key = a.key
      /\ appends'[w].body = a.body
  BY <1>2, <1>3 DEF AppendTypes
<1>5. PICK late \in BOOLEAN :
         rows' = Append(rows, Inserted(w, late)) /\ (late => a.kind = "transition" /\ a.key \in revoked)
  <2>1. CASE a.kind = "transition"
    <3> DEFINE l == a.event.signature.key \in revoked
    <3>1. Built(w).seq = AllocateNextTenantSeq /\ Built(w).signature.key = a.key
      BY <2>1 DEF Built, SignEvent, NewEvent, Signature
    <3>2. AllocateNextTenantSeq # 0
      <4>1. PICK k \in 0..Len(rows) : Sequenced(k)
        BY DEF AuditInv, RowsInv
      <4>2. AllocateNextTenantSeq = k + 1 /\ k \in Nat
        BY <4>1, Chained, OwnRange DEF AuditInv, RowsInv
      <4> QED
        BY <4>2
    <3>3. rows' = Append(rows, Inserted(w, l))
      BY <1>2, <3>1, <3>2 DEF AppendRow, AppendSignedAuditEvent, Inserted
    <3>4. l => a.kind = "transition" /\ a.key \in revoked
      BY <1>2, <2>1, <3>1
    <3>5. l \in BOOLEAN
      OBVIOUS
    <3> HIDE DEF l
    <3> QED
      BY <3>3, <3>4, <3>5
  <2>2. CASE a.kind # "transition"
    <3>1. Built(w).seq = 0 /\ Built(w) = Inserted(w, FALSE)
      <4> DEFINE e == NewEvent(AuditID(a.key), 0, a.body, GetLatestEnterpriseAuditHash, a.key)
      <4>1. e.seq = 0 /\ e = [e EXCEPT !.late = FALSE]
        <5>1. e.seq = 0 /\ e.late = FALSE /\ e = [x \in DOMAIN e |-> e[x]]
          BY DEF NewEvent
        <5> HIDE DEF e
        <5> QED
          BY <5>1
      <4> HIDE DEF e
      <4>2. Built(w) = e
        BY <2>2 DEF Built, e
      <4> QED
        BY <4>1, <4>2 DEF Inserted
    <3>2. rows' = Append(rows, Built(w))
      BY <1>2, <3>1 DEF AppendRow, AppendAuditEvent
    <3> QED
      BY <3>1, <3>2
  <2> QED
    BY <2>1, <2>2
<1>5a. PICK r : r = Inserted(w, late)
  OBVIOUS
<1>6. /\ r.id = AuditID(a.key) /\ r.tenant = Tenant /\ r.body = a.body /\ r.key = a.key
  BY <1>5a, RowBuilt
<1>7. \A i \in DOMAIN rows : rows[i].id # r.id /\ (r.seq > 0 => rows[i].seq # r.seq)
  <2>1. r.id = Built(w).id /\ r.seq = Built(w).seq
    BY <1>5a DEF Inserted, Built, SignEvent, NewEvent
  <2> QED
    BY <1>2, <2>1 DEF AppendRow, InsertAllowed
<1>8. issued \in Nat /\ Len(rows) <= issued
  BY DEF AuditInv, AuditTypes
<1>9. /\ RowsInv' /\ Len(rows') = Len(rows) + 1
      /\ \A i \in DOMAIN rows : i \in DOMAIN rows' /\ rows'[i] = rows[i]
      /\ \E i \in DOMAIN rows' : rows'[i] = r
      /\ SignedRows \subseteq SignedRows'
  <2>1. RowsInv /\ UNCHANGED keyVars
    BY <1>1 DEF AuditInv, keyVars
  <2> QED
    BY <1>2, <1>5, <1>5a, <1>7, <1>8, <2>1, AppendedRows
<1>10. AppendKnows(w)'
  <2>1. AppendTypes(appends[w])'
    BY <1>2, <1>3 DEF AppendTypes
  <2>2. \E i \in DOMAIN rows' : rows'[i].key = a.key /\ rows'[i].body = a.body
    BY <1>6, <1>9
  <2> QED
    BY <1>1, <1>2, <1>4, <2>1, <2>2 DEF AppendKnows
<1>11. \A v \in Writers \ {w} : AppendKnows(v)'
  <2>1. SUFFICES ASSUME NEW v \in Writers \ {w} PROVE AppendKnows(v)'
    OBVIOUS
  <2>2. AppendKnows(v) /\ appends'[v] = appends[v] /\ auditLock # v
    BY <1>2, <1>3 DEF AuditInv
  <2>3. registered \subseteq registered' /\ (lost => lost')
    BY <1>1
  <2> QED
    BY <1>9, <2>2, <2>3, AppendKept
<1>12. AuditTypes'
  <2>1. auditLock' \in Writers \cup {Nil}
    BY Released DEF AppendRow
  <2>2. issued' \in 0..MaxAppends /\ Len(rows') <= issued'
    <3>1. Len(rows) \in Nat
      BY OwnRange DEF AuditInv, RowsInv
    <3> QED
      BY AuditAssumption, <1>1, <1>2, <1>8, <1>9, <3>1
  <2> QED
    BY <1>1, <1>3, <2>1, <2>2 DEF AuditInv, AuditTypes
<1>13. \A n : Covered(n) => Covered(n)'
  BY <1>1, <1>9, CoveredGrows
<1>14. \A o \in Operators : ExportKnows(o)'
  BY <1>1, <1>13, ExportKept DEF AuditInv
<1> QED
  BY <1>1, <1>9, <1>10, <1>11, <1>12, <1>13, <1>14 DEF AuditInv

\* The chain is read whole, with its late rows known for what they are.
LEMMA ReadSignedAuditChainInv ==
  ASSUME AuditInv, NEW o \in Operators, NEW purpose, NEW signer \in Signers, ReadSignedAuditChain(o, purpose, signer)
  PROVE  AuditInv'
<1> DEFINE chain == ListSignedAuditEventsForTenant
<1>1. UNCHANGED <<rows, auditLock, appends, revoked, issued, lost, roots>> /\ registered' = registered \cup {signer}
  BY DEF ReadSignedAuditChain, UpsertAuditSigningKey
<1>2. exports' = [exports EXCEPT ![o] = exports'[o]] /\ DOMAIN exports = Operators
  BY DEF ReadSignedAuditChain, AuditInv, AuditTypes
<1>3. exports'[o].pc = "keys" /\ exports'[o].events = chain
  BY <1>2 DEF ReadSignedAuditChain
<1>4. PICK k \in 0..Len(rows) : Sequenced(k)
  BY DEF AuditInv, RowsInv
<1>5. /\ Cardinality(SignedRows) = k /\ chain \in Seq(Range(chain)) /\ Len(chain) = k /\ DOMAIN chain = 1..k
      /\ \A n \in 1..k : \E i \in SignedRows : rows[i].seq = n /\ chain[n] = rows[i]
      /\ k # 0
  <2>1. k # 0 <=> chain # <<>>
    BY <1>4, Chained DEF AuditInv
  <2> QED
    BY <1>4, <2>1, Chained DEF AuditInv, ReadSignedAuditChain
<1>6. Covered(k)'
  <2>1. k \in 0..MaxAppends
    BY AuditAssumption, <1>4, OwnRange DEF AuditInv, AuditTypes, RowsInv
  <2>2. Covered(k)
    BY <1>5, <2>1 DEF Covered
  <2> QED
    BY <1>1, <2>2, CoveredKept
<1>7. Last(chain).seq = Len(chain)
  <2>1. k \in 1..k
    BY <1>4, <1>5, OwnRange DEF AuditInv, RowsInv
  <2> HIDE DEF chain
  <2> QED
    BY <1>5, <2>1 DEF Last
<1>8. \A n \in DOMAIN chain : chain[n].late => chain[n].signature.key \in revoked
  <2> HIDE DEF chain
  <2>1. \A i \in SignedRows : rows[i].late => rows[i].signature.key \in revoked
    BY DEF AuditInv, RowsInv, RowKnows, SignedRows
  <2> QED
    BY <1>5, <2>1
<1>9. ExportKnows(o)'
  <2>1. chain # <<>>
    BY DEF ReadSignedAuditChain
  <2> HIDE DEF chain
  <2>2. PICK c : c = chain
    OBVIOUS
  <2>3. Snapshot(c)'
    <3>1. c \in Seq(Range(c)) /\ c # <<>> /\ Len(c) = k /\ Last(c).seq = Len(c)
      BY <1>5, <1>7, <2>1, <2>2
    <3>2. \A n \in DOMAIN c : c[n].late => c[n].signature.key \in revoked'
      BY <1>1, <1>8, <2>2
    <3> QED
      BY <1>6, <3>1, <3>2 DEF Snapshot
  <2> QED
    BY <1>3, <2>2, <2>3 DEF ExportKnows
<1>10. roots' \in Seq(Range(roots')) /\ \A i \in DOMAIN roots' : Covered(roots'[i].last)
  BY <1>1 DEF AuditInv, AuditTypes
<1>11. registered' \subseteq Signers /\ registered \subseteq registered'
  BY <1>1 DEF AuditInv, AuditTypes
<1> QED
  BY <1>1, <1>2, <1>9, <1>10, <1>11, OperatorInv

\* A late row's key was revoked when the keys were read.
LEMMA BuildVerificationPackageInv ==
  ASSUME AuditInv, NEW o \in Operators, BuildVerificationPackage(o)
  PROVE  AuditInv'
<1> DEFINE x == exports[o]  b == BuildBundle(x.events, RegisteredSigningKeys, x.signer)
<1>1. UNCHANGED <<rows, auditLock, appends, registered, revoked, issued, lost, roots>>
  BY DEF BuildVerificationPackage, keyVars
<1>2. exports' = [exports EXCEPT ![o] = exports'[o]] /\ DOMAIN exports = Operators
  BY DEF BuildVerificationPackage, AuditInv, AuditTypes
<1>3. exports'[o].pc = "package" /\ exports'[o].package = b
  BY <1>2 DEF BuildVerificationPackage
<1>4. Snapshot(x.events)
  BY DEF AuditInv, ExportKnows, BuildVerificationPackage
<1>5. b.events = x.events /\ b.keys = RegisteredSigningKeys
  BY DEF BuildBundle
<1>6. \A k \in revoked : \E y \in RegisteredSigningKeys : y.id = k /\ y.revoked
  <2>1. SUFFICES ASSUME NEW k \in revoked PROVE \E y \in RegisteredSigningKeys : y.id = k /\ y.revoked
    OBVIOUS
  <2>2. [id |-> k, public |-> k, revoked |-> k \in revoked] \in RegisteredSigningKeys
    BY DEF RegisteredSigningKeys, AuditInv, AuditTypes
  <2> QED
    BY <2>2
<1>7. \A n \in DOMAIN b.events : b.events[n].late => \E y \in b.keys : y.id = b.events[n].signature.key /\ y.revoked
  <2> HIDE DEF b
  <2> QED
    BY <1>4, <1>5, <1>6 DEF Snapshot
<1>8. ExportKnows(o)'
  <2> HIDE DEF b
  <2> QED
    BY <1>3, <1>7 DEF ExportKnows
<1>9. roots' \in Seq(Range(roots')) /\ \A i \in DOMAIN roots' : Covered(roots'[i].last)
  BY <1>1 DEF AuditInv, AuditTypes
<1> QED
  BY <1>1, <1>2, <1>8, <1>9, OperatorInv DEF AuditInv, AuditTypes

\* A checkpoint covers what its command has read.
LEMMA PersistActionAuditCheckpointInv ==
  ASSUME AuditInv, NEW o \in Operators, PersistActionAuditCheckpoint(o)
  PROVE  AuditInv'
<1> DEFINE x == exports[o]  b == BuildBundle(x.events, RegisteredSigningKeys, x.signer).batch
<1>1. UNCHANGED <<rows, auditLock, appends, registered, revoked, issued, lost>>
  BY DEF PersistActionAuditCheckpoint, keyVars
<1>2. exports' = [exports EXCEPT ![o] = exports'[o]] /\ exports'[o] = Quiet
  BY DEF PersistActionAuditCheckpoint, AuditInv, AuditTypes
<1>3. Covered(b.last)
  <2>1. Covered(Len(x.events)) /\ Last(x.events).seq = Len(x.events)
    BY DEF AuditInv, ExportKnows, PersistActionAuditCheckpoint, Snapshot
  <2>2. b.last = Last(x.events).seq
    BY DEF BuildBundle, Ed25519Signer, BatchOf
  <2> HIDE DEF b
  <2> QED
    BY <2>1, <2>2
<1>4. roots' \in Seq(Range(roots')) /\ \A i \in DOMAIN roots' : Covered(roots'[i].last)
  <2>1. roots' = Append(roots, b)
    BY DEF PersistActionAuditCheckpoint, InsertAuditBatchRoot
  <2>2. roots \in Seq(Range(roots)) /\ \A i \in DOMAIN roots : Covered(roots[i].last)
    BY DEF AuditInv, AuditTypes
  <2>3. Len(roots) \in Nat /\ DOMAIN roots = 1..Len(roots)
    BY <2>2, OwnRange
  <2> HIDE DEF b
  <2>4. roots \in Seq(Range(roots) \cup {b})
    BY <2>2, <2>3, SeqDef DEF Range
  <2>5. roots' \in Seq(Range(roots) \cup {b})
    BY <2>1, <2>4, AppendProperties
  <2>6. /\ DOMAIN roots' = 1..(Len(roots) + 1)
        /\ \A i \in DOMAIN roots' : (i \in DOMAIN roots /\ roots'[i] = roots[i]) \/ roots'[i] = b
    BY <2>1, <2>3, <2>4, AppendProperties
  <2> QED
    BY <1>3, <2>2, <2>5, <2>6, OwnRange
<1>5. ExportKnows(o)'
  BY <1>2 DEF ExportKnows, Quiet
<1> QED
  BY <1>1, <1>2, <1>4, <1>5, OperatorInv DEF AuditInv, AuditTypes

\* The checkpoint that is compared covers as much as every other.
LEMMA DetectActionAuditTruncationInv ==
  ASSUME AuditInv, NEW o \in Operators, NEW signer \in Signers, DetectActionAuditTruncation(o, signer)
  PROVE  AuditInv'
<1> DEFINE Largest(i) == \A j \in DOMAIN roots : roots[j].last <= roots[i].last
<1>1. UNCHANGED <<rows, auditLock, appends, revoked, issued, lost, roots>> /\ registered' = registered \cup {signer}
  BY DEF DetectActionAuditTruncation, UpsertAuditSigningKey
<1>2. exports' = [exports EXCEPT ![o] = exports'[o]] /\ DOMAIN exports = Operators
  BY DEF DetectActionAuditTruncation, AuditInv, AuditTypes
<1>3. exports'[o] = [pc |-> "compare", root |-> GetLatestAuditBatchRoot, all |-> Range(roots)]
  BY <1>2 DEF DetectActionAuditTruncation
<1>4. roots # <<>> /\ roots \in Seq(Range(roots)) /\ \A i \in DOMAIN roots : Covered(roots[i].last)
  BY DEF DetectActionAuditTruncation, AuditInv, AuditTypes
<1>5. Len(roots) \in Nat /\ DOMAIN roots = 1..Len(roots) /\ 1 \in DOMAIN roots
  <2>1. Len(roots) \in Nat /\ DOMAIN roots = 1..Len(roots) /\ Len(roots) # 0
    BY <1>4, OwnRange
  <2> QED
    BY <2>1
<1>6. \A i \in DOMAIN roots : roots[i].last \in 0..MaxAppends
  BY <1>4 DEF Covered
<1>7. \E i \in DOMAIN roots : Largest(i)
  <2> DEFINE S == {MaxAppends - roots[i].last : i \in DOMAIN roots}
  <2>1. S \subseteq Nat /\ S # {}
    BY AuditAssumption, <1>5, <1>6
  <2>2. PICK m \in S : \A x \in S : m <= x
    <3> HIDE DEF S
    <3> QED
      BY <2>1, LeastNatural
  <2>3. PICK i \in DOMAIN roots : m = MaxAppends - roots[i].last
    BY <2>2
  <2>4. ASSUME NEW j \in DOMAIN roots PROVE roots[j].last <= roots[i].last
    <3>1. MaxAppends - roots[j].last \in S
      OBVIOUS
    <3>2. MaxAppends - roots[i].last <= MaxAppends - roots[j].last
      BY <2>2, <2>3, <3>1
    <3>3. PICK p \in 0..MaxAppends, q \in 0..MaxAppends : p = roots[i].last /\ q = roots[j].last
      BY <1>6
    <3>4. MaxAppends - p <= MaxAppends - q
      BY <3>2, <3>3
    <3>5. q <= p
      BY AuditAssumption, <3>4
    <3> QED
      BY <3>3, <3>5
  <2> QED
    BY <2>4
<1>8. PICK i \in DOMAIN roots : Largest(i) /\ GetLatestAuditBatchRoot = roots[i]
  <2>1. GetLatestAuditBatchRoot = roots[CHOOSE i \in DOMAIN roots : Largest(i)]
    BY DEF GetLatestAuditBatchRoot
  <2> HIDE DEF Largest
  <2> QED
    BY <1>7, <2>1
<1>9. Covered(roots[i].last)'
  BY <1>1, <1>4, CoveredKept
<1>10. \A r \in Range(roots) : r.last \in Nat /\ r.last <= roots[i].last
  BY <1>6, <1>8 DEF Range
<1>11. ExportKnows(o)'
  <2>1. exports'[o].pc = "compare" /\ exports'[o].root.last = roots[i].last /\ exports'[o].all = Range(roots)
    BY <1>3, <1>8
  <2> QED
    BY <1>1, <1>9, <1>10, <2>1 DEF ExportKnows
<1>12. registered' \subseteq Signers /\ registered \subseteq registered'
  BY <1>1 DEF AuditInv, AuditTypes
<1> QED
  BY <1>1, <1>2, <1>4, <1>11, <1>12, OperatorInv

\* A head below the checkpoint means that rows were lost.
LEMMA CompareHeadInv ==
  ASSUME AuditInv, NEW o \in Operators, CompareHead(o)
  PROVE  AuditInv'
<1> DEFINE x == exports[o]  chain == ListSignedAuditEventsForTenant
           head == IF chain = <<>> THEN 0 ELSE Last(chain).seq
<1>1. UNCHANGED <<rows, auditLock, appends, registered, revoked, issued, lost, roots>>
  BY DEF CompareHead, keyVars
<1>2. exports' = [exports EXCEPT ![o] = exports'[o]] /\ DOMAIN exports = Operators
  BY DEF CompareHead, AuditInv, AuditTypes
<1>3. exports'[o] = [pc |-> "verdict", all |-> x.all, chain |-> chain, truncated |-> DetectTruncation(head, x.root.last)]
  BY <1>2 DEF CompareHead
<1>4. Covered(x.root.last) /\ \A r \in x.all : r.last \in Nat /\ r.last <= x.root.last
  BY DEF AuditInv, ExportKnows, CompareHead
<1>5. PICK k \in 0..Len(rows) : Sequenced(k)
  BY DEF AuditInv, RowsInv
<1>6. k \in Nat
  BY <1>5, OwnRange DEF AuditInv, RowsInv
<1>7. /\ Cardinality(SignedRows) = k /\ Len(chain) = k /\ (chain = <<>> <=> k = 0)
      /\ \A n \in 1..k : \E i \in SignedRows : rows[i].seq = n /\ chain[n] = rows[i]
  BY <1>5, Chained DEF AuditInv
<1>8. head = k
  <2> HIDE DEF chain
  <2>1. CASE k = 0
    BY <1>7, <2>1
  <2>2. CASE k # 0
    <3>1. k \in 1..k /\ chain # <<>>
      BY <1>6, <1>7, <2>2
    <3>2. chain[k].seq = k
      BY <1>7, <3>1
    <3> QED
      BY <1>7, <3>1, <3>2 DEF Last
  <2> QED
    BY <2>1, <2>2
<1>9. PICK m \in 0..MaxAppends : m = x.root.last
  BY <1>4 DEF Covered
<1>10. IF DetectTruncation(head, x.root.last) THEN lost ELSE \A r \in x.all : r.last <= Len(chain)
  <2> HIDE DEF head, chain
  <2>1. CASE k < m
    <3>1. lost
      BY <1>4, <1>6, <1>7, <1>9, <2>1 DEF Covered
    <3>2. DetectTruncation(head, x.root.last)
      BY <1>8, <1>9, <2>1 DEF DetectTruncation
    <3> QED
      BY <3>1, <3>2
  <2>2. CASE ~(k < m)
    <3>1. ~DetectTruncation(head, x.root.last)
      BY <1>8, <1>9, <2>2 DEF DetectTruncation
    <3>2. ASSUME NEW r \in x.all PROVE r.last <= Len(chain)
      <4>1. r.last \in Nat /\ r.last <= m /\ m <= k
        BY AuditAssumption, <1>4, <1>6, <1>9, <2>2
      <4> QED
        BY <1>6, <1>7, <1>9, <4>1
    <3> QED
      BY <3>1, <3>2
  <2> QED
    BY <2>1, <2>2
<1>11. ExportKnows(o)'
  <2> HIDE DEF head, chain
  <2>1. /\ exports'[o].pc = "verdict" /\ exports'[o].chain = chain /\ exports'[o].all = x.all
        /\ exports'[o].truncated = DetectTruncation(head, x.root.last)
    BY <1>3
  <2>2. IF exports'[o].truncated THEN lost' ELSE \A r \in exports'[o].all : r.last <= Len(exports'[o].chain)
    BY <1>1, <1>10, <2>1
  <2> QED
    BY <2>1, <2>2 DEF ExportKnows
<1>12. roots' \in Seq(Range(roots')) /\ \A i \in DOMAIN roots' : Covered(roots'[i].last)
  BY <1>1 DEF AuditInv, AuditTypes
<1> QED
  BY <1>1, <1>2, <1>11, <1>12, OperatorInv DEF AuditInv, AuditTypes

\* A command that ends knows nothing.
LEMMA EndExportInv ==
  ASSUME AuditInv, NEW o \in Operators, EndExport(o)
  PROVE  AuditInv'
<1>1. UNCHANGED <<rows, auditLock, appends, registered, revoked, issued, lost, roots>>
  BY DEF EndExport, keyVars
<1>2. exports' = [exports EXCEPT ![o] = exports'[o]] /\ exports'[o] = Quiet
  BY DEF EndExport, AuditInv, AuditTypes
<1>3. ExportKnows(o)'
  BY <1>2 DEF ExportKnows, Quiet
<1>4. roots' \in Seq(Range(roots')) /\ \A i \in DOMAIN roots' : Covered(roots'[i].last)
  BY <1>1 DEF AuditInv, AuditTypes
<1> QED
  BY <1>1, <1>2, <1>3, <1>4, OperatorInv DEF AuditInv, AuditTypes

-----------------------------------------------------------------------------
\* The empty ledger satisfies the invariant.
LEMMA AuditInitInv == AuditInit => AuditInv
<1> SUFFICES ASSUME AuditInit PROVE AuditInv
  OBVIOUS
<1> USE DEF AuditInit
<1>1. rows \in Seq(Range(rows)) /\ Len(rows) = 0 /\ DOMAIN rows = {} /\ roots \in Seq(Range(roots)) /\ DOMAIN roots = {}
  <2>1. <<>> \in Seq(Nat) /\ Len(<<>>) = 0
    BY EmptySeq
  <2>2. <<>> \in Seq(Range(<<>>)) /\ DOMAIN <<>> = {}
    BY <2>1, OwnRange
  <2> QED
    BY <2>1, <2>2
<1>2. SignedRows = {}
  BY <1>1 DEF SignedRows
<1>3. Sequenced(0)
  BY <1>2 DEF Sequenced
<1>4. RowsInv
  BY <1>1, <1>2, <1>3 DEF RowsInv
<1>5. AuditTypes
  <2>1. issued \in 0..MaxAppends /\ Len(rows) <= issued /\ lost \in BOOLEAN
    <3>1. issued \in 0..MaxAppends
      BY AuditAssumption
    <3>4. lost \in BOOLEAN
      OBVIOUS
    <3>2. Len(rows) = 0 /\ issued = 0
      BY <1>1
    <3>3. Len(rows) <= issued
      BY <3>2
    <3> QED
      BY <3>1, <3>3, <3>4
  <2>2. revoked \subseteq registered /\ registered \subseteq Signers /\ auditLock \in Writers \cup {Nil}
    OBVIOUS
  <2>3. DOMAIN appends = Writers /\ DOMAIN exports = Operators
    OBVIOUS
  <2> QED
    BY <1>1, <2>1, <2>2, <2>3 DEF AuditTypes
<1>6. \A w \in Writers : AppendKnows(w)
  BY DEF AppendKnows
<1>7. \A o \in Operators : ExportKnows(o)
  BY DEF ExportKnows, Quiet
<1> QED
  BY <1>1, <1>4, <1>5, <1>6, <1>7 DEF AuditInv

\* And every step keeps it.
LEMMA AuditStep == AuditInv /\ [AuditNext]_auditVars => AuditInv'
<1> SUFFICES ASSUME AuditInv, [AuditNext]_auditVars PROVE AuditInv'
  OBVIOUS
<1>1. ASSUME NEW w \in Writers, WriterStep(w) PROVE AuditInv'
  <2>1. ASSUME NEW k \in RequestKeys \cup {NoKey}, NEW b \in Bodies, AppendAuditEvidence(w, k, b) PROVE AuditInv'
    BY <2>1, BeginInv DEF AppendAuditEvidence, Kinds
  <2>2. ASSUME NEW b \in Bodies, AppendApprovalTransmissionAudit(w, b) \/ AppendEvidenceLineageAudit(w, b) PROVE AuditInv'
    BY <2>2, BeginInv DEF AppendApprovalTransmissionAudit, AppendEvidenceLineageAudit, Kinds
  <2>3. ASSUME NEW k \in Signers, NEW b \in Bodies, AppendActionTransitionAudit(w, k, b) PROVE AuditInv'
    BY <2>3, BeginInv DEF AppendActionTransitionAudit, Kinds
  <2> QED
    BY <1>1, <2>1, <2>2, <2>3, AnswerFromRowInv, ChainInv, AppendRowInv, EndAppendInv DEF WriterStep
<1>2. ASSUME NEW o \in Operators, NEW k \in Signers, OperatorStep(o, k) PROVE AuditInv'
  BY <1>2, ReadSignedAuditChainInv, BuildVerificationPackageInv, PersistActionAuditCheckpointInv,
     DetectActionAuditTruncationInv, CompareHeadInv, EndExportInv DEF OperatorStep
<1>3. ASSUME NEW k \in Signers, BuildAuditSigner(k) PROVE AuditInv'
  <2>1. /\ UNCHANGED <<rows, auditLock, appends, roots, exports, issued, lost>>
        /\ registered \subseteq registered' /\ registered' \subseteq Signers
        /\ revoked \subseteq revoked' /\ revoked' \subseteq registered'
    BY <1>3 DEF BuildAuditSigner, UpsertAuditSigningKey, AuditInv, AuditTypes
  <2> QED
    BY <2>1, KeysInv
<1>4. ASSUME NEW k \in Signers, RevokeAuditSigningKey(k) PROVE AuditInv'
  <2>1. /\ UNCHANGED <<rows, auditLock, appends, roots, exports, issued, lost>>
        /\ registered \subseteq registered' /\ registered' \subseteq Signers
        /\ revoked \subseteq revoked' /\ revoked' \subseteq registered'
    BY <1>4 DEF RevokeAuditSigningKey, AuditInv, AuditTypes
  <2> QED
    BY <2>1, KeysInv
<1>5. CASE UNCHANGED auditVars
  <2>1. UNCHANGED <<rows, auditLock, appends, registered, revoked, roots, exports, issued, lost>>
    BY <1>5 DEF auditVars, keyVars
  <2> QED
    BY <2>1, KeysInv DEF AuditInv, AuditTypes
<1> QED
  BY <1>1, <1>2, <1>3, <1>4, <1>5, LoseTailInv DEF AuditNext

\* The ledger, the writers and the operators' commands agree at every step.
THEOREM AuditInvariant == AuditSpec => []AuditInv
BY AuditInitInv, AuditStep, PTL DEF AuditSpec

\* However appends, exports, registrations and revocations interleave, a
\* package that verifies holds no event appended under a key that was revoked
\* by then (ExportActionAuditPackage, VerifyBundle).
THEOREM RevokedKeysSignNoTruth == AuditSpec => []NoTruthAfterRevocation
<1>1. AuditInv => NoTruthAfterRevocation
  <2> SUFFICES ASSUME AuditInv, NEW o \in Operators, exports[o].pc = "package",
                      VerifyBundle(exports[o].package), NEW i \in DOMAIN exports[o].package.events,
                      exports[o].package.events[i].late
               PROVE  FALSE
    BY DEF NoTruthAfterRevocation, Packages
  <2> DEFINE p == exports[o].package  resolver == AnchoredResolver(p.keys)  e == p.events[i]
  <2>1. PICK y \in p.keys : y.id = e.signature.key /\ y.revoked
    BY DEF AuditInv, ExportKnows
  <2>2. Authentic(e.signature, Canonical(e), resolver)
    BY DEF VerifyBundle, VerifyChain, VerifyEvent
  <2>3. e.signature.key \in Signers /\ ~resolver[e.signature.key].revoked
    <3>1. DOMAIN resolver = Signers
      BY DEF AnchoredResolver
    <3> HIDE DEF resolver
    <3> QED
      BY <2>2, <3>1 DEF Authentic
  <2>4. resolver[e.signature.key].revoked = \E x \in p.keys : x.id = e.signature.key /\ x.revoked
    BY <2>3 DEF AnchoredResolver
  <2> QED
    BY <2>1, <2>3, <2>4
<1> QED
  BY <1>1, AuditInvariant, PTL

\* A check alarms only when rows were lost, and one that finds the chain whole
\* has seen all that any checkpoint covers (DetectActionAuditTruncation).
THEOREM TruncationIsToldTruly == AuditSpec => []TruncationIsTold
<1>1. AuditInv => TruncationIsTold
  BY DEF AuditInv, ExportKnows, TruncationIsTold
<1> QED
  BY <1>1, AuditInvariant, PTL

\* A chain as it was appended: numbered, linked and signed.
Whole(c) ==
  /\ c \in Seq(Range(c))
  /\ \A n \in DOMAIN c :
       /\ c[n].seq = n /\ c[n].tenant = Tenant /\ c[n].hash = EventHash(c[n])
       /\ c[n].body \in Bodies /\ ValidateCapability(c[n].body)
       /\ \E k \in Signers : c[n].signature = Signature(k, Canonical(c[n]))
       /\ c[n].prev = IF n = 1 THEN Nil ELSE c[n - 1].hash

\* The chain that is listed is whole.
LEMMA ChainIsWhole ==
  ASSUME AuditInv, NEW chain, chain = ListSignedAuditEventsForTenant
  PROVE  Whole(chain) /\ \A n \in DOMAIN chain : \E i \in SignedRows : chain[n] = rows[i]
<1>1. PICK k \in 0..Len(rows) : Sequenced(k)
  BY DEF AuditInv, RowsInv
<1>2. /\ k \in Nat /\ chain \in Seq(Range(chain)) /\ DOMAIN chain = 1..k
      /\ \A n \in 1..k : \E i \in SignedRows : rows[i].seq = n /\ chain[n] = rows[i]
  <2>1. RowsInv
    BY DEF AuditInv
  <2>2. k \in Nat
    BY <2>1, OwnRange DEF RowsInv
  <2>3. chain \in Seq(Range(chain)) /\ DOMAIN chain = 1..k
    BY <1>1, <2>1, Chained
  <2>4. \A n \in 1..k : \E i \in SignedRows : rows[i].seq = n /\ chain[n] = rows[i]
    BY <1>1, <2>1, Chained
  <2> QED
    BY <2>2, <2>3, <2>4
<1>3. ASSUME NEW n \in 1..k
      PROVE  /\ chain[n].seq = n /\ chain[n].tenant = Tenant /\ chain[n].hash = EventHash(chain[n])
             /\ chain[n].body \in Bodies /\ ValidateCapability(chain[n].body)
             /\ \E s \in Signers : chain[n].signature = Signature(s, Canonical(chain[n]))
             /\ chain[n].prev = IF n = 1 THEN Nil ELSE chain[n - 1].hash
  <2>1. PICK i \in SignedRows : rows[i].seq = n /\ chain[n] = rows[i]
    BY <1>2
  <2>2. RowKnows(i) /\ rows[i].seq > 0
    BY <2>1 DEF AuditInv, RowsInv, SignedRows
  <2>3. \E s \in Signers : chain[n].signature = Signature(s, Canonical(chain[n]))
    BY <2>1, <2>2 DEF RowKnows, AuditInv, AuditTypes
  <2>4. chain[n].prev = IF n = 1 THEN Nil ELSE chain[n - 1].hash
    <3>1. CASE n = 1
      BY <2>1, <2>2, <3>1 DEF RowKnows
    <3>2. CASE n # 1
      <4>1. n - 1 \in 1..k /\ (n - 1) + 1 = n
        BY <1>2, <3>2
      <4>2. PICK j \in SignedRows : rows[j].seq = n - 1 /\ chain[n - 1] = rows[j]
        BY <1>2, <4>1
      <4>3. rows[j].seq + 1 = rows[i].seq
        BY <2>1, <4>1, <4>2
      <4> QED
        BY <2>1, <2>2, <3>2, <4>2, <4>3 DEF RowKnows
    <3> QED
      BY <3>1, <3>2
  <2> QED
    BY <2>1, <2>2, <2>3, <2>4 DEF RowKnows
<1>4. Whole(chain)
  BY <1>2, <1>3 DEF Whole
<1> QED
  BY <1>2, <1>4

\* Keys that know every signer, revoked or not.
Resolves(keys, s) == s \in DOMAIN keys /\ ~keys[s].revoked /\ keys[s].public = s

\* A signature of a key that resolves is authentic.
LEMMA SignedIsAuthentic ==
  ASSUME NEW keys, NEW s \in Signers, Resolves(keys, s), NEW over
  PROVE  Authentic(Signature(s, over), over, keys) /\ Signature(s, over) # NoSignature
<1>1. Signature(s, over).key = s /\ Signature(s, over).by = s /\ Signature(s, over).over = over
  BY DEF Signature
<1>2. Signature(s, over) # NoSignature
  BY AuditAssumption, <1>1 DEF Signature, NoSignature
<1> QED
  BY <1>1, <1>2 DEF Authentic, Resolves

\* A whole chain verifies with the keys of every signer, exactly if no word of
\* it asserts an outcome.
LEMMA WholeVerifies ==
  ASSUME NEW c, Whole(c), NEW keys, \A s \in Signers : Resolves(keys, s)
  PROVE  VerifyChain(c, keys) <=> SaysNoOutcome(c)
<1>1. PICK k \in Nat : DOMAIN c = 1..k
  BY OwnRange DEF Whole
<1>2. SUFFICES ASSUME NEW n \in 1..k
               PROVE  VerifyEvent(c[n], n, c[1].tenant, IF n = 1 THEN Nil ELSE c[n - 1].hash, keys)
                        <=> ~AssertsOutcome(c[n])
  BY <1>1 DEF VerifyChain, SaysNoOutcome
<1> DEFINE e == c[n]
<1>3. PICK s \in Signers : e.signature = Signature(s, Canonical(e))
  BY <1>1 DEF Whole
<1>4. e.signature # NoSignature /\ Authentic(e.signature, Canonical(e), keys)
  BY <1>3, SignedIsAuthentic
<1>5. /\ e.seq = n /\ e.hash = EventHash(e) /\ e.tenant = Tenant /\ e.body \in Bodies /\ ValidateCapability(e.body)
      /\ e.prev = IF n = 1 THEN Nil ELSE c[n - 1].hash
  BY <1>1 DEF Whole
<1>6. c[1].tenant = Tenant
  <2>1. 1 \in 1..k
    OBVIOUS
  <2> QED
    BY <1>1, <2>1 DEF Whole
<1>7. CheckNoRawPayload(e)
  BY AuditAssumption, <1>5 DEF ValidateCapability, CheckNoRawPayload
<1> QED
  BY <1>4, <1>5, <1>6, <1>7 DEF VerifyEvent

\* For any vocabulary, the ledger of several processes reads as if one had
\* written it: rows link, the signed chain has no gap, a keyed request leaves
\* one row, and the chain verifies exactly while the verifier takes no word of
\* it for an outcome (AcquireEnterpriseAuditLock, AppendAuditEvidence and
\* VerifyChain).
THEOREM LedgerSoundness == AuditSpec => []LedgerIsSound
<1>1. AuditInv => AuditTypeOK
  <2> SUFFICES ASSUME AuditInv PROVE AuditTypeOK
    OBVIOUS
  <2>1. \A i \in DOMAIN rows : rows[i].seq \in 0..MaxAppends /\ rows[i].body \in Bodies
    <3>1. SUFFICES ASSUME NEW i \in DOMAIN rows PROVE rows[i].seq \in 0..MaxAppends /\ rows[i].body \in Bodies
      OBVIOUS
    <3>2. RowKnows(i) /\ i \in 1..Len(rows) /\ Len(rows) \in Nat /\ issued \in 0..MaxAppends /\ Len(rows) <= issued
      BY OwnRange DEF AuditInv, AuditTypes, RowsInv
    <3> QED
      BY AuditAssumption, <3>2 DEF RowKnows
  <2> QED
    BY <2>1 DEF AuditInv, AuditTypes, AuditTypeOK
<1>2. AuditInv => (AppendedVerifies <=> SaysNoOutcome(ListSignedAuditEventsForTenant))
  <2> SUFFICES ASSUME AuditInv PROVE AppendedVerifies <=> SaysNoOutcome(ListSignedAuditEventsForTenant)
    OBVIOUS
  <2> DEFINE keys == NewKeySet({[id |-> k, public |-> k, revoked |-> FALSE] : k \in Signers})
  <2>1. PICK chain : chain = ListSignedAuditEventsForTenant
    OBVIOUS
  <2>2. Whole(chain)
    BY <2>1, ChainIsWhole
  <2>3. \A s \in Signers : s \in DOMAIN keys /\ ~keys[s].revoked /\ keys[s].public = s
    <3> DEFINE K == {[id |-> s, public |-> s, revoked |-> FALSE] : s \in Signers}
    <3>1. SUFFICES ASSUME NEW s \in Signers PROVE s \in DOMAIN keys /\ ~keys[s].revoked /\ keys[s].public = s
      OBVIOUS
    <3>2. \E x \in K : x.id = s
      <4>1. [id |-> s, public |-> s, revoked |-> FALSE] \in K
        OBVIOUS
      <4>2. [id |-> s, public |-> s, revoked |-> FALSE].id = s
        OBVIOUS
      <4> HIDE DEF K
      <4> QED
        BY <4>1, <4>2
    <3>3. \A x \in K : x.id = s => ~x.revoked /\ x.public = s
      OBVIOUS
    <3>4. s \in {x.id : x \in K}
      BY <3>2
    <3> HIDE DEF K
    <3>5. s \in DOMAIN NewKeySet(K) /\ NewKeySet(K)[s] = CHOOSE x \in K : x.id = s
      BY <3>4 DEF NewKeySet
    <3>6. NewKeySet(K)[s] \in K /\ NewKeySet(K)[s].id = s
      BY <3>2, <3>5
    <3>7. s \in DOMAIN NewKeySet(K) /\ ~NewKeySet(K)[s].revoked /\ NewKeySet(K)[s].public = s
      BY <3>3, <3>5, <3>6
    <3> QED
      BY <3>7 DEF K
  <2> HIDE DEF keys
  <2>4. \A s \in Signers : Resolves(keys, s)
    BY <2>3 DEF Resolves
  <2>5. VerifyChain(chain, keys) <=> SaysNoOutcome(chain)
    BY <2>2, <2>4, WholeVerifies
  <2> QED
    BY <2>1, <2>5 DEF AppendedVerifies, keys
<1>3. AuditInv => KeyedAppendsAreOnce
  <2> SUFFICES ASSUME AuditInv, ~lost, NEW w \in Writers, appends[w].pc = "answered", appends[w].key \in RequestKeys
               PROVE  LET same == {i \in DOMAIN rows : rows[i].key = appends[w].key} IN
                      Cardinality(same) = 1 /\ \A i \in same : rows[i].body = appends[w].body
    BY DEF KeyedAppendsAreOnce
  <2> DEFINE same == {i \in DOMAIN rows : rows[i].key = appends[w].key}
  <2>1. PICK i \in DOMAIN rows : rows[i].key = appends[w].key /\ rows[i].body = appends[w].body
    BY DEF AuditInv, AppendKnows, Quiet
  <2>2. \A j \in same : rows[j].id = <<"keyed", appends[w].key>>
    BY DEF AuditInv, RowsInv, RowKnows
  <2>3. same = {i}
    <3>1. \A k, j \in DOMAIN rows : rows[k].id = rows[j].id => k = j
      BY DEF AuditInv, RowsInv
    <3> QED
      BY <2>1, <2>2, <3>1
  <2>4. Cardinality(same) = 1
    BY <2>3, FS_Singleton
  <2> QED
    BY <2>1, <2>3, <2>4
<1>4. AuditInv => ChainsAreSound
  <2> SUFFICES ASSUME AuditInv
               PROVE  \A i \in DOMAIN rows : rows[i].seq = 0 => rows[i].prev = IF i = 1 THEN Nil ELSE rows[i - 1].hash
    BY <1>2 DEF ChainsAreSound
  <2> QED
    BY DEF AuditInv, RowsInv, RowKnows
<1>5. AuditInv => LedgerIsSound
  BY <1>1, <1>3, <1>4 DEF LedgerIsSound
<1> QED
  BY <1>5, AuditInvariant, PTL

-----------------------------------------------------------------------------
(* Packages.                                                               *)

\* An event as the code builds it: it has these fields and no other.
IsEvent(e) ==
  e = [id |-> e.id, tenant |-> e.tenant, seq |-> e.seq, body |-> e.body, prev |-> e.prev,
       hash |-> e.hash, signature |-> e.signature, key |-> e.key, late |-> e.late]

\* What a package is built from.
Packed(c) == Whole(c) /\ c # <<>> /\ \A n \in DOMAIN c : IsEvent(c[n])

\* A package is the bundle of a chain that was appended.
IsPackage(p) ==
  /\ Packed(p.events) /\ p.batch.signature.key \in Signers
  /\ \A x \in p.keys : x.public = x.id
  /\ p = BuildBundle(p.events, p.keys, p.batch.signature.key)

PackageInv ==
  /\ \A i \in DOMAIN rows : IsEvent(rows[i])
  /\ \A o \in Operators :
       /\ exports[o].pc = "keys" => Packed(exports[o].events) /\ exports[o].signer \in Signers
       /\ exports[o].pc = "package" => IsPackage(exports[o].package)

\* The committed row is an event.
LEMMA InsertedIsEvent ==
  ASSUME NEW w, NEW late
  PROVE  IsEvent(Inserted(w, late))
<1> HIDE DEF AuditID, AllocateNextTenantSeq, GetLatestSignedEnterpriseAuditHash, GetLatestEnterpriseAuditHash
<1> QED
  BY DEF Inserted, Built, SignEvent, NewEvent, IsEvent

LEMMA BuiltIsEvent ==
  ASSUME NEW w
  PROVE  IsEvent(Built(w))
<1> HIDE DEF AuditID, AllocateNextTenantSeq, GetLatestSignedEnterpriseAuditHash, GetLatestEnterpriseAuditHash
<1> QED
  BY DEF Built, SignEvent, NewEvent, IsEvent

\* A bundle of what was read is a package.
LEMMA BundleIsPackage ==
  ASSUME NEW chain, Packed(chain), NEW keys, \A x \in keys : x.public = x.id, NEW signer \in Signers,
         NEW p, p = BuildBundle(chain, keys, signer)
  PROVE  IsPackage(p)
<1>1. p.events = chain /\ p.keys = keys
  BY DEF BuildBundle
<1>2. p.batch.signature.key = signer
  BY DEF BuildBundle, Ed25519Signer, BatchOf, Signature
<1> QED
  BY <1>1, <1>2 DEF IsPackage

\* A command keeps what it has.
LEMMA OthersKept ==
  ASSUME PackageInv, NEW o \in Operators, exports' = [exports EXCEPT ![o] = exports'[o]], DOMAIN exports = Operators,
         exports'[o].pc = "keys" => Packed(exports'[o].events) /\ exports'[o].signer \in Signers,
         exports'[o].pc = "package" => IsPackage(exports'[o].package)
  PROVE  \A x \in Operators :
           /\ exports'[x].pc = "keys" => Packed(exports'[x].events) /\ exports'[x].signer \in Signers
           /\ exports'[x].pc = "package" => IsPackage(exports'[x].package)
<1>1. \A x \in Operators : x # o => exports'[x] = exports[x]
  OBVIOUS
<1> QED
  BY <1>1 DEF PackageInv

\* Rows are events, whoever appends and whatever is lost.
LEMMA RowsAreEvents ==
  ASSUME AuditInv, PackageInv, [AuditNext]_auditVars
  PROVE  \A i \in DOMAIN rows' : IsEvent(rows'[i])
<1>0. rows \in Seq(Range(rows)) /\ DOMAIN rows = 1..Len(rows) /\ Len(rows) \in Nat
  BY OwnRange DEF AuditInv, RowsInv
<1>1. CASE rows' = rows
  BY <1>1 DEF PackageInv
<1>2. ASSUME NEW w \in Writers, AppendRow(w) PROVE \A i \in DOMAIN rows' : IsEvent(rows'[i])
  <2>1. appends[w].event = Built(w)
    BY <1>2 DEF AuditInv, AppendRow, Quiet, AppendKnows
  <2>2. PICK r : IsEvent(r) /\ rows' = Append(rows, r)
    <3> DEFINE e == appends[w].event  l == e.signature.key \in revoked
    <3>1. rows' = Append(rows, e) \/ rows' = Append(rows, [e EXCEPT !.late = l])
      BY <1>2 DEF AppendRow, AppendAuditEvent, AppendSignedAuditEvent
    <3>2. IsEvent(e) /\ IsEvent([e EXCEPT !.late = l])
      <4> HIDE DEF l
      <4> QED
        BY <2>1, BuiltIsEvent, InsertedIsEvent DEF Inserted
    <3> HIDE DEF e, l
    <3> QED
      BY <3>1, <3>2
  <2>3. rows \in Seq(Range(rows) \cup {r})
    BY <1>0, SeqDef DEF Range
  <2>4. /\ DOMAIN rows' = 1..(Len(rows) + 1) /\ rows'[Len(rows) + 1] = r
        /\ \A i \in 1..Len(rows) : rows'[i] = rows[i]
    BY <1>0, <2>2, <2>3, AppendProperties
  <2>5. ASSUME NEW i \in DOMAIN rows' PROVE IsEvent(rows'[i])
    <3>1. i \in 1..Len(rows) \/ i = Len(rows) + 1
      BY <1>0, <2>4
    <3> QED
      BY <1>0, <2>2, <2>4, <3>1 DEF PackageInv
  <2> QED
    BY <2>5
<1>3. CASE LoseTail
  <2>1. rows' = [i \in 1..(Len(rows) - 1) |-> rows[i]]
    BY <1>3 DEF LoseTail, Front, SubSeq
  <2>2. \A i \in 1..(Len(rows) - 1) : i \in DOMAIN rows
    BY <1>0
  <2> QED
    BY <2>1, <2>2 DEF PackageInv
<1>4. ASSUME NEW w \in Writers, WriterStep(w), ~AppendRow(w) PROVE rows' = rows
  BY <1>4 DEF WriterStep, AppendAuditEvidence, AppendApprovalTransmissionAudit, AppendEvidenceLineageAudit,
     AppendActionTransitionAudit, Begin, AnswerFromRow, Chain, EndAppend
<1>5. ASSUME NEW o \in Operators, NEW k \in Signers, OperatorStep(o, k) PROVE rows' = rows
  BY <1>5 DEF OperatorStep, ReadSignedAuditChain, BuildVerificationPackage, PersistActionAuditCheckpoint,
     DetectActionAuditTruncation, CompareHead, EndExport
<1>6. ASSUME NEW k \in Signers, BuildAuditSigner(k) \/ RevokeAuditSigningKey(k) PROVE rows' = rows
  BY <1>6 DEF BuildAuditSigner, RevokeAuditSigningKey
<1>7. CASE UNCHANGED auditVars
  BY <1>1, <1>7 DEF auditVars
<1> QED
  BY <1>1, <1>2, <1>3, <1>4, <1>5, <1>6, <1>7 DEF AuditNext

\* What an operator has read or built is of the chain, whoever goes on.
LEMMA PackagesAreOfTheChain ==
  ASSUME AuditInv, PackageInv, [AuditNext]_auditVars
  PROVE  \A o \in Operators :
           /\ exports'[o].pc = "keys" => Packed(exports'[o].events) /\ exports'[o].signer \in Signers
           /\ exports'[o].pc = "package" => IsPackage(exports'[o].package)
<1>0. DOMAIN exports = Operators
  BY DEF AuditInv, AuditTypes
<1>1. CASE exports' = exports
  BY <1>1 DEF PackageInv
<1>2. ASSUME NEW o \in Operators, NEW purpose, NEW signer \in Signers, ReadSignedAuditChain(o, purpose, signer)
      PROVE  /\ exports' = [exports EXCEPT ![o] = exports'[o]] /\ exports'[o].pc = "keys"
             /\ Packed(exports'[o].events) /\ exports'[o].signer \in Signers
  <2>1. PICK chain : chain = ListSignedAuditEventsForTenant
    OBVIOUS
  <2>2. Whole(chain) /\ chain # <<>> /\ \A n \in DOMAIN chain : \E i \in SignedRows : chain[n] = rows[i]
    BY <1>2, <2>1, ChainIsWhole DEF ReadSignedAuditChain
  <2>3. \A n \in DOMAIN chain : IsEvent(chain[n])
    BY <2>2 DEF PackageInv, SignedRows
  <2>4. exports' = [exports EXCEPT ![o] = [pc |-> "keys", purpose |-> purpose, signer |-> signer, events |-> chain]]
    BY <1>2, <2>1 DEF ReadSignedAuditChain
  <2> QED
    BY <1>0, <2>2, <2>3, <2>4 DEF Packed
<1>3. ASSUME NEW o \in Operators, BuildVerificationPackage(o)
      PROVE  /\ exports' = [exports EXCEPT ![o] = exports'[o]] /\ exports'[o].pc = "package"
             /\ IsPackage(exports'[o].package)
  <2>1. Packed(exports[o].events) /\ exports[o].signer \in Signers
    BY <1>3 DEF BuildVerificationPackage, PackageInv
  <2>2. PICK p : p = BuildBundle(exports[o].events, RegisteredSigningKeys, exports[o].signer)
    OBVIOUS
  <2>3. \A x \in RegisteredSigningKeys : x.public = x.id
    BY DEF RegisteredSigningKeys
  <2>4. IsPackage(p)
    BY <2>1, <2>2, <2>3, BundleIsPackage
  <2>5. exports' = [exports EXCEPT ![o] = [pc |-> "package", package |-> p]]
    BY <1>3, <2>2 DEF BuildVerificationPackage
  <2> QED
    BY <1>0, <2>4, <2>5
<1>4. ASSUME NEW o \in Operators, NEW k \in Signers,
             PersistActionAuditCheckpoint(o) \/ DetectActionAuditTruncation(o, k) \/ CompareHead(o) \/ EndExport(o)
      PROVE  exports' = [exports EXCEPT ![o] = exports'[o]] /\ exports'[o].pc \in {"rest", "compare", "verdict"}
  BY <1>0, <1>4 DEF PersistActionAuditCheckpoint, DetectActionAuditTruncation, CompareHead, EndExport, Quiet
<1>5. ASSUME NEW o \in Operators, NEW k \in Signers, OperatorStep(o, k)
      PROVE  \A x \in Operators :
               /\ exports'[x].pc = "keys" => Packed(exports'[x].events) /\ exports'[x].signer \in Signers
               /\ exports'[x].pc = "package" => IsPackage(exports'[x].package)
  <2>1. /\ exports' = [exports EXCEPT ![o] = exports'[o]]
        /\ exports'[o].pc = "keys" => Packed(exports'[o].events) /\ exports'[o].signer \in Signers
        /\ exports'[o].pc = "package" => IsPackage(exports'[o].package)
    <3>1. ASSUME NEW purpose, ReadSignedAuditChain(o, purpose, k)
          PROVE  /\ exports' = [exports EXCEPT ![o] = exports'[o]] /\ exports'[o].pc = "keys"
                 /\ Packed(exports'[o].events) /\ exports'[o].signer \in Signers
      BY <1>2, <3>1
    <3> QED
      BY <1>3, <1>4, <1>5, <3>1 DEF OperatorStep
  <2> QED
    BY <1>0, <2>1, OthersKept
<1>6. ASSUME NEW w \in Writers, WriterStep(w) PROVE exports' = exports
  BY <1>6 DEF WriterStep, AppendAuditEvidence, AppendApprovalTransmissionAudit, AppendEvidenceLineageAudit,
     AppendActionTransitionAudit, Begin, AnswerFromRow, Chain, AppendRow, EndAppend
<1>7. ASSUME NEW k \in Signers, BuildAuditSigner(k) \/ RevokeAuditSigningKey(k) PROVE exports' = exports
  BY <1>7 DEF BuildAuditSigner, RevokeAuditSigningKey
<1>8. CASE LoseTail
  BY <1>1, <1>8 DEF LoseTail
<1>9. CASE UNCHANGED auditVars
  BY <1>1, <1>9 DEF auditVars
<1> QED
  BY <1>1, <1>5, <1>6, <1>7, <1>8, <1>9 DEF AuditNext

\* Every package is the bundle of a chain that was appended.
THEOREM PackageInvariant == AuditSpec => []PackageInv
<1>1. AuditInit => PackageInv
  BY DEF AuditInit, PackageInv, Quiet
<1>2. AuditInv /\ PackageInv /\ [AuditNext]_auditVars => PackageInv'
  BY RowsAreEvents, PackagesAreOfTheChain DEF PackageInv
<1> QED
  BY <1>1, <1>2, AuditInvariant, PTL DEF AuditSpec

\* What is in a package.
LEMMA PackageFacts ==
  ASSUME NEW p, IsPackage(p)
  PROVE  /\ \E n \in Nat :
              /\ Len(p.events) = n /\ n >= 1 /\ DOMAIN p.events = 1..n /\ p.events = [i \in 1..n |-> p.events[i]]
              /\ EventHashes(p.events) = [i \in 1..n |-> p.events[i].hash]
              /\ p.witnesses = [i \in 1..n |-> MerkleProof(EventHashes(p.events), i - 1)]
         /\ p = [tenant |-> Tenant, events |-> p.events, keys |-> p.keys, batch |-> p.batch, witnesses |-> p.witnesses]
         /\ p.batch = [tenant |-> Tenant, first |-> p.events[1].seq, last |-> Last(p.events).seq,
                       count |-> Len(p.events), root |-> MerkleRoot(EventHashes(p.events)),
                       signature |-> p.batch.signature]
         /\ \E s \in Signers : p.batch.signature = Signature(s, CanonicalBatch(p.batch))
<1>1. PICK s \in Signers : s = p.batch.signature.key /\ p = BuildBundle(p.events, p.keys, s)
  BY DEF IsPackage
<1>2. PICK e, h, w, b : /\ e = p.events /\ h = EventHashes(e) /\ b = Ed25519Signer(BatchOf(e), s)
                        /\ w = [i \in DOMAIN e |-> MerkleProof(h, i - 1)]
  OBVIOUS
<1>3. p = [tenant |-> Tenant, events |-> e, keys |-> p.keys, batch |-> b, witnesses |-> w]
  BY <1>1, <1>2 DEF BuildBundle
<1>4. p.batch = b /\ p.witnesses = w /\ p.tenant = Tenant
  BY <1>3
<1>5. PICK n \in Nat : Len(e) = n /\ n # 0 /\ DOMAIN e = 1..n /\ e = [i \in 1..n |-> e[i]]
  <2>1. e \in Seq(Range(e)) /\ e # <<>>
    BY <1>2 DEF IsPackage, Packed, Whole
  <2>2. PICK n \in Nat : n = Len(e)
    BY <2>1, OwnRange
  <2>3. e \in [1..n -> Range(e)] /\ DOMAIN e = 1..n
    BY <2>1, <2>2, LenProperties
  <2>4. n # 0
    BY <2>1, <2>2, OwnRange
  <2> QED
    BY <2>2, <2>3, <2>4
<1>6. PICK q : q = CanonicalBatch(BatchOf(e))
  OBVIOUS
<1>7. b = [tenant |-> Tenant, first |-> e[1].seq, last |-> Last(e).seq, count |-> Len(e), root |-> MerkleRoot(h),
           signature |-> Signature(s, q)]
  BY <1>2, <1>6 DEF Ed25519Signer, BatchOf
<1>8. CanonicalBatch(b) = q
  <2>1. /\ b.tenant = Tenant /\ b.first = e[1].seq /\ b.last = Last(e).seq /\ b.count = Len(e)
        /\ b.root = MerkleRoot(h)
    BY <1>7
  <2>2. PICK u : u = BatchOf(e)
    OBVIOUS
  <2>3. /\ u.tenant = Tenant /\ u.first = e[1].seq /\ u.last = Last(e).seq /\ u.count = Len(e)
        /\ u.root = MerkleRoot(h)
    BY <1>2, <2>2 DEF BatchOf
  <2> QED
    BY <1>6, <2>1, <2>2, <2>3 DEF CanonicalBatch
<1>9. b.signature = Signature(s, q)
  BY <1>7
<1>10. h = [i \in 1..n |-> e[i].hash]
  BY <1>2, <1>5 DEF EventHashes
<1>11. w = [i \in 1..n |-> MerkleProof(h, i - 1)]
  BY <1>2, <1>5
<1>12. p.batch.signature = Signature(s, CanonicalBatch(p.batch))
  BY <1>4, <1>8, <1>9
<1>13. p = [tenant |-> Tenant, events |-> p.events, keys |-> p.keys, batch |-> p.batch, witnesses |-> p.witnesses]
  BY <1>2, <1>3, <1>4
<1>14. p.batch = [tenant |-> Tenant, first |-> p.events[1].seq, last |-> Last(p.events).seq,
                  count |-> Len(p.events), root |-> MerkleRoot(EventHashes(p.events)),
                  signature |-> p.batch.signature]
  BY <1>2, <1>4, <1>7, <1>9
<1>15. p.witnesses = [i \in 1..n |-> MerkleProof(EventHashes(p.events), i - 1)]
  BY <1>2, <1>4, <1>11
<1>16. EventHashes(p.events) = [i \in 1..n |-> p.events[i].hash]
  BY <1>2, <1>10
<1>17. Len(p.events) = n /\ n >= 1 /\ DOMAIN p.events = 1..n /\ p.events = [i \in 1..n |-> p.events[i]]
  BY <1>2, <1>5
<1> QED
  BY <1>12, <1>13, <1>14, <1>15, <1>16, <1>17

\* The events of a package: numbered, signed and of hashes of their own.
LEMMA EventFacts ==
  ASSUME NEW p, IsPackage(p), NEW i \in DOMAIN p.events
  PROVE  /\ p.events[i].seq = i /\ p.events[i].hash = Canonical(p.events[i]) /\ p.events[i].tenant = Tenant
         /\ IsEvent(p.events[i]) /\ p.events[i].signature.over = Canonical(p.events[i])
         /\ \A j \in DOMAIN p.events : p.events[i].hash = p.events[j].hash => i = j
<1>1. \A j \in DOMAIN p.events :
        p.events[j].seq = j /\ p.events[j].hash = Canonical(p.events[j]) /\ p.events[j].tenant = Tenant
  BY DEF IsPackage, Packed, Whole, EventHash
<1>2. ASSUME NEW j \in DOMAIN p.events PROVE p.events[j].hash.seq = j
  <2>1. PICK e : e = p.events[j]
    OBVIOUS
  <2>2. e.seq = j /\ e.hash = Canonical(e)
    BY <1>1, <2>1
  <2>3. Canonical(e).seq = e.seq
    BY DEF Canonical
  <2> QED
    BY <2>1, <2>2, <2>3
<1>3. IsEvent(p.events[i])
  BY DEF IsPackage, Packed
<1>4. p.events[i].signature.over = Canonical(p.events[i])
  <2>1. PICK k \in Signers : p.events[i].signature = Signature(k, Canonical(p.events[i]))
    BY DEF IsPackage, Packed, Whole
  <2> QED
    BY <2>1 DEF Signature
<1> QED
  BY <1>1, <1>2, <1>3, <1>4

\* The hashes of a package are a batch, and its witnesses are exact.
LEMMA WitnessFacts ==
  ASSUME NEW p, IsPackage(p), NEW i \in DOMAIN p.events, NEW j \in DOMAIN p.events
  PROVE  VerifyMerkleProof(p.events[j].hash, MerkleRoot(EventHashes(p.events)), p.witnesses[i]) <=> i = j
<1>1. PICK n \in Nat :
        /\ Len(p.events) = n /\ n >= 1 /\ DOMAIN p.events = 1..n /\ p.events = [x \in 1..n |-> p.events[x]]
        /\ EventHashes(p.events) = [x \in 1..n |-> p.events[x].hash]
        /\ p.witnesses = [x \in 1..n |-> MerkleProof(EventHashes(p.events), x - 1)]
  BY PackageFacts
<1>2. PICK h : h = EventHashes(p.events)
  OBVIOUS
<1>3. h = [x \in 1..n |-> h[x]] /\ h[i] = p.events[i].hash
  BY <1>1, <1>2
<1>4. h \in Seq(Range(h)) /\ Len(h) = n
  BY <1>3, Sequence
<1>5. i \in 1..Len(h)
  BY <1>1, <1>4
<1>6. PICK v : v = p.events[j].hash
  OBVIOUS
<1>7. VerifyMerkleProof(v, MerkleRoot(h), MerkleProof(h, i - 1)) <=> v = h[i]
  BY <1>4, <1>5, WitnessIsExact
<1>8. p.witnesses[i] = MerkleProof(h, i - 1)
  BY <1>1, <1>2
<1>9. v = h[i] <=> i = j
  BY <1>3, <1>6, EventFacts
<1> QED
  BY <1>2, <1>6, <1>7, <1>8, <1>9

\* A package of keys that are not revoked verifies, unless one of its words
\* asserts an outcome.
LEMMA PackageVerifies ==
  ASSUME NEW p, IsPackage(p), \A x \in p.keys : ~x.revoked
  PROVE  VerifyBundle(p) <=> SaysNoOutcome(p.events)
<1>1. PICK resolver : resolver = AnchoredResolver(p.keys)
  OBVIOUS
<1>2. \A s \in Signers : Resolves(resolver, s)
  BY <1>1 DEF AnchoredResolver, Resolves
<1>3. VerifyChain(p.events, resolver) <=> SaysNoOutcome(p.events)
  BY <1>2, WholeVerifies DEF IsPackage, Packed
<1>4. PICK n \in Nat :
        /\ Len(p.events) = n /\ n >= 1 /\ DOMAIN p.events = 1..n
        /\ p.witnesses = [x \in 1..n |-> MerkleProof(EventHashes(p.events), x - 1)]
  BY PackageFacts
<1>5. Len(p.witnesses) = Len(p.events)
  <2>1. PICK w : w = p.witnesses
    OBVIOUS
  <2>2. w = [x \in 1..n |-> w[x]]
    BY <1>4, <2>1
  <2>3. Len(w) = n
    BY <2>2, Sequence
  <2> QED
    BY <1>4, <2>1, <2>3
<1>6. \A i \in DOMAIN p.events : VerifyMerkleProof(p.events[i].hash, MerkleRoot(EventHashes(p.events)), p.witnesses[i])
  BY WitnessFacts
<1>7. p.tenant = Tenant /\ p.tenant = p.events[1].tenant
  <2>1. p = [tenant |-> Tenant, events |-> p.events, keys |-> p.keys, batch |-> p.batch, witnesses |-> p.witnesses]
    BY PackageFacts
  <2>2. p.tenant = Tenant
    BY <2>1
  <2>3. 1 \in DOMAIN p.events
    BY <1>4
  <2> QED
    BY <2>2, <2>3, EventFacts
<1>8. /\ p.batch.root = MerkleRoot(EventHashes(p.events)) /\ p.batch.tenant = Tenant
      /\ p.batch.first = p.events[1].seq /\ p.batch.last = Last(p.events).seq /\ p.batch.count = Len(p.events)
  <2>1. p.batch = [tenant |-> Tenant, first |-> p.events[1].seq, last |-> Last(p.events).seq,
                   count |-> Len(p.events), root |-> MerkleRoot(EventHashes(p.events)),
                   signature |-> p.batch.signature]
    BY PackageFacts
  <2> QED
    BY <2>1
<1>9. VerifyBatchRoot(p.batch, resolver)
  <2>1. PICK s \in Signers : p.batch.signature = Signature(s, CanonicalBatch(p.batch))
    BY PackageFacts
  <2> QED
    BY <1>2, <2>1, SignedIsAuthentic DEF VerifyBatchRoot
<1>10. p.events # <<>> /\ \A x \in p.keys : x.id \in Signers => x.public = x.id
  BY DEF IsPackage, Packed
<1> QED
  BY <1>1, <1>3, <1>5, <1>6, <1>7, <1>8, <1>9, <1>10 DEF VerifyBundle

\* A rebuilt bundle that verifies is rebuilt from events of the same hashes: the
\* signed root determines them.
LEMMA RebuiltHashes ==
  ASSUME NEW p, IsPackage(p), NEW m \in Nat, m # 0, NEW ev, ev = [i \in 1..m |-> ev[i]],
         VerifyBundle(Rebuilt(p, ev))
  PROVE  m = Len(p.events) /\ \A i \in 1..m : ev[i].hash = p.events[i].hash
<1>1. PICK n \in Nat :
        n = Len(p.events) /\ n >= 1 /\ EventHashes(p.events) = [x \in 1..n |-> p.events[x].hash]
  BY PackageFacts
<1>2. PICK g, h : g = EventHashes(ev) /\ h = EventHashes(p.events)
  OBVIOUS
<1>3. g = [i \in 1..m |-> ev[i].hash] /\ h = [i \in 1..n |-> p.events[i].hash]
  <2>1. DOMAIN ev = 1..m
    OBVIOUS
  <2> QED
    BY <1>1, <1>2, <2>1 DEF EventHashes
<1>4. g = [i \in 1..m |-> g[i]] /\ h = [i \in 1..n |-> h[i]]
  BY <1>3
<1>5. g \in Seq(Range(g)) /\ Len(g) = m /\ h \in Seq(Range(h)) /\ Len(h) = n
  BY <1>4, Sequence
<1>6. g # <<>> /\ h # <<>>
  <2>1. g # <<>>
    BY <1>4, Sequence
  <2>2. h # <<>>
    BY <1>1, <1>4, Sequence
  <2> QED
    BY <2>1, <2>2
<1>7. PICK d : d = Rebuilt(p, ev)
  OBVIOUS
<1>8. d.batch = [BatchOf(ev) EXCEPT !.signature = p.batch.signature]
  <2>1. p = [tenant |-> Tenant, events |-> p.events, keys |-> p.keys, batch |-> p.batch, witnesses |-> p.witnesses]
    BY PackageFacts
  <2>2. PICK b : b = [BatchOf(ev) EXCEPT !.signature = p.batch.signature]
    OBVIOUS
  <2>3. d = [p EXCEPT !.events = ev, !.batch = b, !.witnesses = [i \in DOMAIN ev |-> MerkleProof(EventHashes(ev), i - 1)]]
    BY <1>7, <2>2 DEF Rebuilt
  <2>4. d.batch = b
    BY <2>1, <2>3
  <2> QED
    BY <2>2, <2>4
<1>9. d.batch.signature = p.batch.signature /\ d.batch.root = MerkleRoot(g)
  BY <1>2, <1>8 DEF BatchOf
<1>10. d.batch.signature.over = CanonicalBatch(d.batch)
  <2>1. VerifyBatchRoot(d.batch, AnchoredResolver(d.keys))
    BY <1>7 DEF VerifyBundle
  <2> QED
    BY <2>1 DEF VerifyBatchRoot, Authentic
<1>11. p.batch.signature.over = CanonicalBatch(p.batch) /\ p.batch.root = MerkleRoot(h)
  <2>1. PICK s \in Signers : p.batch.signature = Signature(s, CanonicalBatch(p.batch))
    BY PackageFacts
  <2>2. p.batch.signature.over = CanonicalBatch(p.batch)
    BY <2>1 DEF Signature
  <2>3. p.batch = [tenant |-> Tenant, first |-> p.events[1].seq, last |-> Last(p.events).seq,
                   count |-> Len(p.events), root |-> MerkleRoot(EventHashes(p.events)),
                   signature |-> p.batch.signature]
    BY PackageFacts
  <2>4. p.batch.root = MerkleRoot(h)
    BY <1>2, <2>3
  <2> QED
    BY <2>2, <2>4
<1>12. CanonicalBatch(d.batch).root = MerkleRoot(g) /\ CanonicalBatch(p.batch).root = MerkleRoot(h)
  BY <1>9, <1>11 DEF CanonicalBatch
<1>13. MerkleRoot(g) = MerkleRoot(h)
  BY <1>9, <1>10, <1>11, <1>12
<1>14. g = h
  <2>1. PICK T : T = Range(g) \cup Range(h)
    OBVIOUS
  <2>2. g \in Seq(T) /\ h \in Seq(T)
    <3>1. g \in [1..m -> T] /\ h \in [1..n -> T]
      BY <1>4, <2>1 DEF Range
    <3> QED
      BY <3>1, SeqDef
  <2> QED
    BY <1>6, <1>13, <2>2, RootIsExact
<1>15. m = n
  BY <1>5, <1>14
<1>16. ASSUME NEW i \in 1..m PROVE ev[i].hash = p.events[i].hash
  <2>1. g[i] = ev[i].hash /\ h[i] = p.events[i].hash
    BY <1>3, <1>15
  <2> QED
    BY <1>14, <2>1
<1> QED
  BY <1>1, <1>15, <1>16

\* Rebuilt from events that their hashes determine, it is what it was.
LEMMA RebuiltUnchanged ==
  ASSUME NEW p, IsPackage(p), NEW m \in Nat, m # 0, NEW ev, ev = [i \in 1..m |-> ev[i]],
         VerifyBundle(Rebuilt(p, ev)),
         \A i \in DOMAIN p.events : i \in 1..m /\ ev[i].hash = p.events[i].hash => ev[i] = p.events[i]
  PROVE  Rebuilt(p, ev).events = p.events /\ Rebuilt(p, ev).witnesses = p.witnesses
<1>1. PICK n \in Nat :
        /\ n = Len(p.events) /\ DOMAIN p.events = 1..n /\ p.events = [i \in 1..n |-> p.events[i]]
        /\ p.witnesses = [x \in 1..n |-> MerkleProof(EventHashes(p.events), x - 1)]
  BY PackageFacts
<1>2. m = n /\ \A i \in 1..n : ev[i].hash = p.events[i].hash
  BY <1>1, RebuiltHashes
<1>3. ev = p.events
  <2>1. \A i \in 1..n : ev[i] = p.events[i]
    BY <1>1, <1>2
  <2> QED
    BY <1>1, <1>2, <2>1
<1>4. p = [tenant |-> Tenant, events |-> p.events, keys |-> p.keys, batch |-> p.batch, witnesses |-> p.witnesses]
  BY PackageFacts
<1>5. PICK b, w : /\ b = [BatchOf(ev) EXCEPT !.signature = p.batch.signature]
                  /\ w = [i \in DOMAIN ev |-> MerkleProof(EventHashes(ev), i - 1)]
  OBVIOUS
<1>6. Rebuilt(p, ev) = [p EXCEPT !.events = ev, !.batch = b, !.witnesses = w]
  BY <1>5 DEF Rebuilt
<1>7. Rebuilt(p, ev).events = ev /\ Rebuilt(p, ev).witnesses = w
  BY <1>4, <1>6
<1>8. w = p.witnesses
  BY <1>1, <1>3, <1>5
<1> QED
  BY <1>3, <1>7, <1>8

\* An event that is altered, hash and all, has another hash.
LEMMA AlteredHash ==
  ASSUME NEW e, IsEvent(e), e.hash = Canonical(e)
  PROVE  /\ \A b : Rehashed([e EXCEPT !.body = b]).hash = e.hash => Rehashed([e EXCEPT !.body = b]) = e
         /\ \A t : Rehashed([e EXCEPT !.tenant = t]).hash = e.hash => Rehashed([e EXCEPT !.tenant = t]) = e
<1>1. PICK c : c = Canonical(e)
  OBVIOUS
<1>2. /\ e = [id |-> e.id, tenant |-> e.tenant, seq |-> e.seq, body |-> e.body, prev |-> e.prev,
              hash |-> c, signature |-> e.signature, key |-> e.key, late |-> e.late]
      /\ c.tenant = e.tenant /\ c.body = e.body
  BY <1>1 DEF IsEvent, Canonical
<1>3. ASSUME NEW f, NEW b, f = [e EXCEPT !.body = b], Rehashed(f).hash = e.hash PROVE Rehashed(f) = e
  <2>1. PICK q : q = Canonical(f)
    OBVIOUS
  <2>2. Rehashed(f) = [f EXCEPT !.hash = q] /\ f.body = b /\ q.body = f.body
    BY <1>2, <1>3, <2>1 DEF Rehashed, EventHash, Canonical
  <2>3. Rehashed(f).hash = q
    BY <1>2, <1>3, <2>2
  <2>4. q = c /\ b = e.body
    BY <1>1, <1>2, <1>3, <2>2, <2>3
  <2>5. f = e
    BY <1>2, <1>3, <2>4
  <2> QED
    BY <1>2, <2>2, <2>4, <2>5
<1>4. ASSUME NEW f, NEW t, f = [e EXCEPT !.tenant = t], Rehashed(f).hash = e.hash PROVE Rehashed(f) = e
  <2>1. PICK q : q = Canonical(f)
    OBVIOUS
  <2>2. Rehashed(f) = [f EXCEPT !.hash = q] /\ f.tenant = t /\ q.tenant = f.tenant
    BY <1>2, <1>4, <2>1 DEF Rehashed, EventHash, Canonical
  <2>3. Rehashed(f).hash = q
    BY <1>2, <1>4, <2>2
  <2>4. q = c /\ t = e.tenant
    BY <1>1, <1>2, <1>4, <2>2, <2>3
  <2>5. f = e
    BY <1>2, <1>4, <2>4
  <2> QED
    BY <1>2, <2>2, <2>4, <2>5
<1> QED
  BY <1>3, <1>4

\* A package without one of its events.
LEMMA DroppedIsDetected ==
  ASSUME NEW p, IsPackage(p), Len(p.events) > 1, NEW i \in 1..Len(p.events)
  PROVE  ~VerifyBundle(Rebuilt(p, RemoveAt(p.events, i)))
<1>1. PICK n \in Nat : n = Len(p.events) /\ DOMAIN p.events = 1..n
  BY PackageFacts
<1>2. PICK e : e = p.events
  OBVIOUS
<1>3. n > 1 /\ i \in 1..n /\ \A j \in 1..n : e[j] \in Range(e)
  BY <1>1, <1>2 DEF Range
<1>4. PICK a, b : a = SubSeq(e, 1, i - 1) /\ b = SubSeq(e, i + 1, n)
  OBVIOUS
<1>5. a \in Seq(Range(e)) /\ Len(a) = i - 1
  <2>1. \A j \in 1..(i - 1) : e[j] \in Range(e)
    BY <1>3
  <2>2. Len(a) = IF 1 <= i - 1 THEN (i - 1) - 1 + 1 ELSE 0
    BY <1>3, <1>4, <2>1, SubSeqProperties
  <2>3. a \in Seq(Range(e))
    BY <1>3, <1>4, <2>1, SubSeqProperties
  <2> QED
    BY <1>3, <2>2, <2>3
<1>6. b \in Seq(Range(e)) /\ Len(b) = n - i
  <2>1. \A j \in (i + 1)..n : e[j] \in Range(e)
    BY <1>3
  <2>2. Len(b) = IF i + 1 <= n THEN n - (i + 1) + 1 ELSE 0
    BY <1>3, <1>4, <2>1, SubSeqProperties
  <2>3. b \in Seq(Range(e))
    BY <1>3, <1>4, <2>1, SubSeqProperties
  <2> QED
    BY <1>3, <2>2, <2>3
<1>7. PICK ev : ev = a \o b
  OBVIOUS
<1>8. ev \in Seq(Range(e)) /\ Len(ev) = n - 1
  BY <1>3, <1>5, <1>6, <1>7, ConcatProperties
<1>9. n - 1 \in Nat /\ n - 1 # 0 /\ ev = [j \in 1..(n - 1) |-> ev[j]]
  BY <1>3, <1>8, LenProperties
<1>10. RemoveAt(p.events, i) = ev
  BY <1>1, <1>2, <1>4, <1>7 DEF RemoveAt
<1>11. VerifyBundle(Rebuilt(p, ev)) => n - 1 = n
  BY <1>1, <1>9, RebuiltHashes
<1> QED
  BY <1>10, <1>11

\* A package with two of its events in each other's place.
LEMMA MovedIsDetected ==
  ASSUME NEW p, IsPackage(p), NEW i \in 1..Len(p.events), NEW j \in 1..Len(p.events),
         NEW d, d = Rebuilt(p, Swapped(p.events, i, j)), VerifyBundle(d)
  PROVE  d.events = p.events /\ d.witnesses = p.witnesses
<1>1. PICK n \in Nat :
        n = Len(p.events) /\ n >= 1 /\ DOMAIN p.events = 1..n /\ p.events = [x \in 1..n |-> p.events[x]]
  BY PackageFacts
<1>2. PICK e, ev : e = p.events /\ ev = Swapped(e, i, j) /\ d = Rebuilt(p, ev)
  OBVIOUS
<1>3. ev = [e EXCEPT ![i] = e[j], ![j] = e[i]]
  BY <1>2 DEF Swapped
<1>4. ev = [x \in 1..n |-> ev[x]] /\ \A x \in 1..n : \E y \in 1..n : ev[x] = e[y]
  BY <1>1, <1>2, <1>3
<1>5. ASSUME NEW x \in 1..n, ev[x].hash = p.events[x].hash PROVE ev[x] = p.events[x]
  <2>1. PICK y \in 1..n : ev[x] = p.events[y]
    BY <1>2, <1>4
  <2>2. x = y
    BY <1>1, <1>5, <2>1, EventFacts
  <2> QED
    BY <2>1, <2>2
<1>6. \A x \in DOMAIN p.events : x \in 1..n /\ ev[x].hash = p.events[x].hash => ev[x] = p.events[x]
  BY <1>5
<1>7. n \in Nat /\ n # 0 /\ ev = [x \in 1..n |-> ev[x]] /\ VerifyBundle(Rebuilt(p, ev))
  <2>1. n # 0
    BY <1>1
  <2>2. VerifyBundle(Rebuilt(p, ev))
    BY <1>2
  <2> QED
    BY <1>4, <2>1, <2>2
<1>8. Rebuilt(p, ev).events = p.events /\ Rebuilt(p, ev).witnesses = p.witnesses
  BY <1>6, <1>7, RebuiltUnchanged
<1> QED
  BY <1>2, <1>8

\* A package with one event in the place of another of the same hash.
LEMMA AlteredIsDetected ==
  ASSUME NEW p, IsPackage(p), NEW i \in 1..Len(p.events), NEW f,
         f.hash = p.events[i].hash => f = p.events[i],
         NEW d, d = Rebuilt(p, [p.events EXCEPT ![i] = f]), VerifyBundle(d)
  PROVE  d.events = p.events /\ d.witnesses = p.witnesses
<1>1. PICK n \in Nat :
        n = Len(p.events) /\ n >= 1 /\ DOMAIN p.events = 1..n /\ p.events = [x \in 1..n |-> p.events[x]]
  BY PackageFacts
<1>2. PICK e, ev : e = p.events /\ ev = [e EXCEPT ![i] = f] /\ d = Rebuilt(p, ev)
  OBVIOUS
<1>3. ev = [x \in 1..n |-> ev[x]] /\ \A x \in 1..n : ev[x] = IF x = i THEN f ELSE e[x]
  BY <1>1, <1>2
<1>4. ASSUME NEW x \in 1..n, ev[x].hash = p.events[x].hash PROVE ev[x] = p.events[x]
  <2>1. CASE x = i
    BY <1>3, <1>4, <2>1
  <2>2. CASE x # i
    BY <1>2, <1>3, <2>2
  <2> QED
    BY <2>1, <2>2
<1>5. \A x \in DOMAIN p.events : x \in 1..n /\ ev[x].hash = p.events[x].hash => ev[x] = p.events[x]
  BY <1>4
<1>6. n \in Nat /\ n # 0 /\ ev = [x \in 1..n |-> ev[x]] /\ VerifyBundle(Rebuilt(p, ev))
  <2>1. n # 0
    BY <1>1
  <2>2. VerifyBundle(Rebuilt(p, ev))
    BY <1>2
  <2> QED
    BY <1>3, <2>1, <2>2
<1>7. Rebuilt(p, ev).events = p.events /\ Rebuilt(p, ev).witnesses = p.witnesses
  BY <1>5, <1>6, RebuiltUnchanged
<1> QED
  BY <1>2, <1>7

\* A package with two of its witnesses in each other's place.
LEMMA MixedIsDetected ==
  ASSUME NEW p, IsPackage(p), NEW i \in 1..Len(p.events), NEW j \in 1..Len(p.events),
         NEW d, d = [p EXCEPT !.witnesses = Swapped(@, i, j)], VerifyBundle(d)
  PROVE  d.events = p.events /\ d.witnesses = p.witnesses
<1>1. PICK n \in Nat :
        /\ Len(p.events) = n /\ n >= 1 /\ DOMAIN p.events = 1..n /\ p.events = [x \in 1..n |-> p.events[x]]
        /\ EventHashes(p.events) = [x \in 1..n |-> p.events[x].hash]
        /\ p.witnesses = [x \in 1..n |-> MerkleProof(EventHashes(p.events), x - 1)]
  BY PackageFacts
<1>2. p = [tenant |-> Tenant, events |-> p.events, keys |-> p.keys, batch |-> p.batch, witnesses |-> p.witnesses]
  BY PackageFacts
<1>3. PICK w, u : w = p.witnesses /\ u = Swapped(w, i, j)
  OBVIOUS
<1>4. d = [p EXCEPT !.witnesses = u]
  BY <1>3
<1>5. d.events = p.events /\ d.witnesses = u
  BY <1>2, <1>4
<1>6. w = [x \in 1..n |-> w[x]] /\ u = [w EXCEPT ![i] = w[j], ![j] = w[i]]
  BY <1>1, <1>3 DEF Swapped
<1>7. i \in 1..n /\ j \in 1..n
  BY <1>1
<1>8. u[j] = w[i]
  BY <1>6, <1>7
<1>9. VerifyMerkleProof(p.events[j].hash, MerkleRoot(EventHashes(p.events)), p.witnesses[i])
  <2>1. VerifyMerkleProof(d.events[j].hash, MerkleRoot(EventHashes(d.events)), d.witnesses[j])
    BY <1>1, <1>5, <1>7 DEF VerifyBundle
  <2> QED
    BY <1>3, <1>5, <1>8, <2>1
<1>10. i = j
  <2>1. i \in DOMAIN p.events /\ j \in DOMAIN p.events
    BY <1>1, <1>7
  <2>2. VerifyMerkleProof(p.events[j].hash, MerkleRoot(EventHashes(p.events)), p.witnesses[i]) <=> i = j
    BY <2>1, WitnessFacts
  <2> QED
    BY <1>9, <2>2
<1>11. u = w
  BY <1>6, <1>7, <1>10
<1> QED
  BY <1>3, <1>5, <1>11

\* A package that a key nobody pinned signed again, under whatever name.
LEMMA ForgedIsDetected ==
  ASSUME NEW p, IsPackage(p), NEW name
  PROVE  ~VerifyBundle(Resigned(p, name))
<1>1. PICK n \in Nat : n = Len(p.events) /\ n >= 1 /\ DOMAIN p.events = 1..n
  BY PackageFacts
<1>2. p = [tenant |-> Tenant, events |-> p.events, keys |-> p.keys, batch |-> p.batch, witnesses |-> p.witnesses]
  BY PackageFacts
<1> DEFINE sig(over) == [key |-> name, by |-> Forger, over |-> over]
<1>3. PICK f, keys :
        /\ f = [x \in 1..n |-> [p.events[x] EXCEPT !.signature = sig(Canonical(p.events[x]))]]
        /\ keys = {[id |-> name, public |-> Forger, revoked |-> FALSE]}
  OBVIOUS
<1>4. PICK b : b = sig(CanonicalBatch(p.batch))
  OBVIOUS
<1>5. PICK d : d = Resigned(p, name)
  OBVIOUS
<1>6. f = [x \in DOMAIN p.events |-> [p.events[x] EXCEPT !.signature = sig(Canonical(p.events[x]))]]
  BY <1>1, <1>3
<1>7. d = [p EXCEPT !.events = f, !.keys = keys, !.batch.signature = b]
  BY <1>3, <1>4, <1>5, <1>6 DEF Resigned
<1>8. d.events = f
  BY <1>2, <1>7
<1>9. f[1].signature.key = name /\ f[1].signature.by = Forger
  <2>1. 1 \in 1..n /\ 1 \in DOMAIN p.events
    BY <1>1
  <2>2. PICK e : e = p.events[1] /\ IsEvent(e)
    BY <2>1, EventFacts
  <2>3. PICK s : s = sig(Canonical(e))
    OBVIOUS
  <2>4. f[1] = [e EXCEPT !.signature = s]
    BY <1>3, <2>1, <2>2, <2>3
  <2>5. f[1].signature = s
    BY <2>2, <2>4 DEF IsEvent
  <2> QED
    BY <2>3, <2>5
<1>10. ASSUME VerifyBundle(d) PROVE FALSE
  <2>1. PICK resolver : resolver = AnchoredResolver(d.keys)
    OBVIOUS
  <2>2. 1 \in DOMAIN d.events
    BY <1>1, <1>3, <1>8
  <2>3. VerifyChain(d.events, resolver)
    BY <1>10, <2>1 DEF VerifyBundle
  <2>4. Authentic(d.events[1].signature, Canonical(d.events[1]), resolver)
    BY <2>2, <2>3 DEF VerifyChain, VerifyEvent
  <2>5. name \in DOMAIN resolver /\ resolver[name].public = Forger
    BY <1>8, <1>9, <2>4 DEF Authentic
  <2>6. name \in Signers /\ resolver[name].public = name
    BY <2>1, <2>5 DEF AnchoredResolver
  <2> QED
    BY <2>5, <2>6, AuditAssumption
<1> QED
  BY <1>5, <1>10

\* Whatever is done to a package, it does not verify unless it is what it was.
LEMMA DamageShows ==
  ASSUME NEW p, IsPackage(p), NEW d \in Damaged(p), VerifyBundle(d)
  PROVE  d.events = p.events /\ d.witnesses = p.witnesses
<1>1. PICK n \in Nat : n = Len(p.events) /\ DOMAIN p.events = 1..n
  BY PackageFacts
<1>2. \/ \E i \in 1..n : n > 1 /\ d = Rebuilt(p, RemoveAt(p.events, i))
      \/ \E i \in 1..n, j \in 1..n : d = Rebuilt(p, Swapped(p.events, i, j))
      \/ \E i \in 1..n, b \in Bodies : d = Rebuilt(p, [p.events EXCEPT ![i] = Rehashed([@ EXCEPT !.body = b])])
      \/ \E i \in 1..n : d = Rebuilt(p, [p.events EXCEPT ![i] = Rehashed([@ EXCEPT !.tenant = Other])])
      \/ \E i \in 1..n, j \in 1..n : d = [p EXCEPT !.witnesses = Swapped(@, i, j)]
      \/ \E name \in {Forger} \cup Signers : d = Resigned(p, name)
  <2>1. PICK e : e = p.events
    OBVIOUS
  <2> DEFINE altered(i, b) == Rebuilt(p, [e EXCEPT ![i] = Rehashed([@ EXCEPT !.body = b])])
             A == {Rebuilt(p, RemoveAt(e, i)) : i \in {j \in 1..n : n > 1}}
             B == {Rebuilt(p, Swapped(e, i, j)) : i \in 1..n, j \in 1..n}
             C == {altered(i, b) : i \in 1..n, b \in Bodies}
             D == {Rebuilt(p, [e EXCEPT ![i] = Rehashed([@ EXCEPT !.tenant = Other])]) : i \in 1..n}
             E == {[p EXCEPT !.witnesses = Swapped(@, i, j)] : i \in 1..n, j \in 1..n}
             F == {Resigned(p, name) : name \in {Forger} \cup Signers}
  <2>2. Damaged(p) = UNION {A, B, C, D, E, F}
    BY <1>1, <2>1 DEF Damaged
  <2>3. d \in A => \E i \in 1..n : n > 1 /\ d = Rebuilt(p, RemoveAt(e, i))
    OBVIOUS
  <2>4. d \in B => \E i \in 1..n, j \in 1..n : d = Rebuilt(p, Swapped(e, i, j))
    OBVIOUS
  <2>5. d \in C => \E i \in 1..n, b \in Bodies : d = altered(i, b)
    <3> HIDE DEF altered
    <3> QED
      OBVIOUS
  <2>6. d \in D => \E i \in 1..n : d = Rebuilt(p, [e EXCEPT ![i] = Rehashed([@ EXCEPT !.tenant = Other])])
    OBVIOUS
  <2>7. d \in E => \E i \in 1..n, j \in 1..n : d = [p EXCEPT !.witnesses = Swapped(@, i, j)]
    OBVIOUS
  <2>8. d \in F => \E name \in {Forger} \cup Signers : d = Resigned(p, name)
    OBVIOUS
  <2>9. d \in A \/ d \in B \/ d \in C \/ d \in D \/ d \in E \/ d \in F
    <3> HIDE DEF A, B, C, D, E, F
    <3> QED
      BY <2>2
  <2> HIDE DEF A, B, C, D, E, F
  <2> QED
    BY <2>1, <2>3, <2>4, <2>5, <2>6, <2>7, <2>8, <2>9
<1>3. ASSUME NEW i \in 1..n, n > 1, d = Rebuilt(p, RemoveAt(p.events, i)) PROVE FALSE
  BY <1>1, <1>3, DroppedIsDetected
<1>4. ASSUME NEW i \in 1..n, NEW j \in 1..n, d = Rebuilt(p, Swapped(p.events, i, j))
      PROVE  d.events = p.events /\ d.witnesses = p.witnesses
  BY <1>1, <1>4, MovedIsDetected
<1>5. ASSUME NEW i \in 1..n, NEW b, d = Rebuilt(p, [p.events EXCEPT ![i] = Rehashed([@ EXCEPT !.body = b])])
      PROVE  d.events = p.events /\ d.witnesses = p.witnesses
  <2>1. PICK e : e = p.events[i] /\ IsEvent(e) /\ e.hash = Canonical(e)
    BY <1>1, EventFacts
  <2>2. PICK f : f = Rehashed([e EXCEPT !.body = b])
    OBVIOUS
  <2>3. f.hash = p.events[i].hash => f = p.events[i]
    BY <2>1, <2>2, AlteredHash
  <2>4. d = Rebuilt(p, [p.events EXCEPT ![i] = f])
    BY <1>5, <2>1, <2>2
  <2> QED
    BY <1>1, <2>3, <2>4, AlteredIsDetected
<1>6. ASSUME NEW i \in 1..n, d = Rebuilt(p, [p.events EXCEPT ![i] = Rehashed([@ EXCEPT !.tenant = Other])])
      PROVE  d.events = p.events /\ d.witnesses = p.witnesses
  <2>1. PICK e : e = p.events[i] /\ IsEvent(e) /\ e.hash = Canonical(e)
    BY <1>1, EventFacts
  <2>2. PICK f : f = Rehashed([e EXCEPT !.tenant = Other])
    OBVIOUS
  <2>3. f.hash = p.events[i].hash => f = p.events[i]
    BY <2>1, <2>2, AlteredHash
  <2>4. d = Rebuilt(p, [p.events EXCEPT ![i] = f])
    BY <1>6, <2>1, <2>2
  <2> QED
    BY <1>1, <2>3, <2>4, AlteredIsDetected
<1>7. ASSUME NEW i \in 1..n, NEW j \in 1..n, d = [p EXCEPT !.witnesses = Swapped(@, i, j)]
      PROVE  d.events = p.events /\ d.witnesses = p.witnesses
  <2>1. i \in 1..Len(p.events) /\ j \in 1..Len(p.events)
    BY <1>1
  <2> QED
    BY <1>7, <2>1, MixedIsDetected
<1>8. ASSUME NEW name, d = Resigned(p, name) PROVE FALSE
  BY <1>8, ForgedIsDetected
<1> QED
  BY <1>2, <1>3, <1>4, <1>5, <1>6, <1>7, <1>8

\* The two facts of a state.
LEMMA PackagesOfAState ==
  ASSUME PackageInv
  PROVE  DamageIsDetected /\ PackagesVerify
<1>1. ASSUME NEW p \in Packages PROVE IsPackage(p)
  BY <1>1 DEF PackageInv, Packages
<1>2. DamageIsDetected
  BY <1>1, DamageShows DEF DamageIsDetected
<1>3. PackagesVerify
  BY <1>1, PackageVerifies DEF PackagesVerify
<1> QED
  BY <1>2, <1>3

\* No damaged package verifies, whatever its events say and however many they
\* are (VerifyBundle: "Any failure is a tamper").
THEOREM DamageSoundness == AuditSpec => []DamageIsDetected
<1>1. PackageInv => DamageIsDetected
  BY PackagesOfAState
<1> QED
  BY <1>1, PackageInvariant, PTL

\* A package verifies exactly while it is the chain's own, up to the words that
\* the verifier takes for an outcome (BuildBundle and VerifyBundle).
THEOREM PackagesSoundness == AuditSpec => []PackagesAreSound
<1>1. MerkleMeetsReference
  BY AuditAssumption, MerkleIsExact DEF MerkleMeetsReference
<1>2. PackageInv => PackagesAreSound
  BY <1>1, PackagesOfAState DEF PackagesAreSound
<1> QED
  BY <1>2, PackageInvariant, PTL
=============================================================================
