---------------------------- MODULE GrantsProofs ----------------------------
(***************************************************************************)
(* What is published is true and reaches the feed, a grant is entitled and *)
(* fresh when it is recorded, and its audit events form one chain: for any *)
(* organisation, number of publishers, requests and tickets.               *)
(*                                                                         *)
(* The two advisory locks carry the argument.  Whoever holds the publication*)
(* lock is alone with the publication head and the registered owner, so     *)
(* what a request rechecked under it still holds when it commits; whoever   *)
(* holds the audit lock is alone with the end of the chain.  What was true  *)
(* of a sealed version stays true: sealing only adds versions.              *)
(*                                                                         *)
(* What a version entitles to is decided by walks over its units.  A walk  *)
(* that ends in time is the least set closed under parents, and every walk *)
(* ends in time exactly when the units are a forest: DecisionIsExact.      *)
(***************************************************************************)
EXTENDS StepGrants, TaskRuns, CapabilityDecision, FiniteSetTheorems, WellFoundedInduction, TLAPS

\* The organisation as a pair of its units and memberships.
IsOrg(o) == o = [parent |-> o.parent, members |-> o.members] /\ DOMAIN o.parent \subseteq Units

LiveFacts ==
  /\ live \in lived
  /\ \A o \in lived : IsOrg(o)

\* Sealed versions, and the head that is the latest of them.
SealedFacts ==
  /\ head \in Nat /\ DOMAIN sealed \subseteq 1..MaxVersion
  /\ DOMAIN sealed = {} => head = 0
  /\ DOMAIN sealed # {} => head \in DOMAIN sealed
  /\ \A v \in DOMAIN sealed : v <= head /\ sealed[v].event \in BOOLEAN

\* A publisher at work holds the lock, proposes a version past the head and has
\* captured the organisation of one moment.
PublisherFacts(p) ==
  /\ pub[p].pc \in {"idle", "locked", "created", "units", "members", "unlock"}
  /\ pub[p].pc # "idle" => orgLock = p
  /\ pub[p].pc \in {"locked", "created", "units", "members"} =>
       pub[p].version \in 1..MaxVersion /\ pub[p].event \in BOOLEAN
  /\ pub[p].pc \in {"created", "units", "members"} => pub[p].version > head
  /\ pub[p].pc \in {"created", "units"} => pub[p].snap \in lived
  /\ pub[p].pc = "units" => pub[p].parent = pub[p].snap.parent
  /\ pub[p].pc = "members" => [parent |-> pub[p].parent, members |-> pub[p].members] \in lived

FeedFacts ==
  /\ cursor \in Nat /\ cursor <= head
  /\ received \in Seq(Nat)
  /\ FeedComplete

OrgInv ==
  /\ LiveFacts /\ SealedFacts /\ SealedWasLive /\ FeedFacts
  /\ orgLock \in Publishers \cup Requests \cup {NoOne}
  /\ pub = [p \in Publishers |-> pub[p]]
  /\ \A p \in Publishers : PublisherFacts(p)

-----------------------------------------------------------------------------
\* A request from authorisation to the audit lock, and under it.
Pending == [pc : {"authorized", "org", "checked"}, user : Users, ticket : Tickets, version : Nat,
            unit : Units, created : Nat, expires : Nat]
Recording == [pc : {"audit"}, user : Users, ticket : Tickets, version : Nat,
              unit : Units, created : Nat, expires : Nat, prev : Nat]
Verifying == [pc : {"found"}, user : Users, now : Nat, grant : Requests]

Creating == [pc : {"create"}, user : Users, ticket : Tickets, ttl : Nat, version : Nat]

\* The sealed version entitles the user to evidence at the unit.
EntitledAt(user, version, unit) ==
  \E m \in sealed[version].members :
    /\ m[1] = user /\ m[3] = "approve_high_risk"
    /\ m[2] \in Above(sealed[version].parent, unit)

\* The issue of this request's grant is in the chain.
IssueRecorded(r) ==
  \E j \in DOMAIN audit : audit[j] = [what |-> "issue", of |-> r, prev |-> j - 1]

RequestFacts(r) ==
  /\ req[r].pc \in {"idle", "create", "authorized", "org", "checked", "audit", "verify", "found", "vaudit", "done"}
  /\ req[r].pc = "create" => req[r] \in Creating /\ req[r].version \in DOMAIN sealed
  /\ req[r].pc \in {"authorized", "org", "checked"} => req[r] \in Pending
  /\ req[r].pc = "audit" => req[r] \in Recording
  /\ req[r].pc \in {"authorized", "org", "checked", "audit"} =>
       req[r].version \in DOMAIN sealed /\ EntitledAt(req[r].user, req[r].version, req[r].unit)
  /\ req[r].pc \in {"org", "checked", "audit"} => orgLock = r
  /\ req[r].pc \in {"checked", "audit"} =>
       /\ req[r].ticket \in active /\ TicketActor[req[r].ticket] = req[r].user
       /\ req[r].version = head
       /\ owner = [unit |-> req[r].unit, version |-> req[r].version]
  /\ req[r].pc = "found" => req[r] \in Verifying
  /\ req[r].pc \in {"found", "vaudit"} => req[r].grant \in Requests /\ IssueRecorded(req[r].grant)
  /\ req[r].pc \in {"audit", "vaudit"} => auditLock = r /\ req[r].prev = Len(audit)
  /\ req[r].pc = "verify" => req[r].user \in Users /\ req[r].now \in Nat

AuditRows == [what : {"other", "issue", "verify"}, of : Requests \cup {NoOne}, prev : Nat]

GrantFacts ==
  /\ clock \in 0..MaxTime /\ active \subseteq Tickets
  /\ owner = NoOwner \/ (owner.version \in DOMAIN sealed /\ owner.unit \in DOMAIN sealed[owner.version].parent)
  /\ auditLock \in Requests \cup {NoOne}
  /\ audit \in Seq(AuditRows)
  /\ AuditChainLinear
  /\ \A g \in grants :
       /\ g.version \in DOMAIN sealed /\ g.request \in Requests
       /\ EntitledAt(g.user, g.version, g.unit) /\ IssueRecorded(g.request)

GrantInv ==
  /\ OrgInv /\ GrantFacts
  /\ req = [r \in Requests |-> req[r]]
  /\ \A r \in Requests : RequestFacts(r)

-----------------------------------------------------------------------------
(* The walk to the root.                                                   *)

\* A set of naturals that is not empty has a least element.
LEMMA LeastNatural ==
  ASSUME NEW S \in SUBSET Nat, S # {}
  PROVE  \E m \in S : \A k \in S : m <= k
<1> DEFINE R == OpToRel(<, Nat)
<1>1. IsWellFoundedOn(R, Nat)
  BY NatLessThanWellFounded
<1>2. PICK m \in S : \A k \in S : ~(<<k, m>> \in R)
  <2> HIDE DEF R
  <2> QED
    BY <1>1, WFMin
<1>3. \A k \in S : ~(k < m)
  BY <1>2 DEF OpToRel
<1> QED
  BY <1>3

\* One step of a walk.
Up(parent, x) == IF x \in DOMAIN parent THEN parent[x] ELSE x

\* f is the walk of n steps from u.
IsWalk(f, parent, u, n) == f = [i \in 0..n |-> IF i = 0 THEN u ELSE Up(parent, f[i-1])]

\* Walks of every length exist, so the recursive function is what it says.
LEMMA WalksExist ==
  ASSUME NEW parent, NEW u
  PROVE  \A n \in Nat : \E f : IsWalk(f, parent, u, n)
<1> DEFINE Good(n) == \E f : IsWalk(f, parent, u, n)
           Bad == {n \in Nat : ~Good(n)}
<1>1. SUFFICES ASSUME Bad # {} PROVE FALSE
  OBVIOUS
<1>2. PICK n \in Bad : \A k \in Bad : n <= k
  <2>1. Bad \in SUBSET Nat
    OBVIOUS
  <2> HIDE DEF Bad
  <2> QED
    BY <1>1, <2>1, LeastNatural
<1>3. n \in Nat /\ ~Good(n)
  OBVIOUS
<1>4. n # 0
  <2>1. ASSUME n = 0 PROVE Good(0)
    <3> DEFINE g == [i \in 0..0 |-> u]
    <3>1. IsWalk(g, parent, u, 0)
      BY DEF IsWalk
    <3> HIDE DEF g
    <3> QED
      BY <3>1
  <2> QED
    BY <1>3, <2>1
<1>5. n - 1 \in Nat /\ n - 1 \notin Bad
  BY <1>2, <1>3, <1>4
<1>6. PICK f : IsWalk(f, parent, u, n - 1)
  BY <1>5
<1> DEFINE g == [i \in 0..n |-> IF i = n THEN Up(parent, f[n-1]) ELSE f[i]]
<1>7. \A i \in 0..n : g[i] = IF i = 0 THEN u ELSE Up(parent, g[i-1])
  <2> SUFFICES ASSUME NEW i \in 0..n PROVE g[i] = IF i = 0 THEN u ELSE Up(parent, g[i-1])
    OBVIOUS
  <2>1. CASE i = n
    <3>1. n - 1 \in 0..n /\ n - 1 # n /\ n \in 0..n
      BY <1>3, <1>4
    <3>2. g[n] = Up(parent, f[n-1]) /\ g[n-1] = f[n-1]
      BY <3>1
    <3> HIDE DEF g
    <3> QED
      BY <1>4, <2>1, <3>2
  <2>2. CASE i # n
    <3>1. i \in 0..(n-1)
      BY <1>3, <2>2
    <3>2. g[i] = f[i] /\ (i # 0 => i - 1 \in 0..n /\ i - 1 # n /\ g[i-1] = f[i-1])
      BY <1>3, <2>2, <3>1
    <3>3. f[i] = IF i = 0 THEN u ELSE Up(parent, f[i-1])
      BY <1>6, <3>1 DEF IsWalk
    <3> HIDE DEF g
    <3> QED
      BY <3>2, <3>3
  <2> QED
    BY <2>1, <2>2
<1>8. IsWalk(g, parent, u, n)
  BY <1>7 DEF IsWalk
<1> HIDE DEF g
<1> QED
  BY <1>3, <1>8

\* What the walk is, step by step.
LEMMA WalkSteps ==
  ASSUME NEW parent, NEW u
  PROVE  /\ Walk(parent, u)[0] = u
         /\ \A i \in 1..(MaxSealedOrgDepth + 1) : Walk(parent, u)[i] = Up(parent, Walk(parent, u)[i-1])
<1> DEFINE n == MaxSealedOrgDepth + 1
<1>1. n \in Nat
  BY PolicyAssumption
<1>2. PICK f : IsWalk(f, parent, u, n)
  <2> HIDE DEF n
  <2> QED
    BY <1>1, WalksExist
<1>4. Walk(parent, u) = CHOOSE g : IsWalk(g, parent, u, n)
  BY DEF Walk, IsWalk, Up
<1>5. IsWalk(Walk(parent, u), parent, u, n)
  <2> HIDE DEF n
  <2> QED
    BY <1>2, <1>4, Zenon
<1>6. \A i \in 0..n : Walk(parent, u)[i] = IF i = 0 THEN u ELSE Up(parent, Walk(parent, u)[i-1])
  <2> DEFINE w == Walk(parent, u)
  <2> HIDE DEF w
  <2>1. IsWalk(w, parent, u, n)
    BY <1>5 DEF w
  <2>2. \A i \in 0..n : w[i] = IF i = 0 THEN u ELSE Up(parent, w[i-1])
    BY <2>1 DEF IsWalk
  <2> QED
    BY <2>2 DEF w
<1> QED
  BY <1>1, <1>6

\* A walk never leaves a set that holds its start and its members' parents.
LEMMA WalkStaysInside ==
  ASSUME NEW parent, NoUnit \notin DOMAIN parent, NEW S \in SUBSET DOMAIN parent, NEW u \in S,
         \A w \in S : parent[w] \in S \cup {NoUnit}
  PROVE  \A i \in 0..(MaxSealedOrgDepth + 1) : Walk(parent, u)[i] \in S \cup {NoUnit}
<1> DEFINE w == Walk(parent, u)
           Out == {i \in 0..(MaxSealedOrgDepth + 1) : w[i] \notin S \cup {NoUnit}}
<1> HIDE DEF w
<1>1. w[0] = u /\ \A i \in 1..(MaxSealedOrgDepth + 1) : w[i] = Up(parent, w[i-1])
  BY WalkSteps DEF w
<1>2. Out = {}
  <2> SUFFICES ASSUME Out # {} PROVE FALSE
    OBVIOUS
  <2>1. Out \in SUBSET Nat
    BY PolicyAssumption
  <2>2. PICK i \in Out : \A k \in Out : i <= k
    <3> HIDE DEF Out
    <3> QED
      BY <2>1, LeastNatural
  <2>3. i \in 0..(MaxSealedOrgDepth + 1) /\ w[i] \notin S \cup {NoUnit}
    BY <2>2
  <2>4. i # 0
    BY <1>1, <2>3
  <2>5. i \in 1..(MaxSealedOrgDepth + 1) /\ i - 1 \in 0..(MaxSealedOrgDepth + 1) /\ ~(i <= i - 1)
    BY <2>3, <2>4, PolicyAssumption
  <2>6. w[i-1] \in S \cup {NoUnit}
    BY <2>2, <2>5
  <2>7. w[i] = Up(parent, w[i-1])
    BY <1>1, <2>5
  <2> QED
    BY <2>3, <2>6, <2>7 DEF Up
<1> QED
  BY <1>2 DEF w

\* What the walk meets is above its start.
LEMMA AncestorsAreAbove ==
  ASSUME NEW parent, NoUnit \notin DOMAIN parent, NEW u \in DOMAIN parent,
         NEW v \in AncestorsOf(parent, u), v \in DOMAIN parent
  PROVE  v \in Above(parent, u)
<1>1. PICK i \in 0..MaxSealedOrgDepth : v = Walk(parent, u)[i] /\ v # NoUnit
  BY DEF AncestorsOf
<1>2. i \in 0..(MaxSealedOrgDepth + 1)
  BY PolicyAssumption
<1>3. ASSUME NEW S \in SUBSET DOMAIN parent, u \in S, \A w \in S : parent[w] \in S \cup {NoUnit} PROVE v \in S
  <2>1. \A k \in 0..(MaxSealedOrgDepth + 1) : Walk(parent, u)[k] \in S \cup {NoUnit}
    BY <1>3, WalkStaysInside
  <2> QED
    BY <1>1, <1>2, <2>1
<1> QED
  BY <1>3 DEF Above

\* An authorised request is entitled by the latest sealed version.
LEMMA AllowedIsEntitled ==
  ASSUME NEW user, NEW version, NEW unit, GrantAllowed(user, version, unit),
         unit # NoUnit, NoUnit \notin DOMAIN sealed[LatestSealed].parent
  PROVE  version = LatestSealed /\ EntitledAt(user, version, unit)
<1> DEFINE snap == AccessSnapshot(user, LatestSealed)
           d == Evaluate(snap, version, "dream_evidence", "dream_evidence_read", unit)
           required == capabilityRequirements["dream_evidence_read"]
<1>1. d.decision = "allow"
  BY DEF GrantAllowed
<1>2. required.permission = "approve_high_risk"
  BY DEF capabilityRequirements, Requires
<1>3. /\ version = snap.version
      /\ SoundSnapshot(snap, unit)
      /\ Scopes(snap, unit, required.permission) # {}
  <2> HIDE DEF snap, required
  <2>1. ASSUME NEW risk PROVE Denied(snap.version, risk).decision = "deny" /\ [Denied(snap.version, risk) EXCEPT !.integrity = TRUE].decision = "deny"
    BY DEF Denied
  <2>2. \A sc, ps : [Denied(snap.version, required.risk) EXCEPT !.permissions = ps, !.fallback = TRUE, !.scopes = sc].decision = "deny"
    BY DEF Denied
  <2> QED
    BY <1>1, <2>1, <2>2 DEF Evaluate, required
<1>4. snap.version = LatestSealed /\ snap.parent = sealed[LatestSealed].parent
      /\ snap.members = {<<m[2], m[3]>> : m \in {n \in sealed[LatestSealed].members : n[1] = user}}
  BY DEF AccessSnapshot
<1> HIDE DEF snap, d, required
<1>5. PICK n \in snap.members : MembershipRolePermission(n[2]) = "approve_high_risk" /\ n[1] \in AncestorsOf(snap.parent, unit)
  BY <1>2, <1>3 DEF Scopes
<1>6. PICK m \in sealed[LatestSealed].members : m[1] = user /\ n = <<m[2], m[3]>>
  BY <1>4, <1>5
<1>7. n[2] = "approve_high_risk"
  BY <1>5 DEF MembershipRolePermission, NoPermission
<1>8. unit \in DOMAIN snap.parent /\ n[1] \in DOMAIN snap.parent
  BY <1>3, <1>5 DEF SoundSnapshot, SoundMembers
<1>9. n[1] \in Above(snap.parent, unit)
  BY <1>4, <1>5, <1>8, AncestorsAreAbove
<1> QED
  BY <1>3, <1>4, <1>6, <1>7, <1>9 DEF EntitledAt

-----------------------------------------------------------------------------
(* Publication.                                                            *)

\* The head is the latest sealed version.
LEMMA LatestIsHead ==
  ASSUME SealedFacts
  PROVE  LatestSealed = head /\ (LatestSealed > 0 => LatestSealed \in DOMAIN sealed)
<1>1. CASE DOMAIN sealed = {}
  BY <1>1 DEF SealedFacts, LatestSealed
<1>2. CASE DOMAIN sealed # {}
  <2>1. head \in DOMAIN sealed /\ \A w \in DOMAIN sealed : w <= head
    BY <1>2 DEF SealedFacts
  <2>2. PICK l : l = LatestSealed
    OBVIOUS
  <2>3. l \in DOMAIN sealed /\ \A w \in DOMAIN sealed : w <= l
    BY <1>2, <2>1, <2>2 DEF LatestSealed
  <2>4. l \in Nat /\ head \in Nat
    BY <2>3 DEF SealedFacts
  <2>5. l = head
    BY <2>1, <2>3, <2>4
  <2> QED
    BY <2>2, <2>3, <2>5
<1> QED
  BY <1>1, <1>2

\* The units of a sealed version are units.
LEMMA SealedUnits ==
  ASSUME OrgInv, NEW v \in DOMAIN sealed
  PROVE  DOMAIN sealed[v].parent \subseteq Units
<1>1. [parent |-> sealed[v].parent, members |-> sealed[v].members] \in lived
  BY DEF OrgInv, SealedWasLive
<1>2. IsOrg([parent |-> sealed[v].parent, members |-> sealed[v].members])
  BY <1>1 DEF OrgInv, LiveFacts
<1> QED
  BY <1>2 DEF IsOrg

\* What a step of the organisation may do to sealed versions, and to a request
\* that holds the lock.
SealedGrows == \A v \in DOMAIN sealed : v \in DOMAIN sealed' /\ sealed'[v] = sealed[v]
LockRespected == orgLock \in Requests => orgLock' = orgLock /\ head' = head

\* A publisher's step from under the lock.
LEMMA PublisherMoves ==
  ASSUME OrgInv, NEW p \in Publishers, NEW rec, SetPub(p, rec),
         \A q \in Publishers \ {p} : pub[q].pc = "idle"
  PROVE  /\ pub' = [q \in Publishers |-> pub'[q]] /\ pub'[p] = rec
         /\ \A q \in Publishers \ {p} : pub'[q].pc = "idle"
<1>1. pub = [q \in Publishers |-> pub[q]]
  BY DEF OrgInv
<1> QED
  BY <1>1 DEF SetPub

\* While one publisher holds the lock the others are idle.
LEMMA OnePublisher ==
  ASSUME OrgInv, NEW p \in Publishers, orgLock = p
  PROVE  \A q \in Publishers \ {p} : pub[q].pc = "idle"
BY DEF OrgInv, PublisherFacts

\* Edits of the live organisation.
LEMMA EditInv ==
  ASSUME OrgInv, NEW new, Edit(new), IsOrg(new)
  PROVE  OrgInv' /\ SealedGrows /\ LockRespected
<1>1. UNCHANGED <<orgLock, pub, head, sealed, cursor, received>> /\ live' = new /\ lived' = lived \cup {new}
  BY DEF Edit
<1>2. LiveFacts'
  BY <1>1 DEF OrgInv, LiveFacts, IsOrg
<1>3. SealedFacts' /\ FeedFacts'
  BY <1>1 DEF OrgInv, SealedFacts, FeedFacts, FeedComplete
<1>4. SealedWasLive'
  BY <1>1 DEF OrgInv, SealedWasLive
<1>5. \A p \in Publishers : PublisherFacts(p)'
  BY <1>1 DEF OrgInv, PublisherFacts
<1>6. SealedGrows /\ LockRespected
  BY <1>1 DEF SealedGrows, LockRespected
<1> QED
  BY <1>1, <1>2, <1>3, <1>4, <1>5, <1>6 DEF OrgInv

\* UpsertOrgUnit and AddOrgMembership.
LEMMA LiveEditsInv ==
  ASSUME OrgInv,
         \/ \E u \in Units, p \in Units \cup {NoUnit} : UpsertOrgUnit(u, p)
         \/ \E user \in Users, u \in Units, r \in EditRoles : AddOrgMembership(user, u, r)
  PROVE  OrgInv' /\ SealedGrows /\ LockRespected
<1>1. IsOrg(live)
  BY DEF OrgInv, LiveFacts
<1>2. ASSUME NEW u \in Units, NEW p \in Units \cup {NoUnit}, UpsertOrgUnit(u, p)
      PROVE  OrgInv' /\ SealedGrows /\ LockRespected
  <2> DEFINE ps == [v \in DOMAIN live.parent \cup {u} |-> IF v = u THEN p ELSE live.parent[v]]
             new == [live EXCEPT !.parent = ps]
  <2>1. new = [parent |-> ps, members |-> live.members]
    BY <1>1 DEF IsOrg
  <2>2. DOMAIN ps \subseteq Units
    BY <1>1 DEF IsOrg
  <2>3. Edit(new)
    BY <1>2 DEF UpsertOrgUnit
  <2> HIDE DEF ps
  <2>4. IsOrg(new)
    BY <2>1, <2>2 DEF IsOrg
  <2> QED
    BY <2>3, <2>4, EditInv
<1>3. ASSUME NEW user \in Users, NEW u \in Units, NEW r \in EditRoles, AddOrgMembership(user, u, r)
      PROVE  OrgInv' /\ SealedGrows /\ LockRespected
  <2> DEFINE new == [live EXCEPT !.members = @ \cup {<<user, u, r>>}]
  <2>1. new = [parent |-> live.parent, members |-> live.members \cup {<<user, u, r>>}]
    BY <1>1 DEF IsOrg
  <2>2. IsOrg(new)
    BY <1>1, <2>1 DEF IsOrg
  <2>3. Edit(new)
    BY <1>3 DEF AddOrgMembership
  <2> QED
    BY <2>2, <2>3, EditInv
<1> QED
  BY <1>2, <1>3

\* The steps of a publication before and after its commit.
LEMMA PublisherStepInv ==
  ASSUME OrgInv, NEW p \in Publishers, NEW rec, SetPub(p, rec),
         UNCHANGED <<live, lived, head, sealed, cursor, received>>,
         \A q \in Publishers \ {p} : pub[q].pc = "idle",
         orgLock' \in {p, NoOne}, orgLock \notin Requests,
         rec.pc = "idle" \/ orgLock' = p,
         rec.pc \in {"idle", "locked", "created", "units", "members", "unlock"},
         rec.pc \in {"locked", "created", "units", "members"} => rec.version \in 1..MaxVersion /\ rec.event \in BOOLEAN,
         rec.pc \in {"created", "units", "members"} => rec.version > head,
         rec.pc \in {"created", "units"} => rec.snap \in lived,
         rec.pc = "units" => rec.parent = rec.snap.parent,
         rec.pc = "members" => [parent |-> rec.parent, members |-> rec.members] \in lived
  PROVE  OrgInv' /\ SealedGrows /\ LockRespected
<1>1. /\ pub' = [q \in Publishers |-> pub'[q]] /\ pub'[p] = rec
      /\ \A q \in Publishers \ {p} : pub'[q].pc = "idle"
  BY PublisherMoves
<1>2. LiveFacts' /\ SealedFacts' /\ SealedWasLive' /\ FeedFacts'
  BY DEF OrgInv, LiveFacts, IsOrg, SealedFacts, SealedWasLive, FeedFacts, FeedComplete
<1>3. PublisherFacts(p)'
  BY <1>1 DEF PublisherFacts
<1>4. \A q \in Publishers \ {p} : PublisherFacts(q)'
  BY <1>1 DEF PublisherFacts
<1>5. SealedGrows /\ LockRespected
  BY DEF SealedGrows, LockRespected
<1> QED
  BY <1>1, <1>2, <1>3, <1>4, <1>5 DEF OrgInv

\* Everything of publishOrgVersion but its commit.
LEMMA PublishStepsInv ==
  ASSUME OrgInv, NEW p \in Publishers,
         \/ \E v \in 1..MaxVersion, e \in BOOLEAN : AcquireOrgPublicationSessionLock(p, v, e)
         \/ CreateOrgVersion(p) \/ CaptureOrgPolicySnapshotUnits(p)
         \/ CaptureOrgPolicySnapshotMemberships(p)
         \/ AbortPublication(p) \/ ReleaseOrgPublicationSessionLock(p)
  PROVE  OrgInv' /\ SealedGrows /\ LockRespected
<1> DEFINE Done == OrgInv' /\ SealedGrows /\ LockRespected
<1>1. PublisherFacts(p) /\ LiveFacts
  BY DEF OrgInv
<1>2. p \notin Requests /\ p # NoOne /\ NoOne \notin Requests
  BY OrgAssumption, GrantAssumption
<1>3. pub[p].pc # "idle" => orgLock = p /\ \A q \in Publishers \ {p} : pub[q].pc = "idle"
  BY <1>1, OnePublisher DEF PublisherFacts
<1> HIDE DEF Done
<1>4. ASSUME NEW v \in 1..MaxVersion, NEW e \in BOOLEAN, AcquireOrgPublicationSessionLock(p, v, e) PROVE Done
  <2> DEFINE rec == [pc |-> "locked", version |-> v, event |-> e]
  <2>1. SetPub(p, rec) /\ orgLock' = p /\ orgLock = NoOne /\ UNCHANGED <<live, lived, head, sealed, cursor, received>>
    BY <1>4 DEF AcquireOrgPublicationSessionLock
  <2>2. \A q \in Publishers \ {p} : pub[q].pc = "idle"
    BY <2>1, OrgAssumption DEF OrgInv, PublisherFacts
  <2>3. rec.pc = "locked" /\ rec.version \in 1..MaxVersion /\ rec.event \in BOOLEAN
    OBVIOUS
  <2> HIDE DEF rec
  <2> QED
    BY <1>2, <2>1, <2>2, <2>3, PublisherStepInv DEF Done
<1>5. ASSUME SetPub(p, [pc |-> "unlock"]), pub[p].pc # "idle",
             UNCHANGED <<live, lived, orgLock, head, sealed, cursor, received>>
      PROVE  Done
  <2> DEFINE rec == [pc |-> "unlock"]
  <2>1. rec.pc = "unlock" /\ SetPub(p, rec)
    BY <1>5
  <2> HIDE DEF rec
  <2> QED
    BY <1>2, <1>3, <1>5, <2>1, PublisherStepInv DEF Done
<1>6. CASE CreateOrgVersion(p)
  <2>1. pub[p].pc = "locked" /\ UNCHANGED <<live, lived, orgLock, head, sealed, cursor, received>>
    BY <1>6 DEF CreateOrgVersion
  <2>2. CASE pub[p].version > head
    <3> DEFINE rec == [pc |-> "created", version |-> pub[p].version, event |-> pub[p].event, snap |-> live]
    <3>1. SetPub(p, rec)
      BY <1>6, <2>2 DEF CreateOrgVersion
    <3>2. /\ rec.pc = "created" /\ rec.version \in 1..MaxVersion /\ rec.event \in BOOLEAN
          /\ rec.version > head /\ rec.snap \in lived
      BY <1>1, <2>1, <2>2 DEF PublisherFacts, LiveFacts
    <3> HIDE DEF rec
    <3> QED
      BY <1>2, <1>3, <2>1, <3>1, <3>2, PublisherStepInv DEF Done
  <2>3. CASE ~(pub[p].version > head)
    <3>1. SetPub(p, [pc |-> "unlock"])
      BY <1>6, <2>3 DEF CreateOrgVersion
    <3> QED
      BY <1>5, <2>1, <3>1 DEF Done
  <2> QED
    BY <2>2, <2>3
<1>7. CASE CaptureOrgPolicySnapshotUnits(p)
  <2> DEFINE rec == [pc |-> "units", version |-> pub[p].version, event |-> pub[p].event,
                     snap |-> pub[p].snap, parent |-> pub[p].snap.parent]
  <2>1. pub[p].pc = "created" /\ SetPub(p, rec) /\ UNCHANGED <<live, lived, orgLock, head, sealed, cursor, received>>
    BY <1>7 DEF CaptureOrgPolicySnapshotUnits
  <2>2. /\ rec.pc = "units" /\ rec.version \in 1..MaxVersion /\ rec.event \in BOOLEAN
        /\ rec.version > head /\ rec.snap \in lived /\ rec.parent = rec.snap.parent
    BY <1>1, <2>1 DEF PublisherFacts
  <2> HIDE DEF rec
  <2> QED
    BY <1>2, <1>3, <2>1, <2>2, PublisherStepInv DEF Done
<1>8. CASE CaptureOrgPolicySnapshotMemberships(p)
  <2> DEFINE rec == [pc |-> "members", version |-> pub[p].version, event |-> pub[p].event,
                     parent |-> pub[p].parent, members |-> SnapshotMembers(p)]
             allowed == \A m \in SnapshotMembers(p) : m[3] \in Roles /\ m[2] \in DOMAIN pub[p].parent
  <2>1. pub[p].pc = "units" /\ UNCHANGED <<live, lived, orgLock, head, sealed, cursor, received>>
    BY <1>8 DEF CaptureOrgPolicySnapshotMemberships
  <2>2. CASE allowed
    <3>1. SetPub(p, rec)
      BY <1>8, <2>2 DEF CaptureOrgPolicySnapshotMemberships
    <3>2. /\ rec.pc = "members" /\ rec.version \in 1..MaxVersion /\ rec.event \in BOOLEAN /\ rec.version > head
          /\ rec.parent = pub[p].snap.parent /\ rec.members = pub[p].snap.members
      BY <1>1, <2>1 DEF PublisherFacts, SnapshotMembers
    <3>3. pub[p].snap \in lived /\ IsOrg(pub[p].snap)
      BY <1>1, <2>1 DEF PublisherFacts, LiveFacts
    <3> HIDE DEF rec
    <3>4. [parent |-> rec.parent, members |-> rec.members] \in lived
      BY <3>2, <3>3 DEF IsOrg
    <3> QED
      BY <1>2, <1>3, <2>1, <3>1, <3>2, <3>4, PublisherStepInv DEF Done
  <2>3. CASE ~allowed
    <3>1. SetPub(p, [pc |-> "unlock"])
      BY <1>8, <2>3 DEF CaptureOrgPolicySnapshotMemberships
    <3> QED
      BY <1>5, <2>1, <3>1 DEF Done
  <2> QED
    BY <2>2, <2>3
<1>9. CASE AbortPublication(p)
  <2>1. /\ SetPub(p, [pc |-> "unlock"]) /\ pub[p].pc # "idle"
        /\ UNCHANGED <<live, lived, orgLock, head, sealed, cursor, received>>
    BY <1>9 DEF AbortPublication
  <2> QED
    BY <1>5, <2>1 DEF Done
<1>10. CASE ReleaseOrgPublicationSessionLock(p)
  <2> DEFINE rec == [pc |-> "idle"]
  <2>1. pub[p].pc = "unlock" /\ SetPub(p, rec) /\ orgLock' = NoOne /\ UNCHANGED <<live, lived, head, sealed, cursor, received>>
    BY <1>10 DEF ReleaseOrgPublicationSessionLock
  <2>2. rec.pc = "idle"
    OBVIOUS
  <2> HIDE DEF rec
  <2> QED
    BY <1>2, <1>3, <2>1, <2>2, PublisherStepInv DEF Done
<1> QED
  BY <1>4, <1>6, <1>7, <1>8, <1>9, <1>10 DEF Done

\* SealAndCommit: a version past the head, and so past every cursor.
LEMMA SealInv ==
  ASSUME OrgInv, NEW p \in Publishers, SealAndCommit(p)
  PROVE  OrgInv' /\ SealedGrows /\ LockRespected
<1>1. PublisherFacts(p) /\ LiveFacts /\ SealedFacts /\ SealedWasLive /\ FeedFacts
  BY DEF OrgInv
<1>2. PICK v : v = pub[p].version
  OBVIOUS
<1> DEFINE snap == [parent |-> pub[p].parent, members |-> pub[p].members, event |-> pub[p].event]
<1>3. /\ pub[p].pc = "members" /\ head' = v /\ SetPub(p, [pc |-> "unlock"])
      /\ sealed' = [w \in DOMAIN sealed \cup {v} |-> IF w = v THEN snap ELSE sealed[w]]
      /\ UNCHANGED <<live, lived, orgLock, cursor, received>>
  BY <1>2 DEF SealAndCommit
<1>4. /\ v \in 1..MaxVersion /\ v > head /\ pub[p].event \in BOOLEAN /\ orgLock = p
      /\ [parent |-> pub[p].parent, members |-> pub[p].members] \in lived
  BY <1>1, <1>2, <1>3 DEF PublisherFacts
<1>5. snap.parent = pub[p].parent /\ snap.members = pub[p].members /\ snap.event = pub[p].event
  OBVIOUS
<1> HIDE DEF snap
<1>6. v \notin DOMAIN sealed
  BY <1>1, <1>4 DEF SealedFacts
<1>7. DOMAIN sealed' = DOMAIN sealed \cup {v} /\ sealed'[v] = snap /\ \A w \in DOMAIN sealed : sealed'[w] = sealed[w]
  BY <1>3, <1>6
<1>8. SealedFacts'
  <2>1. head' \in Nat /\ DOMAIN sealed' \subseteq 1..MaxVersion /\ DOMAIN sealed' # {} /\ head' \in DOMAIN sealed'
    BY <1>1, <1>3, <1>4, <1>7 DEF SealedFacts
  <2>2. ASSUME NEW w \in DOMAIN sealed' PROVE w <= head' /\ sealed'[w].event \in BOOLEAN
    <3>1. CASE w = v
      BY <1>3, <1>4, <1>5, <1>7, <3>1
    <3>2. CASE w \in DOMAIN sealed
      <4>1. w <= head /\ sealed[w].event \in BOOLEAN /\ w \in Nat /\ head \in Nat /\ v \in Nat
        BY <1>1, <1>4, <3>2 DEF SealedFacts
      <4> QED
        BY <1>3, <1>4, <1>7, <3>2, <4>1
    <3> QED
      BY <1>7, <3>1, <3>2
  <2> QED
    BY <2>1, <2>2 DEF SealedFacts
<1>9. SealedWasLive'
  BY <1>1, <1>3, <1>4, <1>5, <1>7 DEF SealedWasLive
<1>10. FeedFacts'
  <2>1. cursor \in Nat /\ cursor <= head /\ head \in Nat /\ v \in Nat /\ received \in Seq(Nat)
    BY <1>1, <1>4 DEF FeedFacts, SealedFacts
  <2>2. cursor <= v /\ ~(v <= cursor)
    BY <1>4, <2>1
  <2>3. {w \in DOMAIN sealed' : sealed'[w].event /\ w <= cursor} = {w \in DOMAIN sealed : sealed[w].event /\ w <= cursor}
    BY <1>7, <2>2
  <2> QED
    BY <1>1, <1>3, <2>1, <2>2, <2>3 DEF FeedFacts, FeedComplete
<1>11. LiveFacts'
  BY <1>1, <1>3 DEF LiveFacts, IsOrg
<1>12. /\ pub' = [q \in Publishers |-> pub'[q]] /\ pub'[p] = [pc |-> "unlock"]
       /\ \A q \in Publishers \ {p} : pub'[q].pc = "idle"
  BY <1>3, <1>4, OnePublisher, PublisherMoves
<1>13. \A q \in Publishers : PublisherFacts(q)'
  BY <1>3, <1>4, <1>12 DEF PublisherFacts
<1>14. orgLock' \in Publishers \cup Requests \cup {NoOne}
  BY <1>3, <1>4
<1>15. SealedGrows /\ LockRespected
  BY <1>4, <1>7, GrantAssumption DEF SealedGrows, LockRespected
<1> QED
  BY <1>8, <1>9, <1>10, <1>11, <1>12, <1>13, <1>14, <1>15 DEF OrgInv

-----------------------------------------------------------------------------
(* The change feed.                                                        *)

\* The parts of EventsSince, for a set of versions.
Rank(after, v) == Cardinality({w \in after : w <= v})
Page(after) == {v \in after : Rank(after, v) <= FeedLimit}
Listed(after) == [i \in 1..Cardinality(Page(after)) |-> CHOOSE v \in Page(after) : Rank(after, v) = i]

\* The later version has the higher rank.
LEMMA RankGrows ==
  ASSUME NEW after \in SUBSET Nat, IsFiniteSet(after)
  PROVE  /\ \A v \in after : Rank(after, v) \in Nat \ {0}
         /\ \A v, w \in after : v < w <=> Rank(after, v) < Rank(after, w)
<1> DEFINE upto(v) == {w \in after : w <= v}
<1>1. ASSUME NEW v \in after PROVE IsFiniteSet(upto(v)) /\ Rank(after, v) = Cardinality(upto(v)) /\ v \in upto(v)
  <2>1. upto(v) \in SUBSET after /\ v \in upto(v)
    OBVIOUS
  <2>2. Rank(after, v) = Cardinality(upto(v))
    BY DEF Rank
  <2> QED
    BY <2>1, <2>2, FS_Subset
<1>2. ASSUME NEW v \in after PROVE Rank(after, v) \in Nat \ {0}
  <2>1. Cardinality(upto(v)) \in Nat /\ (Cardinality(upto(v)) = 0 <=> upto(v) = {})
    BY <1>1, FS_CardinalityType, FS_EmptySet
  <2>2. upto(v) # {}
    BY <1>1
  <2> QED
    BY <1>1, <2>1, <2>2
<1>3. ASSUME NEW v \in after, NEW w \in after, v < w PROVE Rank(after, v) < Rank(after, w)
  <2>1. upto(v) \in SUBSET upto(w) /\ w \in upto(w) /\ w \notin upto(v)
    <3>1. v \in Nat /\ w \in Nat /\ w <= w /\ ~(w <= v)
      BY <1>3
    <3>2. ASSUME NEW x \in after, x <= v PROVE x <= w
      <4>1. x \in Nat
        OBVIOUS
      <4> QED
        BY <1>3, <3>1, <3>2, <4>1
    <3> QED
      BY <3>1, <3>2
  <2>2. Cardinality(upto(v)) <= Cardinality(upto(w)) /\ (Cardinality(upto(w)) = Cardinality(upto(v)) => upto(w) = upto(v))
    BY <1>1, <2>1, FS_Subset
  <2>3. Cardinality(upto(w)) # Cardinality(upto(v))
    BY <2>1, <2>2
  <2>4. Rank(after, v) <= Rank(after, w) /\ Rank(after, v) # Rank(after, w)
    BY <1>1, <2>2, <2>3
  <2> QED
    BY <1>2, <2>4
<1>4. ASSUME NEW v \in after, NEW w \in after, Rank(after, v) < Rank(after, w) PROVE v < w
  <2>1. CASE w < v
    BY <1>2, <1>3, <1>4, <2>1
  <2>2. CASE w = v
    BY <1>2, <1>4, <2>2
  <2> QED
    BY <2>1, <2>2
<1> QED
  BY <1>2, <1>3, <1>4

\* A page is listed in ascending order, and leaves out nothing before its end.
LEMMA PageInOrder ==
  ASSUME NEW after \in SUBSET Nat, IsFiniteSet(after)
  PROVE  /\ Listed(after) \in Seq(Nat)
         /\ \A i \in 1..Len(Listed(after)) : Listed(after)[i] \in after
         /\ \A i, j \in 1..Len(Listed(after)) : i < j => Listed(after)[i] < Listed(after)[j]
         /\ \A k \in 1..Len(Listed(after)) : \A v \in after :
              v <= Listed(after)[k] => \E i \in 1..k : Listed(after)[i] = v
<1> DEFINE page == Page(after)
           n == Cardinality(page)
           f == [v \in page |-> Rank(after, v)]
           l == Listed(after)
<1>1. /\ \A v \in after : Rank(after, v) \in Nat \ {0}
      /\ \A v, w \in after : v < w <=> Rank(after, v) < Rank(after, w)
  BY RankGrows
<1>2. page \in SUBSET after /\ \A v \in page : Rank(after, v) <= FeedLimit
  BY DEF Page
<1>3. IsFiniteSet(page) /\ n \in Nat
  <2>1. IsFiniteSet(page)
    BY <1>2, FS_Subset
  <2> QED
    BY <2>1, FS_CardinalityType
<1>4. ASSUME NEW v \in after, NEW w \in page, v <= w PROVE v \in page
  <2>1. Rank(after, v) <= Rank(after, w)
    <3>1. CASE v = w
      BY <1>1, <3>1
    <3>2. CASE v < w
      <4>1. w \in after
        BY <1>2
      <4>2. Rank(after, v) < Rank(after, w) /\ Rank(after, v) \in Nat /\ Rank(after, w) \in Nat
        BY <1>1, <3>2, <4>1
      <4> QED
        BY <4>2
    <3>3. v \in Nat /\ w \in Nat
      BY <1>2
    <3> QED
      BY <1>4, <3>1, <3>2, <3>3
  <2>2. Rank(after, v) \in Nat /\ Rank(after, w) \in Nat /\ Rank(after, w) <= FeedLimit /\ FeedLimit \in Nat
    BY <1>1, <1>2, OrgAssumption
  <2>3. Rank(after, v) <= FeedLimit
    BY <2>1, <2>2
  <2> QED
    BY <2>3 DEF Page
<1>5. ASSUME NEW v \in page PROVE Rank(after, v) \in 1..n
  <2>1. {w \in after : w <= v} \in SUBSET page
    BY <1>4
  <2>2. Cardinality({w \in after : w <= v}) <= n
    BY <1>3, <2>1, FS_Subset
  <2>3. Rank(after, v) <= n /\ Rank(after, v) \in Nat \ {0}
    BY <1>1, <1>2, <2>2 DEF Rank
  <2> QED
    BY <1>3, <2>3
<1> HIDE DEF page, n
<1>6. \A v, w \in page : Rank(after, v) = Rank(after, w) => v = w
  <2> SUFFICES ASSUME NEW v \in page, NEW w \in page, Rank(after, v) = Rank(after, w), v # w PROVE FALSE
    OBVIOUS
  <2>1. v \in Nat /\ w \in Nat /\ v \in after /\ w \in after
    BY <1>2
  <2>2. v < w \/ w < v
    BY <2>1
  <2>3. Rank(after, v) < Rank(after, w) \/ Rank(after, w) < Rank(after, v)
    BY <1>1, <2>1, <2>2
  <2> QED
    BY <1>1, <2>1, <2>3
<1>7. \A i \in 1..n : \E v \in page : Rank(after, v) = i
  <2>1. f \in Injection(page, 1..n)
    BY <1>5, <1>6 DEF Injection, IsInjective
  <2>2. IsFiniteSet(1..n) /\ Cardinality(1..n) = n
    BY <1>3, FS_Interval
  <2>3. Cardinality(page) = Cardinality(1..n)
    BY <2>2 DEF n
  <2> HIDE DEF f
  <2>4. f \in Surjection(page, 1..n)
    BY <2>1, <2>2, <2>3, FS_Injection
  <2> QED
    BY <2>4 DEF Surjection, f
<1> HIDE DEF f
<1>8. l = [i \in 1..n |-> CHOOSE v \in page : Rank(after, v) = i]
  BY DEF Listed, n, page
<1> HIDE DEF l
<1>9. ASSUME NEW i \in 1..n PROVE l[i] \in page /\ Rank(after, l[i]) = i
  BY <1>7, <1>8
<1>10. l \in Seq(Nat) /\ Len(l) = n
  <2>1. \A i \in 1..n : l[i] \in Nat
    BY <1>2, <1>9
  <2> QED
    BY <1>3, <1>8, <2>1
<1>11. \A i \in 1..Len(l) : l[i] \in after
  BY <1>2, <1>9, <1>10
<1>12. \A i, j \in 1..Len(l) : i < j => l[i] < l[j]
  BY <1>1, <1>9, <1>10, <1>11
<1>13. ASSUME NEW k \in 1..Len(l), NEW v \in after, v <= l[k] PROVE \E i \in 1..k : l[i] = v
  <2>1. v \in page /\ k \in 1..n
    BY <1>4, <1>9, <1>10, <1>13
  <2> DEFINE i == Rank(after, v)
  <2>2. i \in 1..n
    BY <1>5, <2>1
  <2>3. l[i] = v
    BY <1>6, <1>9, <2>1, <2>2
  <2>4. i <= k
    <3>1. l[k] \in after /\ Rank(after, l[k]) = k
      BY <1>2, <1>9, <2>1
    <3> HIDE DEF i
    <3>2. v \in Nat /\ l[k] \in Nat /\ k \in Nat /\ i \in Nat
      <4>1. v \in Nat /\ l[k] \in Nat
        BY <3>1
      <4> QED
        BY <1>3, <2>1, <2>2, <4>1
    <3>3. ~(l[k] < v)
      BY <1>13, <3>2
    <3>4. ~(k < i)
      BY <1>1, <3>1, <3>3 DEF i
    <3> QED
      BY <3>2, <3>4
  <2> HIDE DEF i
  <2> QED
    BY <1>3, <2>1, <2>2, <2>3, <2>4
<1> QED
  BY <1>10, <1>11, <1>12, <1>13 DEF l

\* Subscribe: the part of a page that arrived, and the cursor at its end.
LEMMA SubscribeInv ==
  ASSUME OrgInv, Subscribe
  PROVE  OrgInv' /\ SealedGrows /\ LockRespected
<1> DEFINE after == {v \in DOMAIN sealed : sealed[v].event /\ v > cursor}
           l == Listed(after)
<1>1. SealedFacts /\ FeedFacts
  BY DEF OrgInv
<1>2. after \in SUBSET Nat /\ IsFiniteSet(after)
  <2>1. after \in SUBSET (1..MaxVersion)
    BY <1>1 DEF SealedFacts
  <2>2. IsFiniteSet(1..MaxVersion)
    BY FS_Interval, OrgAssumption
  <2>3. IsFiniteSet(after)
    BY <2>1, <2>2, FS_Subset
  <2>4. \A v \in 1..MaxVersion : v \in Nat
    BY OrgAssumption
  <2> QED
    BY <2>1, <2>3, <2>4
<1>3. EventsSince(cursor) = l
  BY DEF EventsSince, Listed, Page, Rank
<1>4. \A v : v \in after <=> v \in DOMAIN sealed /\ sealed[v].event /\ v > cursor
  OBVIOUS
<1> HIDE DEF after
<1>5. /\ l \in Seq(Nat)
      /\ \A i \in 1..Len(l) : l[i] \in after
      /\ \A i, j \in 1..Len(l) : i < j => l[i] < l[j]
      /\ \A k \in 1..Len(l) : \A v \in after : v <= l[k] => \E i \in 1..k : l[i] = v
  BY <1>2, PageInOrder
<1> HIDE DEF l
<1>6. PICK k \in 1..Len(l) : received' = received \o SubSeq(l, 1, k) /\ cursor' = l[k]
  BY <1>3 DEF Subscribe
<1>7. UNCHANGED <<live, lived, orgLock, pub, head, sealed>>
  BY DEF Subscribe
<1>8. cursor \in Nat /\ head \in Nat /\ received \in Seq(Nat) /\ k \in Nat /\ Len(received) \in Nat
  BY <1>1, <1>5 DEF FeedFacts, SealedFacts
<1>9. l[k] \in DOMAIN sealed /\ l[k] > cursor /\ l[k] <= head /\ l[k] \in Nat
  BY <1>1, <1>2, <1>4, <1>5 DEF SealedFacts
<1>10. /\ received' \in Seq(Nat) /\ Len(received') = Len(received) + k
       /\ \A i \in 1..Len(received) : received'[i] = received[i]
       /\ \A i \in 1..k : received'[Len(received) + i] = l[i]
  <2>1. SubSeq(l, 1, k) \in Seq(Nat) /\ Len(SubSeq(l, 1, k)) = k /\ \A i \in 1..k : SubSeq(l, 1, k)[i] = l[i]
    BY <1>5, <1>8
  <2> DEFINE t == SubSeq(l, 1, k)
  <2> HIDE DEF t
  <2>2. t \in Seq(Nat) /\ Len(t) = k /\ \A i \in 1..k : t[i] = l[i]
    BY <2>1 DEF t
  <2>3. received' = received \o t
    BY <1>6 DEF t
  <2>4. received \o t \in Seq(Nat) /\ Len(received \o t) = Len(received) + k
    <3>1. received \in Seq(Nat) /\ t \in Seq(Nat)
      BY <1>8, <2>2
    <3>2. received \o t \in Seq(Nat)
      BY <3>1
    <3>3. Len(received \o t) = Len(received) + Len(t)
      BY <3>1
    <3> QED
      BY <2>2, <3>2, <3>3
  <2>5. \A i \in 1..Len(received) : (received \o t)[i] = received[i]
    BY <1>8, <2>2
  <2>6. \A i \in 1..k : (received \o t)[Len(received) + i] = t[i]
    BY <1>8, <2>2
  <2> QED
    BY <2>2, <2>3, <2>4, <2>5, <2>6
<1>11. DOMAIN received = 1..Len(received) /\ DOMAIN received' = 1..(Len(received) + k)
  BY <1>8, <1>10
<1>12. \A i \in DOMAIN received : received[i] \in DOMAIN sealed /\ sealed[received[i]].event /\ received[i] <= cursor
  BY <1>1 DEF FeedFacts, FeedComplete
<1>13. \A v \in DOMAIN sealed : sealed[v].event /\ v <= cursor => \E i \in DOMAIN received : received[i] = v
  <2>1. {received[i] : i \in DOMAIN received} = {v \in DOMAIN sealed : sealed[v].event /\ v <= cursor}
    BY <1>1 DEF FeedFacts, FeedComplete
  <2> QED
    BY <2>1
<1>14. ASSUME NEW i \in DOMAIN received' PROVE i \in 1..Len(received) \/ \E m \in 1..k : i = Len(received) + m
  <2>1. i \in Nat /\ i >= 1 /\ i <= Len(received) + k
    BY <1>8, <1>11
  <2>2. CASE i > Len(received)
    <3>1. i - Len(received) \in 1..k /\ i = Len(received) + (i - Len(received))
      BY <1>8, <2>1, <2>2
    <3> QED
      BY <3>1
  <2> QED
    BY <1>8, <2>1, <2>2
<1>15. ASSUME NEW i \in 1..k PROVE l[i] \in DOMAIN sealed /\ sealed[l[i]].event /\ l[i] > cursor /\ l[i] <= l[k] /\ l[i] \in Nat
  <2>1. i \in 1..Len(l)
    BY <1>5
  <2>2. l[i] \in after
    BY <1>5, <2>1
  <2>3. l[i] \in Nat /\ l[k] \in Nat
    BY <1>2, <1>9, <2>2
  <2>4. l[i] <= l[k]
    BY <1>5, <2>1, <2>3
  <2> QED
    BY <1>4, <2>2, <2>3, <2>4
<1>16. {received'[i] : i \in DOMAIN received'} = {v \in DOMAIN sealed : sealed[v].event /\ v <= l[k]}
  <2>1. ASSUME NEW i \in DOMAIN received' PROVE received'[i] \in DOMAIN sealed /\ sealed[received'[i]].event /\ received'[i] <= l[k]
    <3>1. CASE i \in 1..Len(received)
      <4>1. received'[i] = received[i] /\ received[i] \in DOMAIN sealed /\ sealed[received[i]].event /\ received[i] <= cursor
        BY <1>10, <1>11, <1>12, <3>1
      <4>2. received[i] \in Nat
        BY <1>8, <3>1
      <4> QED
        BY <1>8, <1>9, <4>1, <4>2
    <3>2. ASSUME NEW m \in 1..k, i = Len(received) + m PROVE received'[i] \in DOMAIN sealed /\ sealed[received'[i]].event /\ received'[i] <= l[k]
      BY <1>10, <1>15, <3>2
    <3> QED
      BY <1>14, <3>1, <3>2
  <2>2. ASSUME NEW v \in DOMAIN sealed, sealed[v].event, v <= l[k] PROVE \E i \in DOMAIN received' : received'[i] = v
    <3>1. v \in Nat
      BY <1>1 DEF SealedFacts
    <3>2. CASE v <= cursor
      <4>1. PICK i \in DOMAIN received : received[i] = v
        BY <1>13, <2>2, <3>2
      <4>2. i \in DOMAIN received' /\ received'[i] = v
        BY <1>8, <1>10, <1>11, <4>1
      <4> QED
        BY <4>2
    <3>3. CASE v > cursor
      <4>1. v \in after
        BY <1>4, <2>2, <3>3
      <4>2. PICK i \in 1..k : l[i] = v
        BY <1>5, <2>2, <4>1
      <4>3. Len(received) + i \in DOMAIN received' /\ received'[Len(received) + i] = v
        BY <1>8, <1>10, <1>11, <4>2
      <4> QED
        BY <4>3
    <3> QED
      BY <1>8, <3>1, <3>2, <3>3
  <2> QED
    BY <2>1, <2>2
<1>17. ASSUME NEW i \in DOMAIN received', NEW j \in DOMAIN received', i < j PROVE received'[i] < received'[j]
  <2>1. CASE i \in 1..Len(received) /\ j \in 1..Len(received)
    BY <1>1, <1>10, <1>11, <1>17, <2>1 DEF FeedFacts, FeedComplete
  <2>2. ASSUME i \in 1..Len(received), NEW m \in 1..k, j = Len(received) + m PROVE received'[i] < received'[j]
    <3>1. received'[i] = received[i] /\ received[i] <= cursor /\ received[i] \in Nat
      BY <1>8, <1>10, <1>11, <1>12, <2>2, SMTT(30)
    <3>2. received'[j] = l[m] /\ l[m] > cursor /\ l[m] \in Nat
      BY <1>10, <1>15, <2>2
    <3> QED
      BY <1>8, <3>1, <3>2
  <2>3. ASSUME NEW m \in 1..k, i = Len(received) + m, NEW n \in 1..k, j = Len(received) + n PROVE received'[i] < received'[j]
    <3>1. m < n /\ m \in 1..Len(l) /\ n \in 1..Len(l)
      BY <1>5, <1>8, <1>17, <2>3
    <3> QED
      BY <1>5, <1>10, <2>3, <3>1
  <2>4. ~(i > Len(received) /\ j <= Len(received))
    BY <1>8, <1>11, <1>17
  <2>5. i \in 1..Len(received) \/ \E m \in 1..k : i = Len(received) + m
    BY <1>14
  <2>6. j \in 1..Len(received) \/ \E m \in 1..k : j = Len(received) + m
    BY <1>14
  <2>7. CASE i \in 1..Len(received)
    BY <2>1, <2>2, <2>6, <2>7
  <2>8. CASE \E m \in 1..k : i = Len(received) + m
    <3>1. i > Len(received)
      BY <1>8, <2>8
    <3>2. j \notin 1..Len(received)
      BY <1>8, <2>4, <3>1
    <3> QED
      BY <2>3, <2>6, <2>8, <3>2
  <2> QED
    BY <2>5, <2>7, <2>8
<1>18. FeedFacts'
  BY <1>6, <1>7, <1>8, <1>9, <1>10, <1>16, <1>17 DEF FeedFacts, FeedComplete
<1>19. LiveFacts' /\ SealedFacts' /\ SealedWasLive'
  BY <1>7 DEF OrgInv, LiveFacts, IsOrg, SealedFacts, SealedWasLive
<1>20. \A p \in Publishers : PublisherFacts(p)'
  BY <1>7 DEF OrgInv, PublisherFacts
<1>21. SealedGrows /\ LockRespected
  BY <1>7 DEF SealedGrows, LockRespected
<1> QED
  BY <1>7, <1>18, <1>19, <1>20, <1>21 DEF OrgInv

\* A step of the organisation.
LEMMA OrgStepInv ==
  ASSUME OrgInv, OrgNext
  PROVE  OrgInv' /\ SealedGrows /\ LockRespected
BY LiveEditsInv, PublishStepsInv, SealInv, SubscribeInv DEF OrgNext, Publish

-----------------------------------------------------------------------------
(* Requests.                                                               *)

\* The chain only grows.
AuditGrows == \A j \in DOMAIN audit : j \in DOMAIN audit' /\ audit'[j] = audit[j]

\* The record of one request is replaced.
Moves(r, rec) ==
  /\ req' = [q \in Requests |-> req'[q]] /\ req'[r] = rec
  /\ \A q \in Requests \ {r} : req'[q] = req[q]

\* A recorded issue stays recorded.
LEMMA IssueStays ==
  ASSUME NEW r, IssueRecorded(r), AuditGrows
  PROVE  IssueRecorded(r)'
BY DEF IssueRecorded, AuditGrows

\* An entitlement lasts: sealed versions do not change.
LEMMA EntitlementStays ==
  ASSUME NEW user, NEW v \in DOMAIN sealed, NEW unit, EntitledAt(user, v, unit), SealedGrows
  PROVE  EntitledAt(user, v, unit)'
BY DEF EntitledAt, SealedGrows

\* A request that does not move keeps its facts while its locks are respected.
LEMMA RequestKept ==
  ASSUME NEW q \in Requests, RequestFacts(q), req'[q] = req[q], SealedGrows, AuditGrows,
         orgLock = q => orgLock' = q /\ head' = head /\ owner' = owner,
         auditLock = q => auditLock' = q /\ Len(audit') = Len(audit),
         req[q].pc \in {"checked", "audit"} /\ req[q].ticket \in active => req[q].ticket \in active'
  PROVE  RequestFacts(q)'
<1> DEFINE x == req[q]
<1>1. x.pc \in {"authorized", "org", "checked", "audit"} => x.version \in DOMAIN sealed' /\ EntitledAt(x.user, x.version, x.unit)'
  BY EntitlementStays DEF RequestFacts, SealedGrows
<1>2. x.pc \in {"found", "vaudit"} => x.grant \in Requests /\ IssueRecorded(x.grant)'
  BY IssueStays DEF RequestFacts
<1>3. x.pc \in {"checked", "audit"} =>
         /\ x.ticket \in active' /\ TicketActor[x.ticket] = x.user
         /\ x.version = head'
         /\ owner' = [unit |-> x.unit, version |-> x.version]
  BY DEF RequestFacts
<1>4. x.pc = "create" => x \in Creating /\ x.version \in DOMAIN sealed'
  BY DEF RequestFacts, SealedGrows
<1> QED
  BY <1>1, <1>2, <1>3, <1>4 DEF RequestFacts

\* The grants recorded before stay entitled and accounted for.
LEMMA OldGrants ==
  ASSUME GrantFacts, SealedGrows, AuditGrows, NEW g \in grants
  PROVE  /\ g.version \in DOMAIN sealed' /\ g.request \in Requests
         /\ EntitledAt(g.user, g.version, g.unit)' /\ IssueRecorded(g.request)'
<1>1. /\ g.version \in DOMAIN sealed /\ g.request \in Requests
      /\ EntitledAt(g.user, g.version, g.unit) /\ IssueRecorded(g.request)
  BY DEF GrantFacts
<1> QED
  BY <1>1, EntitlementStays, IssueStays DEF SealedGrows

\* The publication lock goes from nobody or a request to nobody or a request.
LEMMA OrgLockMoves ==
  ASSUME OrgInv, UNCHANGED <<live, lived, pub, head, sealed, cursor, received>>,
         orgLock' = orgLock \/ (orgLock \in Requests \cup {NoOne} /\ orgLock' \in Requests \cup {NoOne})
  PROVE  OrgInv' /\ SealedGrows
<1>1. LiveFacts' /\ SealedFacts' /\ SealedWasLive' /\ FeedFacts'
  BY DEF OrgInv, LiveFacts, IsOrg, SealedFacts, SealedWasLive, FeedFacts, FeedComplete
<1>2. ASSUME NEW p \in Publishers PROVE PublisherFacts(p)'
  <2>1. p \notin Requests \cup {NoOne}
    BY OrgAssumption, GrantAssumption
  <2>2. pub[p].pc # "idle" => orgLock' = p
    BY <2>1 DEF OrgInv, PublisherFacts
  <2> QED
    BY <2>2 DEF OrgInv, PublisherFacts
<1>3. SealedGrows
  BY DEF SealedGrows
<1> QED
  BY <1>1, <1>2, <1>3 DEF OrgInv

\* One step of one request.
LEMMA RequestStep ==
  ASSUME GrantInv, NEW r \in Requests, NEW rec, Moves(r, rec),
         UNCHANGED <<clock, active, owner, live, lived, pub, head, sealed, cursor, received>>,
         orgLock' = orgLock \/ (orgLock \in {r, NoOne} /\ orgLock' \in {r, NoOne}),
         auditLock' = auditLock \/ (auditLock \in {r, NoOne} /\ auditLock' \in {r, NoOne}),
         AuditGrows, auditLock # r => Len(audit') = Len(audit),
         audit' \in Seq(AuditRows), AuditChainLinear',
         \A g \in grants' : g \in grants \/ (/\ g.version \in DOMAIN sealed' /\ g.request \in Requests
                                             /\ EntitledAt(g.user, g.version, g.unit)' /\ IssueRecorded(g.request)'),
         RequestFacts(r)'
  PROVE  GrantInv'
<1>1. OrgInv' /\ SealedGrows
  <2>1. OrgInv
    BY DEF GrantInv
  <2> QED
    BY <2>1, OrgLockMoves
<1>2. r # NoOne
  BY GrantAssumption
<1>3. ASSUME NEW q \in Requests \ {r} PROVE RequestFacts(q)'
  <2>1. req'[q] = req[q] /\ RequestFacts(q) /\ q # NoOne
    BY GrantAssumption DEF Moves, GrantInv
  <2>2. orgLock = q => orgLock' = q
    BY <2>1
  <2>3. auditLock = q => auditLock' = q /\ Len(audit') = Len(audit)
    BY <2>1
  <2> QED
    BY <1>1, <2>1, <2>2, <2>3, RequestKept
<1>4. GrantFacts'
  <2>1. \A g \in grants' : /\ g.version \in DOMAIN sealed' /\ g.request \in Requests
                           /\ EntitledAt(g.user, g.version, g.unit)' /\ IssueRecorded(g.request)'
    BY <1>1, OldGrants DEF GrantInv
  <2>2. \A g \in grants' : (EntitledAt(g.user, g.version, g.unit) /\ IssueRecorded(g.request))'
    BY <2>1
  <2>3. auditLock' \in Requests \cup {NoOne}
    BY DEF GrantInv, GrantFacts
  <2> QED
    BY <2>1, <2>2, <2>3 DEF GrantInv, GrantFacts, NoOwner
<1>5. \A q \in Requests : RequestFacts(q)'
  BY <1>3
<1> QED
  BY <1>1, <1>4, <1>5 DEF GrantInv, Moves

\* An event linked to the end of the chain.
LEMMA AppendKeepsTheChain ==
  ASSUME GrantFacts, NEW e \in AuditRows, audit' = Append(audit, e), e.prev = Len(audit),
         e.what = "verify" => IssueRecorded(e.of)
  PROVE  /\ audit' \in Seq(AuditRows) /\ AuditChainLinear' /\ AuditGrows
         /\ Len(audit') = Len(audit) + 1 /\ audit'[Len(audit) + 1] = e
<1>1. audit \in Seq(AuditRows) /\ Len(audit) \in Nat /\ DOMAIN audit = 1..Len(audit) /\ AuditChainLinear
  BY DEF GrantFacts
<1>2. audit' \in Seq(AuditRows) /\ Len(audit') = Len(audit) + 1 /\ DOMAIN audit' = 1..(Len(audit) + 1)
  BY <1>1
<1>3. \A j \in 1..Len(audit) : audit'[j] = audit[j]
  BY <1>1
<1>4. audit'[Len(audit) + 1] = e
  BY <1>1
<1>5. AuditGrows
  BY <1>1, <1>2, <1>3 DEF AuditGrows
<1>6. ASSUME NEW i \in DOMAIN audit' PROVE
         /\ audit'[i].prev = i - 1
         /\ audit'[i].what = "verify" => \E j \in 1..(i-1) : audit'[j] = [what |-> "issue", of |-> audit'[i].of, prev |-> j - 1]
  <2>1. CASE i \in 1..Len(audit)
    <3>1. /\ audit[i].prev = i - 1 /\ audit'[i] = audit[i]
          /\ audit[i].what = "verify" => \E j \in 1..(i-1) : audit[j] = [what |-> "issue", of |-> audit[i].of, prev |-> j - 1]
      BY <1>1, <1>3, <2>1 DEF AuditChainLinear
    <3>2. \A j \in 1..(i-1) : audit'[j] = audit[j]
      BY <1>1, <1>3, <2>1
    <3> QED
      BY <3>1, <3>2
  <2>2. CASE i = Len(audit) + 1
    <3>1. audit'[i] = e /\ i - 1 = Len(audit)
      BY <1>1, <1>4, <2>2
    <3>2. ASSUME e.what = "verify" PROVE \E j \in 1..(i-1) : audit'[j] = [what |-> "issue", of |-> e.of, prev |-> j - 1]
      <4>1. PICK j \in DOMAIN audit : audit[j] = [what |-> "issue", of |-> e.of, prev |-> j - 1]
        BY <3>2 DEF IssueRecorded
      <4>2. j \in 1..(i-1) /\ audit'[j] = audit[j]
        BY <1>1, <1>3, <3>1, <4>1
      <4> QED
        BY <4>1, <4>2
    <3> QED
      BY <3>1, <3>2
  <2>3. i \in 1..Len(audit) \/ i = Len(audit) + 1
    BY <1>1, <1>2
  <2> QED
    BY <2>1, <2>2, <2>3
<1>7. AuditChainLinear'
  BY <1>6 DEF AuditChainLinear
<1> QED
  BY <1>2, <1>4, <1>5, <1>7

\* A replaced record moves its request.
LEMMA SetReqMoves ==
  ASSUME GrantInv, NEW r \in Requests, NEW rec, SetReq(r, rec)
  PROVE  Moves(r, rec)
<1>1. req = [q \in Requests |-> req[q]]
  BY DEF GrantInv
<1> QED
  BY <1>1 DEF SetReq, Moves

\* A step that touches neither the chain nor the grants.
LEMMA PlainStep ==
  ASSUME GrantInv, NEW r \in Requests, NEW rec, Moves(r, rec),
         UNCHANGED <<clock, active, owner, live, lived, pub, head, sealed, cursor, received, grants, audit>>,
         orgLock' = orgLock \/ (orgLock \in {r, NoOne} /\ orgLock' \in {r, NoOne}),
         auditLock' = auditLock \/ (auditLock \in {r, NoOne} /\ auditLock' \in {r, NoOne}),
         RequestFacts(r)'
  PROVE  GrantInv'
<1>1. AuditGrows
  BY DEF AuditGrows
<1>2. audit' \in Seq(AuditRows) /\ AuditChainLinear'
  BY DEF GrantInv, GrantFacts, AuditChainLinear
<1> QED
  BY <1>1, <1>2, RequestStep

\* A finished request.
LEMMA FinishStep ==
  ASSUME GrantInv, NEW r \in Requests, Finish(r),
         UNCHANGED <<clock, active, owner, live, lived, pub, head, sealed, cursor, received, grants, audit>>,
         orgLock' = orgLock \/ (orgLock \in {r, NoOne} /\ orgLock' \in {r, NoOne}),
         auditLock' = auditLock \/ (auditLock \in {r, NoOne} /\ auditLock' \in {r, NoOne})
  PROVE  GrantInv'
<1> DEFINE rec == [pc |-> "done"]
<1>1. rec.pc = "done" /\ SetReq(r, rec)
  BY DEF Finish
<1> HIDE DEF rec
<1>2. Moves(r, rec)
  BY <1>1, SetReqMoves
<1>3. req'[r].pc = "done"
  BY <1>1, <1>2 DEF Moves
<1>4. RequestFacts(r)'
  BY <1>3 DEF RequestFacts
<1> QED
  BY <1>2, <1>4, PlainStep

-----------------------------------------------------------------------------
(* The actions of requests and of the world around them.                   *)

\* Steps of the organisation, the clock and a revocation leave requests alone.
LEMMA WorldInv ==
  ASSUME GrantInv,
         \/ OrgNext /\ UNCHANGED grantVars
         \/ Tick \/ (\E t \in Tickets : RevokeTicket(t)) \/ Quiescent
  PROVE  GrantInv'
<1>1. ASSUME OrgInv', SealedGrows, LockRespected, clock' \in 0..MaxTime, active' \subseteq Tickets,
             UNCHANGED <<owner, req, grants, auditLock, audit>>,
             \A r \in Requests : req[r].pc \in {"checked", "audit"} /\ req[r].ticket \in active => req[r].ticket \in active'
      PROVE  GrantInv'
  <2>1. AuditGrows
    BY <1>1 DEF AuditGrows
  <2>2. ASSUME NEW r \in Requests PROVE RequestFacts(r)'
    <3>1. RequestFacts(r) /\ req'[r] = req[r]
      BY <1>1 DEF GrantInv
    <3>2. orgLock = r => orgLock' = r /\ head' = head /\ owner' = owner
      BY <1>1 DEF LockRespected
    <3> QED
      BY <1>1, <2>1, <3>1, <3>2, RequestKept
  <2>3. GrantFacts
    BY DEF GrantInv
  <2>4. \A g \in grants' : /\ g.version \in DOMAIN sealed' /\ g.request \in Requests
                           /\ (EntitledAt(g.user, g.version, g.unit) /\ IssueRecorded(g.request))'
    BY <1>1, <2>1, <2>3, OldGrants
  <2>5. owner' = NoOwner \/ (owner'.version \in DOMAIN sealed' /\ owner'.unit \in DOMAIN sealed'[owner'.version].parent)
    BY <1>1, <2>3 DEF GrantFacts, SealedGrows
  <2>6. audit' \in Seq(AuditRows) /\ AuditChainLinear'
    BY <1>1, <2>3 DEF GrantFacts, AuditChainLinear
  <2>7. GrantFacts'
    BY <1>1, <2>3, <2>4, <2>5, <2>6 DEF GrantFacts, NoOwner
  <2> QED
    BY <1>1, <2>2, <2>7 DEF GrantInv
<1>2. OrgInv /\ clock \in 0..MaxTime /\ active \subseteq Tickets
  BY DEF GrantInv, GrantFacts
<1>3. ASSUME UNCHANGED orgVars PROVE OrgInv' /\ SealedGrows /\ LockRespected
  <2>1. OrgInv' /\ SealedGrows
    BY <1>2, <1>3, OrgLockMoves DEF orgVars
  <2> QED
    BY <1>3, <2>1 DEF LockRespected, orgVars
<1>4. CASE OrgNext /\ UNCHANGED grantVars
  <2>1. OrgInv' /\ SealedGrows /\ LockRespected
    BY <1>2, <1>4, OrgStepInv
  <2> QED
    BY <1>1, <1>2, <1>4, <2>1 DEF grantVars
<1>5. CASE Tick
  <2>1. clock' \in 0..MaxTime
    BY <1>2, <1>5, GrantAssumption DEF Tick
  <2> QED
    BY <1>1, <1>2, <1>3, <1>5, <2>1 DEF Tick
<1>6. ASSUME NEW t \in Tickets, RevokeTicket(t) PROVE GrantInv'
  BY <1>1, <1>2, <1>3, <1>6 DEF RevokeTicket
<1>7. CASE Quiescent
  BY <1>1, <1>2, <1>3, <1>7 DEF Quiescent, grantVars
<1> QED
  BY <1>4, <1>5, <1>6, <1>7

\* RegisterOwner: under the publication lock, so while nobody relies on the owner.
LEMMA RegisterOwnerInv ==
  ASSUME GrantInv, NEW u \in Units, RegisterOwner(u)
  PROVE  GrantInv'
<1>1. /\ orgLock = NoOne /\ LatestSealed > 0 /\ u \in DOMAIN sealed[LatestSealed].parent
      /\ owner' = [unit |-> u, version |-> LatestSealed]
      /\ UNCHANGED <<clock, active, req, grants, auditLock, audit, orgVars>>
  BY DEF RegisterOwner
<1>2. OrgInv /\ GrantFacts /\ SealedFacts
  BY DEF GrantInv, OrgInv
<1>3. OrgInv' /\ SealedGrows
  BY <1>1, <1>2, OrgLockMoves DEF orgVars
<1>4. AuditGrows
  BY <1>1 DEF AuditGrows
<1>5. ASSUME NEW r \in Requests PROVE RequestFacts(r)'
  <2>1. RequestFacts(r) /\ req'[r] = req[r] /\ orgLock # r
    BY <1>1, GrantAssumption DEF GrantInv
  <2> QED
    BY <1>1, <1>3, <1>4, <2>1, RequestKept
<1>6. \A g \in grants' : /\ g.version \in DOMAIN sealed' /\ g.request \in Requests
                         /\ (EntitledAt(g.user, g.version, g.unit) /\ IssueRecorded(g.request))'
  BY <1>1, <1>2, <1>3, <1>4, OldGrants
<1>7. PICK v : v = LatestSealed
  OBVIOUS
<1>8. v \in DOMAIN sealed /\ sealed' = sealed
  BY <1>1, <1>2, <1>7, LatestIsHead DEF orgVars
<1>9. owner'.version \in DOMAIN sealed' /\ owner'.unit \in DOMAIN sealed'[owner'.version].parent
  BY <1>1, <1>7, <1>8
<1>10. audit' \in Seq(AuditRows) /\ AuditChainLinear'
  BY <1>1, <1>2 DEF GrantFacts, AuditChainLinear
<1>11. GrantFacts'
  BY <1>1, <1>2, <1>6, <1>9, <1>10 DEF GrantFacts
<1> QED
  BY <1>1, <1>3, <1>5, <1>11 DEF GrantInv

\* AppendOtherEvent: under the audit lock, so while nobody has read its end.
LEMMA OtherEventInv ==
  ASSUME GrantInv, AppendOtherEvent
  PROVE  GrantInv'
<1> DEFINE e == [what |-> "other", of |-> NoOne, prev |-> Len(audit)]
<1>1. auditLock = NoOne /\ audit' = Append(audit, e) /\ UNCHANGED <<clock, active, owner, req, grants, auditLock, orgVars>>
  BY DEF AppendOtherEvent
<1>2. OrgInv /\ GrantFacts
  BY DEF GrantInv
<1>3. Len(audit) \in Nat
  BY <1>2 DEF GrantFacts
<1>4. e \in AuditRows /\ e.prev = Len(audit) /\ e.what = "other"
  BY <1>3 DEF AuditRows
<1> HIDE DEF e
<1>5. audit' \in Seq(AuditRows) /\ AuditChainLinear' /\ AuditGrows
  BY <1>1, <1>2, <1>4, AppendKeepsTheChain
<1>6. OrgInv' /\ SealedGrows
  BY <1>1, <1>2, OrgLockMoves DEF orgVars
<1>7. ASSUME NEW r \in Requests PROVE RequestFacts(r)'
  <2>1. RequestFacts(r) /\ req'[r] = req[r] /\ auditLock # r
    BY <1>1, GrantAssumption DEF GrantInv
  <2>2. orgLock = r => orgLock' = r /\ head' = head /\ owner' = owner
    BY <1>1 DEF orgVars
  <2> QED
    BY <1>1, <1>5, <1>6, <2>1, <2>2, RequestKept
<1>8. \A g \in grants' : /\ g.version \in DOMAIN sealed' /\ g.request \in Requests
                         /\ (EntitledAt(g.user, g.version, g.unit) /\ IssueRecorded(g.request))'
  BY <1>1, <1>2, <1>5, <1>6, OldGrants
<1>9. GrantFacts'
  BY <1>1, <1>2, <1>5, <1>8 DEF GrantFacts, NoOwner, orgVars
<1> QED
  BY <1>1, <1>6, <1>7, <1>9 DEF GrantInv

\* Ingress and VerifyIngress.
LEMMA IngressInv ==
  ASSUME GrantInv, NEW r \in Requests,
         \/ \E user \in Users, t \in Tickets, ttl \in TTLs, b \in BOOLEAN : Ingress(r, user, t, ttl, b)
         \/ \E user \in Users : VerifyIngress(r, user)
  PROVE  GrantInv'
<1>1. ASSUME NEW user \in Users, NEW t \in Tickets, NEW ttl \in TTLs, NEW b \in BOOLEAN, Ingress(r, user, t, ttl, b)
      PROVE  GrantInv'
  <2>1. PICK v : v = LatestSealed
    OBVIOUS
  <2> DEFINE rec == [pc |-> "create", user |-> user, ticket |-> t, ttl |-> ttl, version |-> v]
  <2>2. v > 0 /\ SetReq(r, rec) /\ UNCHANGED <<clock, active, owner, grants, auditLock, audit, orgVars>>
    BY <1>1, <2>1 DEF Ingress
  <2>3. SealedFacts
    BY DEF GrantInv, OrgInv
  <2>4. v \in DOMAIN sealed /\ v \in Nat
    BY <2>1, <2>2, <2>3, LatestIsHead DEF SealedFacts
  <2>5. rec \in Creating /\ rec.pc = "create" /\ rec.version = v
    BY <2>4, GrantAssumption DEF Creating
  <2> HIDE DEF rec
  <2>6. Moves(r, rec)
    BY <2>2, SetReqMoves
  <2>7. RequestFacts(r)'
    BY <2>2, <2>4, <2>5, <2>6 DEF RequestFacts, Moves, orgVars
  <2> QED
    BY <2>2, <2>6, <2>7, PlainStep DEF orgVars
<1>2. ASSUME NEW user \in Users, VerifyIngress(r, user) PROVE GrantInv'
  <2> DEFINE rec == [pc |-> "verify", user |-> user, now |-> clock]
  <2>1. SetReq(r, rec) /\ UNCHANGED <<clock, active, owner, grants, auditLock, audit, orgVars>>
    BY <1>2 DEF VerifyIngress
  <2>2. rec.pc = "verify" /\ rec.user \in Users /\ rec.now \in Nat
    BY GrantAssumption DEF GrantInv, GrantFacts
  <2> HIDE DEF rec
  <2>3. Moves(r, rec)
    BY <2>1, SetReqMoves
  <2>4. RequestFacts(r)'
    BY <2>2, <2>3 DEF RequestFacts, Moves
  <2> QED
    BY <2>1, <2>3, <2>4, PlainStep DEF orgVars
<1> QED
  BY <1>1, <1>2

\* Authorize: the policy of the latest version entitles the actor at the owner's unit.
LEMMA AuthorizeInv ==
  ASSUME GrantInv, NEW r \in Requests, Authorize(r)
  PROVE  GrantInv'
<1> DEFINE x == req[r]
           ok == /\ owner # NoOwner /\ owner.version = x.version
                 /\ GrantAllowed(x.user, x.version, owner.unit)
<1>1. x.pc = "create" /\ UNCHANGED <<clock, active, owner, grants, auditLock, audit, orgVars>>
  BY DEF Authorize
<1>2. RequestFacts(r) /\ OrgInv /\ SealedFacts /\ GrantFacts
  BY DEF GrantInv, OrgInv
<1>3. x \in Creating /\ x.version \in DOMAIN sealed
  BY <1>1, <1>2 DEF RequestFacts
<1>4. CASE ~ok
  <2>1. Finish(r)
    BY <1>4 DEF Authorize
  <2> QED
    BY <1>1, <2>1, FinishStep DEF orgVars
<1>5. CASE ok
  <2>1. PICK e : e = clock + (IF x.ttl > MaxStepGrantTTL THEN MaxStepGrantTTL ELSE x.ttl)
    OBVIOUS
  <2> DEFINE rec == [pc |-> "authorized", user |-> x.user, ticket |-> x.ticket,
                     version |-> x.version, unit |-> owner.unit, created |-> clock, expires |-> e]
  <2>2. SetReq(r, rec)
    BY <1>5, <2>1 DEF Authorize
  <2>3. clock \in Nat /\ e \in Nat
    BY <1>2, <1>3, <2>1, GrantAssumption DEF GrantFacts, Creating
  <2>4. owner.unit \in Units
    BY <1>2, <1>3, <1>5, SealedUnits DEF GrantFacts
  <2>5. LatestSealed \in DOMAIN sealed
    BY <1>2, <1>3, LatestIsHead DEF SealedFacts
  <2>6. NoUnit \notin DOMAIN sealed[LatestSealed].parent /\ owner.unit # NoUnit
    BY <1>2, <2>4, <2>5, SealedUnits, OrgAssumption
  <2>7. EntitledAt(x.user, x.version, owner.unit)
    BY <1>5, <2>6, AllowedIsEntitled
  <2>8. /\ rec \in Pending /\ rec.pc = "authorized" /\ rec.user = x.user
        /\ rec.version = x.version /\ rec.unit = owner.unit
    BY <1>3, <2>3, <2>4 DEF Pending, Creating
  <2> HIDE DEF rec
  <2>9. Moves(r, rec)
    BY <2>2, SetReqMoves
  <2>10. /\ req'[r] \in Pending /\ req'[r].pc = "authorized" /\ req'[r].user = x.user
         /\ req'[r].version = x.version /\ req'[r].unit = owner.unit
    BY <2>8, <2>9 DEF Moves
  <2>11. EntitledAt(req'[r].user, req'[r].version, req'[r].unit)
    BY <2>7, <2>10
  <2>12. (EntitledAt(req[r].user, req[r].version, req[r].unit))'
    BY <1>1, <2>11 DEF EntitledAt, orgVars
  <2>13. RequestFacts(r)'
    BY <1>1, <1>3, <2>10, <2>12 DEF RequestFacts, orgVars
  <2> QED
    BY <1>1, <2>9, <2>13, PlainStep DEF orgVars
<1> QED
  BY <1>4, <1>5

\* The publication lock, and the recheck under it.
LEMMA LockAndRecheckInv ==
  ASSUME GrantInv, NEW r \in Requests, AcquireEnterpriseOrgPublicationLock(r) \/ Recheck(r)
  PROVE  GrantInv'
<1> DEFINE x == req[r]
<1>1. RequestFacts(r) /\ OrgInv /\ SealedFacts /\ GrantFacts /\ req = [q \in Requests |-> req[q]] /\ r # NoOne
  BY GrantAssumption DEF GrantInv, OrgInv
<1>2. x.pc \in {"authorized", "org"} =>
        x \in Pending /\ x.version \in DOMAIN sealed /\ EntitledAt(x.user, x.version, x.unit)
  BY <1>1 DEF RequestFacts
<1>3. ASSUME NEW rec \in Pending, Moves(r, rec), sealed' = sealed, x.pc \in {"authorized", "org"},
             rec.user = x.user, rec.version = x.version, rec.unit = x.unit
      PROVE  /\ req'[r] \in Pending /\ req'[r].version \in DOMAIN sealed'
             /\ (EntitledAt(req[r].user, req[r].version, req[r].unit))'
  <2>1. req'[r] = rec
    BY <1>3 DEF Moves
  <2>2. EntitledAt(rec.user, rec.version, rec.unit)
    BY <1>2, <1>3
  <2>3. EntitledAt(req'[r].user, req'[r].version, req'[r].unit)
    BY <2>1, <2>2
  <2> QED
    BY <1>2, <1>3, <2>1, <2>3 DEF EntitledAt
<1>4. CASE AcquireEnterpriseOrgPublicationLock(r)
  <2> DEFINE rec == [x EXCEPT !.pc = "org"]
  <2>1. /\ x.pc = "authorized" /\ orgLock = NoOne /\ orgLock' = r
        /\ UNCHANGED <<clock, active, owner, grants, auditLock, audit, live, lived, pub, head, sealed, cursor, received>>
    BY <1>4 DEF AcquireEnterpriseOrgPublicationLock
  <2>2. Moves(r, rec)
    BY <1>1, <1>4 DEF AcquireEnterpriseOrgPublicationLock, Moves
  <2>3. x \in Pending
    BY <1>2, <2>1
  <2>4. rec \in Pending /\ rec.pc = "org" /\ rec.user = x.user /\ rec.version = x.version /\ rec.unit = x.unit
    BY <2>3 DEF Pending
  <2> HIDE DEF rec
  <2>5. /\ req'[r] \in Pending /\ req'[r].version \in DOMAIN sealed'
        /\ (EntitledAt(req[r].user, req[r].version, req[r].unit))'
    BY <1>3, <2>1, <2>2, <2>4
  <2>6. req'[r].pc = "org"
    BY <2>2, <2>4 DEF Moves
  <2>7. RequestFacts(r)'
    BY <2>1, <2>5, <2>6 DEF RequestFacts
  <2> QED
    BY <2>1, <2>2, <2>7, PlainStep
<1>5. CASE Recheck(r)
  <2>1. /\ x.pc = "org"
        /\ UNCHANGED <<clock, active, owner, grants, auditLock, audit, live, lived, pub, head, sealed, cursor, received>>
    BY <1>5 DEF Recheck
  <2>2. orgLock = r /\ x \in Pending
    BY <1>1, <1>2, <2>1 DEF RequestFacts
  <2>3. CASE ~StillGrantable(r)
    <3>1. Finish(r) /\ orgLock' = NoOne
      BY <1>5, <2>3 DEF Recheck
    <3> QED
      BY <2>1, <2>2, <3>1, FinishStep
  <2>4. CASE StillGrantable(r)
    <3>1. PICK e : e = IF TicketExpiry[x.ticket] < x.expires THEN TicketExpiry[x.ticket] ELSE x.expires
      OBVIOUS
    <3>2. e \in Nat
      BY <2>2, <3>1, GrantAssumption DEF Pending
    <3> DEFINE rec == [x EXCEPT !.pc = "checked", !.expires = e]
    <3>3. req' = [req EXCEPT ![r] = rec] /\ orgLock' = orgLock
      BY <1>1, <1>5, <2>2, <2>4, <3>1 DEF Recheck, Pending
    <3>4. Moves(r, rec)
      BY <1>1, <3>3 DEF Moves
    <3>5. /\ rec \in Pending /\ rec.pc = "checked" /\ rec.user = x.user /\ rec.version = x.version
          /\ rec.unit = x.unit /\ rec.ticket = x.ticket
      BY <2>2, <3>2 DEF Pending
    <3> HIDE DEF rec
    <3>6. /\ req'[r] \in Pending /\ req'[r].version \in DOMAIN sealed'
          /\ (EntitledAt(req[r].user, req[r].version, req[r].unit))'
      BY <1>3, <2>1, <3>4, <3>5
    <3>7. /\ x.ticket \in active /\ TicketActor[x.ticket] = x.user
          /\ x.version = head /\ owner = [unit |-> x.unit, version |-> x.version]
      BY <1>1, <2>4, LatestIsHead DEF StillGrantable, ActiveCaseTicketForGrant
    <3>8. req'[r] = rec
      BY <3>4 DEF Moves
    <3>9. RequestFacts(r)'
      BY <2>1, <2>2, <3>3, <3>5, <3>6, <3>7, <3>8 DEF RequestFacts
    <3> QED
      BY <2>1, <3>3, <3>4, <3>9, PlainStep
  <2> QED
    BY <2>3, <2>4
<1> QED
  BY <1>4, <1>5

\* The audit lock, and the end of the chain read under it.
LEMMA AuditLockInv ==
  ASSUME GrantInv, NEW r \in Requests,
         AcquireEnterpriseAuditLock(r, "checked", "audit") \/ AcquireEnterpriseAuditLock(r, "found", "vaudit")
  PROVE  GrantInv'
<1> DEFINE x == req[r]
<1>1. RequestFacts(r) /\ GrantFacts /\ Len(audit) \in Nat
  BY DEF GrantInv, GrantFacts
<1>2. CASE AcquireEnterpriseAuditLock(r, "checked", "audit")
  <2> DEFINE rec == WithPrev(x, "audit")
  <2>1. x.pc = "checked" /\ auditLock = NoOne /\ auditLock' = r /\ SetReq(r, rec) /\ UNCHANGED <<clock, active, owner, grants, audit, orgVars>>
    BY <1>2 DEF AcquireEnterpriseAuditLock
  <2>2. /\ x \in Pending /\ x.version \in DOMAIN sealed /\ EntitledAt(x.user, x.version, x.unit) /\ orgLock = r
        /\ x.ticket \in active /\ TicketActor[x.ticket] = x.user
        /\ x.version = head /\ owner = [unit |-> x.unit, version |-> x.version]
    BY <1>1, <2>1 DEF RequestFacts
  <2>3. rec = [pc |-> "audit", user |-> x.user, ticket |-> x.ticket, version |-> x.version,
               unit |-> x.unit, created |-> x.created, expires |-> x.expires, prev |-> Len(audit)]
    BY <2>2 DEF WithPrev, Pending
  <2>4. /\ rec.pc = "audit" /\ rec.user = x.user /\ rec.version = x.version /\ rec.unit = x.unit
        /\ rec.ticket = x.ticket /\ rec.prev = Len(audit) /\ rec \in Recording
    BY <1>1, <2>2, <2>3 DEF Pending, Recording
  <2> HIDE DEF rec
  <2>5. Moves(r, rec)
    BY <2>1, SetReqMoves
  <2>6. req'[r] = rec
    BY <2>5 DEF Moves
  <2>7. EntitledAt(rec.user, rec.version, rec.unit)
    BY <2>2, <2>4
  <2>8. EntitledAt(req'[r].user, req'[r].version, req'[r].unit)
    BY <2>6, <2>7
  <2>9. (EntitledAt(req[r].user, req[r].version, req[r].unit))'
    BY <2>1, <2>8 DEF EntitledAt, orgVars
  <2>10. RequestFacts(r)'
    BY <2>1, <2>2, <2>4, <2>6, <2>9 DEF RequestFacts, orgVars
  <2> QED
    BY <2>1, <2>5, <2>10, PlainStep DEF orgVars
<1>3. CASE AcquireEnterpriseAuditLock(r, "found", "vaudit")
  <2> DEFINE rec == WithPrev(x, "vaudit")
  <2>1. x.pc = "found" /\ auditLock = NoOne /\ auditLock' = r /\ SetReq(r, rec) /\ UNCHANGED <<clock, active, owner, grants, audit, orgVars>>
    BY <1>3 DEF AcquireEnterpriseAuditLock
  <2>2. x \in Verifying /\ x.grant \in Requests /\ IssueRecorded(x.grant)
    BY <1>1, <2>1 DEF RequestFacts
  <2>3. rec.pc = "vaudit" /\ rec.grant = x.grant /\ rec.prev = Len(audit)
    BY <2>2 DEF WithPrev, Verifying
  <2> HIDE DEF rec
  <2>4. Moves(r, rec)
    BY <2>1, SetReqMoves
  <2>5. req'[r] = rec
    BY <2>4 DEF Moves
  <2>6. IssueRecorded(req'[r].grant)
    BY <2>2, <2>3, <2>5
  <2>7. (IssueRecorded(req[r].grant))'
    BY <2>1, <2>6 DEF IssueRecorded
  <2>8. RequestFacts(r)'
    BY <2>1, <2>2, <2>3, <2>5, <2>7 DEF RequestFacts
  <2> QED
    BY <2>1, <2>4, <2>8, PlainStep DEF orgVars
<1> QED
  BY <1>2, <1>3

\* CommitGrant: the grant and its event in one transaction.
LEMMA CommitGrantInv ==
  ASSUME GrantInv, NEW r \in Requests, CommitGrant(r)
  PROVE  GrantInv'
<1> DEFINE x == req[r]
           e == [what |-> "issue", of |-> r, prev |-> x.prev]
           g == IssuanceOf(r)
<1>1. RequestFacts(r) /\ GrantFacts /\ r # NoOne
  BY GrantAssumption DEF GrantInv
<1>2. /\ x.pc = "audit" /\ Finish(r) /\ orgLock' = NoOne /\ auditLock' = NoOne
      /\ UNCHANGED <<clock, active, owner, live, lived, pub, head, sealed, cursor, received>>
  BY DEF CommitGrant
<1>3. /\ orgLock = r /\ auditLock = r /\ x.prev = Len(audit) /\ x.version \in DOMAIN sealed
      /\ EntitledAt(x.user, x.version, x.unit)
  BY <1>1, <1>2 DEF RequestFacts
<1>4. CASE ~ValidIssuance(r)
  <2>1. UNCHANGED <<grants, audit>>
    BY <1>4 DEF CommitGrant
  <2> QED
    BY <1>2, <1>3, <2>1, FinishStep
<1>5. CASE ValidIssuance(r)
  <2>1. grants' = grants \cup {g} /\ audit' = Append(audit, e)
    BY <1>5 DEF CommitGrant
  <2>2. Len(audit) \in Nat
    BY <1>1 DEF GrantFacts
  <2>3. e \in AuditRows /\ e.prev = Len(audit) /\ e.what = "issue" /\ e = [what |-> "issue", of |-> r, prev |-> Len(audit)]
    BY <1>3, <2>2 DEF AuditRows
  <2>4. g.version = x.version /\ g.request = r /\ g.user = x.user /\ g.unit = x.unit
    BY DEF IssuanceOf
  <2> HIDE DEF e, g
  <2>5. /\ audit' \in Seq(AuditRows) /\ AuditChainLinear' /\ AuditGrows
        /\ Len(audit') = Len(audit) + 1 /\ audit'[Len(audit) + 1] = e
    BY <1>1, <2>1, <2>3, AppendKeepsTheChain
  <2>6. IssueRecorded(r)'
    <3>1. Len(audit) + 1 \in DOMAIN audit' /\ (Len(audit) + 1) - 1 = Len(audit)
      BY <2>2, <2>5
    <3>2. \E j \in DOMAIN audit' : audit'[j] = [what |-> "issue", of |-> r, prev |-> j - 1]
      BY <2>3, <2>5, <3>1
    <3> QED
      BY <3>2 DEF IssueRecorded
  <2>7. SealedGrows
    BY <1>2 DEF SealedGrows
  <2>8. EntitledAt(g.user, g.version, g.unit)
    BY <1>3, <2>4
  <2>9. \A h \in grants' : h \in grants \/ (/\ h.version \in DOMAIN sealed' /\ h.request \in Requests
                                            /\ EntitledAt(h.user, h.version, h.unit)' /\ IssueRecorded(h.request)')
    <3> SUFFICES ASSUME NEW h \in grants', h \notin grants
                 PROVE  /\ h.version \in DOMAIN sealed' /\ h.request \in Requests
                        /\ EntitledAt(h.user, h.version, h.unit)' /\ IssueRecorded(h.request)'
      OBVIOUS
    <3>1. h = g
      BY <2>1
    <3>2. h.version \in DOMAIN sealed /\ h.request = r /\ EntitledAt(h.user, h.version, h.unit)
      BY <1>3, <2>4, <2>8, <3>1
    <3>3. EntitledAt(h.user, h.version, h.unit)'
      BY <2>7, <3>2, EntitlementStays
    <3> QED
      BY <1>2, <2>6, <3>2, <3>3
  <2> DEFINE rec == [pc |-> "done"]
  <2>10. rec.pc = "done" /\ SetReq(r, rec)
    BY <1>2 DEF Finish
  <2> HIDE DEF rec
  <2>11. Moves(r, rec)
    BY <2>10, SetReqMoves
  <2>12. RequestFacts(r)'
    <3>1. req'[r].pc = "done"
      BY <2>10, <2>11 DEF Moves
    <3> QED
      BY <3>1 DEF RequestFacts
  <2> QED
    BY <1>2, <1>3, <2>5, <2>9, <2>11, <2>12, RequestStep
<1> QED
  BY <1>4, <1>5

\* AbortGrant: what the transaction holds is released.
LEMMA AbortGrantInv ==
  ASSUME GrantInv, NEW r \in Requests, AbortGrant(r)
  PROVE  GrantInv'
BY FinishStep DEF AbortGrant

\* FindGrant and CommitVerification.
LEMMA VerificationInv ==
  ASSUME GrantInv, NEW r \in Requests, (\E g \in grants : FindGrant(r, g)) \/ CommitVerification(r)
  PROVE  GrantInv'
<1> DEFINE x == req[r]
<1>1. RequestFacts(r) /\ GrantFacts
  BY DEF GrantInv
<1>2. ASSUME NEW g \in grants, FindGrant(r, g) PROVE GrantInv'
  <2>1. x.pc = "verify" /\ UNCHANGED <<clock, active, owner, grants, auditLock, audit, orgVars>>
    BY <1>2 DEF FindGrant
  <2>2. CASE ~VerifiesFor(g, r)
    <3>1. Finish(r)
      BY <1>2, <2>2 DEF FindGrant
    <3> QED
      BY <2>1, <3>1, FinishStep DEF orgVars
  <2>3. CASE VerifiesFor(g, r)
    <3> DEFINE rec == [pc |-> "found", user |-> x.user, now |-> x.now, grant |-> g.request]
    <3>1. SetReq(r, rec)
      BY <1>2, <2>3 DEF FindGrant
    <3>2. g.request \in Requests /\ IssueRecorded(g.request)
      BY <1>1 DEF GrantFacts
    <3>3. x.user \in Users /\ x.now \in Nat
      BY <1>1, <2>1 DEF RequestFacts
    <3>4. rec \in Verifying /\ rec.pc = "found" /\ rec.grant = g.request
      BY <3>2, <3>3 DEF Verifying
    <3> HIDE DEF rec
    <3>5. Moves(r, rec)
      BY <3>1, SetReqMoves
    <3>6. req'[r] = rec
      BY <3>5 DEF Moves
    <3>7. IssueRecorded(req'[r].grant)
      BY <3>2, <3>4, <3>6
    <3>8. (IssueRecorded(req[r].grant))'
      BY <2>1, <3>7 DEF IssueRecorded
    <3>9. RequestFacts(r)'
      BY <3>2, <3>4, <3>6, <3>8 DEF RequestFacts
    <3> QED
      BY <2>1, <3>5, <3>9, PlainStep DEF orgVars
  <2> QED
    BY <2>2, <2>3
<1>3. CASE CommitVerification(r)
  <2> DEFINE e == [what |-> "verify", of |-> x.grant, prev |-> x.prev]
             rec == [pc |-> "done"]
  <2>1. /\ x.pc = "vaudit" /\ audit' = Append(audit, e) /\ SetReq(r, rec) /\ auditLock' = NoOne
        /\ UNCHANGED <<clock, active, owner, grants, orgVars>>
    BY <1>3 DEF CommitVerification, Finish
  <2>2. auditLock = r /\ x.prev = Len(audit) /\ x.grant \in Requests /\ IssueRecorded(x.grant) /\ Len(audit) \in Nat
    BY <1>1, <2>1 DEF RequestFacts, GrantFacts
  <2>3. e \in AuditRows /\ e.prev = Len(audit) /\ e.of = x.grant /\ rec.pc = "done"
    BY <2>2 DEF AuditRows
  <2> HIDE DEF e, rec
  <2>4. IssueRecorded(e.of)
    BY <2>2, <2>3
  <2>5. audit' \in Seq(AuditRows) /\ AuditChainLinear' /\ AuditGrows
    BY <1>1, <2>1, <2>3, <2>4, AppendKeepsTheChain
  <2>6. Moves(r, rec)
    BY <2>1, SetReqMoves
  <2>7. RequestFacts(r)'
    <3>1. req'[r].pc = "done"
      BY <2>3, <2>6 DEF Moves
    <3> QED
      BY <3>1 DEF RequestFacts
  <2> QED
    BY <2>1, <2>2, <2>5, <2>6, <2>7, RequestStep DEF orgVars
<1> QED
  BY <1>2, <1>3

-----------------------------------------------------------------------------
(* The theorems.                                                           *)

\* The initial states.
LEMMA GrantInitInv == GrantInit => GrantInv
<1> SUFFICES ASSUME GrantInit PROVE GrantInv
  OBVIOUS
<1>1. PICK root \in Units : live = [parent |-> [u \in {root} |-> NoUnit], members |-> {}]
  BY DEF GrantInit, OrgInit
<1>2. LiveFacts
  <2>1. IsOrg(live)
    BY <1>1 DEF IsOrg
  <2> QED
    BY <2>1 DEF GrantInit, OrgInit, LiveFacts
<1>3. sealed = <<>> /\ DOMAIN sealed = {} /\ head = 0 /\ cursor = 0 /\ received = <<>> /\ DOMAIN received = {}
  BY DEF GrantInit, OrgInit
<1>4. SealedFacts /\ SealedWasLive
  BY <1>3 DEF SealedFacts, SealedWasLive
<1>5. FeedFacts
  BY <1>3 DEF FeedFacts, FeedComplete
<1>6. OrgInv
  BY <1>2, <1>4, <1>5 DEF GrantInit, OrgInit, OrgInv, PublisherFacts
<1>7. GrantFacts
  BY GrantAssumption DEF GrantInit, GrantFacts, AuditChainLinear
<1>8. \A r \in Requests : RequestFacts(r)
  BY DEF GrantInit, RequestFacts
<1> QED
  BY <1>6, <1>7, <1>8 DEF GrantInit, GrantInv

\* Every step.
LEMMA GrantStepInv ==
  ASSUME GrantInv, [GrantNext]_<<orgVars, grantVars>>
  PROVE  GrantInv'
<1>1. ASSUME NEW r \in Requests, GrantRequest(r) PROVE GrantInv'
  BY <1>1, IngressInv, AuthorizeInv, LockAndRecheckInv, AuditLockInv, CommitGrantInv, AbortGrantInv, VerificationInv
     DEF GrantRequest
<1>2. CASE UNCHANGED <<orgVars, grantVars>>
  <2>1. OrgInv /\ GrantFacts
    BY DEF GrantInv
  <2>2. OrgInv' /\ SealedGrows
    BY <1>2, <2>1, OrgLockMoves DEF orgVars
  <2>3. AuditGrows
    BY <1>2 DEF AuditGrows, grantVars
  <2>4. \A r \in Requests : RequestFacts(r)'
    BY <1>2, <2>2, <2>3, RequestKept DEF GrantInv, orgVars, grantVars
  <2>5. \A g \in grants' : /\ g.version \in DOMAIN sealed' /\ g.request \in Requests
                           /\ (EntitledAt(g.user, g.version, g.unit) /\ IssueRecorded(g.request))'
    BY <1>2, <2>1, <2>2, <2>3, OldGrants DEF grantVars
  <2>6. GrantFacts'
    BY <1>2, <2>1, <2>5 DEF GrantFacts, NoOwner, AuditChainLinear, orgVars, grantVars
  <2> QED
    BY <1>2, <2>2, <2>4, <2>6 DEF GrantInv, grantVars
<1> QED
  BY <1>1, <1>2, WorldInv, RegisterOwnerInv, OtherEventInv DEF GrantNext

\* Whoever is past a lock holds it, a publication in hand is of one moment and
\* past the head, and what a request rechecked holds until it commits.
THEOREM GrantInvariant == GrantSpec => []GrantInv
<1>1. GrantInit => GrantInv
  BY GrantInitInv
<1>2. GrantInv /\ [GrantNext]_<<orgVars, grantVars>> => GrantInv'
  BY GrantStepInv
<1> QED
  BY <1>1, <1>2, PTL DEF GrantSpec

\* Every sealed version is the organisation of one instant, and a consumer that
\* pages and resumes the feed is sent every sealed event up to its cursor, once
\* and in order: for any page limit, publishers and edits.
THEOREM PublicationSoundness == GrantSpec => []PublicationIsSound
<1>1. GrantInv => PublicationIsSound
  BY DEF GrantInv, OrgInv, FeedFacts, PublicationIsSound
<1> QED
  BY <1>1, GrantInvariant, PTL

\* Every grant is entitled by the version it names, and issues and verifications
\* form one chain in which no verification precedes its issue.
THEOREM GrantSoundness == GrantSpec => []GrantsAreSound
<1>1. ASSUME GrantInv PROVE GrantsAreSound
  <2>1. TypeOK
    BY <1>1 DEF GrantInv, OrgInv, GrantFacts, RequestFacts, TypeOK
  <2>2. GrantWasEntitled
    BY <1>1 DEF GrantInv, GrantFacts, EntitledAt, GrantWasEntitled
  <2> QED
    BY <1>1, <2>1, <2>2 DEF GrantInv, GrantFacts, GrantsAreSound
<1> QED
  BY <1>1, GrantInvariant, PTL

\* When a grant is recorded its version is the latest, its unit the registered
\* owner's, its ticket active and its actor's, and it ends no later than it.
THEOREM GrantsAreFresh == GrantSpec => GrantFreshAtIssue
<1> DEFINE Fresh(g) == /\ g.version = LatestSealed /\ owner = [unit |-> g.unit, version |-> g.version]
                       /\ g.ticket \in active /\ TicketActor[g.ticket] = g.user
                       /\ g.expires <= TicketExpiry[g.ticket]
<1>1. ASSUME GrantInv, NEW r \in Requests, CommitGrant(r), NEW g \in grants' \ grants
      PROVE  Fresh(g)
  <2>1. ValidIssuance(r) /\ g = IssuanceOf(r) /\ req[r].pc = "audit"
    BY <1>1 DEF CommitGrant
  <2>2. /\ g.version = req[r].version /\ g.unit = req[r].unit /\ g.ticket = req[r].ticket
        /\ g.user = req[r].user /\ g.expires = req[r].expires
    BY <2>1 DEF IssuanceOf
  <2>3. req[r].ticket \in active /\ TicketActor[req[r].ticket] = req[r].user
    BY <1>1, <2>1 DEF GrantInv, RequestFacts
  <2> QED
    BY <2>1, <2>2, <2>3 DEF ValidIssuance
<1>2. ASSUME [GrantNext]_<<orgVars, grantVars>>, grants' # grants
      PROVE  \E r \in Requests : CommitGrant(r)
  <2>1. GrantNext
    BY <1>2 DEF grantVars
  <2>2. \E r \in Requests : GrantRequest(r)
    BY <1>2, <2>1 DEF GrantNext, grantVars, Tick, AppendOtherEvent, RevokeTicket, RegisterOwner, Quiescent
  <2> QED
    BY <1>2, <2>2 DEF GrantRequest, Ingress, Authorize, AcquireEnterpriseOrgPublicationLock, Recheck,
       AcquireEnterpriseAuditLock, AbortGrant, VerifyIngress, FindGrant, CommitVerification
<1>3. GrantInv /\ [GrantNext]_<<orgVars, grantVars>> => [\A g \in grants' \ grants : Fresh(g)]_<<orgVars, grantVars>>
  <2> SUFFICES ASSUME GrantInv, [GrantNext]_<<orgVars, grantVars>>, NEW g \in grants' \ grants PROVE Fresh(g)
    OBVIOUS
  <2>1. grants' # grants
    OBVIOUS
  <2>2. PICK r \in Requests : CommitGrant(r)
    BY <1>2, <2>1
  <2> QED
    BY <1>1, <2>2
<1> QED
  BY <1>3, GrantInvariant, PTL DEF GrantSpec, GrantFreshAtIssue

-----------------------------------------------------------------------------
(* Task runs.                                                              *)

Calls == [pc : {"idle", "step", "update", "checkpoint", "publish"}, op : {"none", "append", "wait", "complete"},
          read : Statuses, to : Statuses]

\* A call about to write read a status that was not terminal.
TaskInv ==
  /\ status \in Statuses
  /\ call \in [Callers -> Calls]
  /\ \A c \in Callers : call[c].pc \in {"step", "update"} => call[c].read \notin Terminal

\* A call moves on and keeps what it read.
LEMMA GotoKeeps ==
  ASSUME TaskInv, NEW c \in Callers, NEW pc \in {"idle", "step", "update", "checkpoint", "publish"},
         Goto(c, pc), status' \in Statuses,
         pc \in {"step", "update"} => call[c].pc \in {"step", "update"}
  PROVE  TaskInv' /\ (pc # call[c].pc => call'[c] # call[c])
<1>1. call' = [call EXCEPT ![c] = [call[c] EXCEPT !.pc = pc]]
  BY DEF Goto
<1>2. call[c] \in Calls
  BY DEF TaskInv
<1> DEFINE y == [call[c] EXCEPT !.pc = pc]
<1>3. y \in Calls /\ y.pc = pc /\ y.read = call[c].read
  BY <1>2 DEF Calls
<1> HIDE DEF y
<1>4. call' = [call EXCEPT ![c] = y]
  BY <1>1 DEF y
<1>5. call' \in [Callers -> Calls] /\ call'[c] = y /\ \A d \in Callers \ {c} : call'[d] = call[d]
  BY <1>3, <1>4 DEF TaskInv
<1> QED
  BY <1>3, <1>5 DEF TaskInv

\* A call begins on a status that was read, and not terminal.
LEMMA BeginKeeps ==
  ASSUME TaskInv, NEW c \in Callers, NEW op \in {"append", "wait", "complete"}, NEW to \in Statuses, Begin(c, op, to)
  PROVE  TaskInv'
<1> DEFINE y == IF Admits(op, status, to) THEN [pc |-> FirstWrite[op], op |-> op, read |-> status, to |-> to] ELSE NoCall
<1>1. FirstWrite[op] \in {"step", "update"}
  BY DEF FirstWrite
<1>2. Admits(op, status, to) => status \notin Terminal
  BY DEF Admits, canTransition
<1>3. y \in Calls
  BY <1>1 DEF Calls, NoCall, TaskInv, Statuses
<1>4. y.pc \in {"step", "update"} => y.read \notin Terminal
  BY <1>2 DEF NoCall
<1>5. call' = [call EXCEPT ![c] = y] /\ status' = status
  BY DEF Begin
<1> HIDE DEF y
<1> QED
  BY <1>3, <1>4, <1>5 DEF TaskInv

\* A run that has ended is changed, or gets a step, only by a call that read it
\* before it ended: for any number of callers and of operations.
THEOREM CompletionIsFinal == TaskSpec => TerminalChangesAreStale
<1> DEFINE Changed == status \in Terminal /\ ~UNCHANGED <<status, steps>>
           Late == \E c \in Callers : Stale(c) /\ call'[c] # call[c]
<1>1. TaskInit => TaskInv
  BY DEF TaskInit, TaskInv, NoCall, Calls, Statuses
<1>2. ASSUME TaskInv, NEW c \in Callers,
             \/ \E to \in {"running", "succeeded"} : Begin(c, "append", to)
             \/ Begin(c, "wait", "waiting_confirmation")
             \/ \E to \in {"succeeded", "failed"} : Begin(c, "complete", to)
      PROVE  TaskInv' /\ ~Changed
  <2>1. UNCHANGED <<status, steps>>
    BY <1>2 DEF Begin
  <2>2. {"running", "succeeded", "waiting_confirmation", "failed"} \subseteq Statuses
    BY DEF Statuses, Terminal
  <2> QED
    BY <1>2, <2>1, <2>2, BeginKeeps
<1>3. ASSUME TaskInv, NEW c \in Callers, AppendTaskStep(c) PROVE TaskInv' /\ Late
  <2>1. PICK pc : pc = IF call[c].to = "running" /\ call[c].read # "running"
                       THEN (IF canTransition(call[c].read, "running") THEN "update" ELSE "idle")
                       ELSE "publish"
    OBVIOUS
  <2>2. Goto(c, pc) /\ call[c].pc = "step" /\ status' = status
    BY <1>3, <2>1 DEF AppendTaskStep
  <2>3. pc \in {"idle", "update", "publish"}
    BY <2>1
  <2>4. TaskInv' /\ call'[c] # call[c]
    BY <1>3, <2>2, <2>3, GotoKeeps DEF TaskInv
  <2> QED
    BY <1>3, <2>2, <2>4 DEF Stale, TaskInv
<1>4. ASSUME TaskInv, NEW c \in Callers, UpdateTaskRunStatus(c) PROVE TaskInv' /\ Late
  <2>1. PICK pc : pc = IF call[c].op = "wait" THEN "checkpoint" ELSE "publish"
    OBVIOUS
  <2>2. Goto(c, pc) /\ call[c].pc = "update" /\ status' = call[c].to
    BY <1>4, <2>1 DEF UpdateTaskRunStatus
  <2>3. pc \in {"checkpoint", "publish"}
    BY <2>1
  <2>4. status' \in Statuses
    BY <1>4, <2>2 DEF TaskInv, Calls
  <2>5. TaskInv' /\ call'[c] # call[c]
    BY <1>4, <2>2, <2>3, <2>4, GotoKeeps
  <2> QED
    BY <1>4, <2>2, <2>5 DEF Stale, TaskInv
<1>5. ASSUME TaskInv, NEW c \in Callers, CreateConfirmationCheckpoint(c) \/ PublishTaskEvent(c) \/ Abandon(c)
      PROVE  TaskInv' /\ ~Changed
  <2>1. (Goto(c, "publish") \/ Goto(c, "idle")) /\ UNCHANGED <<status, steps>>
    BY <1>5 DEF CreateConfirmationCheckpoint, PublishTaskEvent, Abandon
  <2>2. TaskInv'
    BY <1>5, <2>1, GotoKeeps DEF TaskInv
  <2> QED
    BY <2>1, <2>2
<1>6. TaskInv /\ [TaskNext]_taskVars => TaskInv' /\ [Changed => Late]_taskVars
  <2> SUFFICES ASSUME TaskInv, [TaskNext]_taskVars PROVE TaskInv' /\ [Changed => Late]_taskVars
    OBVIOUS
  <2>1. CASE UNCHANGED taskVars
    BY <2>1 DEF taskVars, TaskInv
  <2>2. CASE TaskNext
    <3> HIDE DEF Changed, Late
    <3> QED
      BY <1>2, <1>3, <1>4, <1>5, <2>2 DEF TaskNext
  <2> QED
    BY <2>1, <2>2
<1> QED
  BY <1>1, <1>6, PTL DEF TaskSpec, TerminalChangesAreStale


-----------------------------------------------------------------------------
\* What holds of a unit and is handed on to parents holds all along the walk.
LEMMA WalkStays ==
  ASSUME NEW parent, NEW S, NEW u \in S,
         \A v \in S : v \in DOMAIN parent => parent[v] \in S
  PROVE  \A i \in 0..(MaxSealedOrgDepth + 1) : Walk(parent, u)[i] \in S
<1> DEFINE up == Walk(parent, u)
           Off == {i \in Nat : i <= MaxSealedOrgDepth + 1 /\ up[i] \notin S}
<1> SUFFICES ASSUME Off # {} PROVE FALSE
  BY PolicyAssumption
<1>1. PICK m \in Off : \A k \in Off : m <= k
  <2> HIDE DEF up
  <2> QED
    BY LeastNatural
<1>2. up[0] = u
  BY WalkSteps
<1>3. m \in 1..(MaxSealedOrgDepth + 1) /\ m - 1 \in Nat /\ m - 1 \notin Off
  <2> HIDE DEF up
  <2> QED
    BY <1>1, <1>2, PolicyAssumption
<1>4. up[m] = IF up[m - 1] \in DOMAIN parent THEN parent[up[m - 1]] ELSE up[m - 1]
  BY <1>3, WalkSteps DEF Up
<1>5. up[m - 1] \in S
  <2> HIDE DEF up
  <2> QED
    BY <1>3, PolicyAssumption
<1> HIDE DEF up
<1> QED
  BY <1>1, <1>4, <1>5

\* A walk that has left the snapshot's units stands still.
LEMMA WalkEnds ==
  ASSUME NEW parent, NEW u, NEW i \in 0..(MaxSealedOrgDepth + 1), Walk(parent, u)[i] \notin DOMAIN parent
  PROVE  \A j \in i..(MaxSealedOrgDepth + 1) : Walk(parent, u)[j] = Walk(parent, u)[i]
<1> DEFINE up == Walk(parent, u)
           Off == {j \in Nat : j >= i /\ j <= MaxSealedOrgDepth + 1 /\ up[j] # up[i]}
<1> SUFFICES ASSUME Off # {} PROVE FALSE
  BY PolicyAssumption
<1>1. PICK m \in Off : \A k \in Off : m <= k
  <2> HIDE DEF up
  <2> QED
    BY LeastNatural
<1>2. m \in 1..(MaxSealedOrgDepth + 1) /\ m - 1 \in Nat /\ m > i /\ m - 1 \notin Off
  <2> HIDE DEF up
  <2> QED
    BY <1>1, PolicyAssumption
<1>3. up[m] = IF up[m - 1] \in DOMAIN parent THEN parent[up[m - 1]] ELSE up[m - 1]
  BY <1>2, WalkSteps DEF Up
<1>4. up[m - 1] = up[i]
  <2> HIDE DEF up
  <2> QED
    BY <1>1, <1>2, PolicyAssumption
<1> QED
  BY <1>1, <1>3, <1>4

\* What a caller may hand over as the units of a snapshot: finitely many, none
\* of them the empty id.
UnitsOf(parent) == IsFiniteSet(DOMAIN parent) /\ NoUnit \notin DOMAIN parent

\* In a sound forest a walk visits units and then stays at the empty id.
LEMMA SoundWalk ==
  ASSUME NEW parent, UnitsOf(parent), SoundForest(parent), NEW u \in DOMAIN parent
  PROVE  \E k \in 1..MaxSealedOrgDepth :
           /\ \A j \in 0..(k - 1) : Walk(parent, u)[j] \in DOMAIN parent
           /\ \A j \in k..(MaxSealedOrgDepth + 1) : Walk(parent, u)[j] = NoUnit
<1> DEFINE up == Walk(parent, u)
           Over == {i \in Nat : i <= MaxSealedOrgDepth + 1 /\ up[i] = NoUnit}
<1>1. PICK e \in 1..MaxSealedOrgDepth : up[e] = NoUnit
  BY DEF SoundForest
<1>2. PICK k \in Over : \A i \in Over : k <= i
  <2>1. Over \in SUBSET Nat
    OBVIOUS
  <2>2. e \in Over
    BY <1>1, PolicyAssumption
  <2> HIDE DEF Over
  <2> QED
    BY <2>1, <2>2, LeastNatural
<1>3. up[0] = u
  BY WalkSteps
<1>4. k \in 1..MaxSealedOrgDepth
  <2>1. e \in Over
    <3> HIDE DEF up
    <3> QED
      BY <1>1, PolicyAssumption
  <2>2. k # 0
    <3> HIDE DEF up
    <3> QED
      BY <1>2, <1>3 DEF UnitsOf
  <2>3. k \in Nat /\ k <= e
    <3> HIDE DEF up
    <3> QED
      BY <1>2, <2>1
  <2> QED
    BY <2>2, <2>3, PolicyAssumption
<1>5. ASSUME NEW j \in 0..(k - 1), up[j] \notin DOMAIN parent PROVE FALSE
  <2>1. j \in 0..(MaxSealedOrgDepth + 1) /\ k \in j..(MaxSealedOrgDepth + 1)
    BY <1>4, PolicyAssumption
  <2>2. up[k] = up[j]
    BY <1>5, <2>1, WalkEnds
  <2>3. j \in Over
    <3> HIDE DEF up
    <3> QED
      BY <1>2, <2>1, <2>2, PolicyAssumption
  <2> HIDE DEF Over
  <2> QED
    BY <1>2, <1>4, <2>3, PolicyAssumption
<1>6. \A j \in k..(MaxSealedOrgDepth + 1) : up[j] = NoUnit
  <2>1. up[k] = NoUnit /\ up[k] \notin DOMAIN parent /\ k \in 0..(MaxSealedOrgDepth + 1)
    <3> HIDE DEF up
    <3> QED
      BY <1>2, <1>4, PolicyAssumption DEF UnitsOf
  <2>2. \A j \in k..(MaxSealedOrgDepth + 1) : up[j] = up[k]
    BY <2>1, WalkEnds
  <2> QED
    BY <2>1, <2>2
<1> QED
  BY <1>4, <1>5, <1>6

\* The walk of a sound forest finds the least closed set, and no more than
\* MaxSealedOrgDepth units of it.
LEMMA WalkFindsAbove ==
  ASSUME NEW parent, UnitsOf(parent), SoundForest(parent), NEW u \in DOMAIN parent
  PROVE  /\ AncestorsOf(parent, u) = Above(parent, u)
         /\ Cardinality(Above(parent, u)) <= MaxSealedOrgDepth
         /\ parent[u] \in DOMAIN parent \cup {NoUnit}
<1> DEFINE up == Walk(parent, u)
<1>1. PICK k \in 1..MaxSealedOrgDepth :
        /\ \A j \in 0..(k - 1) : up[j] \in DOMAIN parent
        /\ \A j \in k..(MaxSealedOrgDepth + 1) : up[j] = NoUnit
  BY SoundWalk
<1> DEFINE T == {up[j] : j \in 0..(k - 1)}
<1>2. up[0] = u /\ \A j \in 0..MaxSealedOrgDepth : up[j] \in DOMAIN parent => up[j + 1] = parent[up[j]]
  <2>1. up[0] = u
    BY WalkSteps
  <2>2. ASSUME NEW j \in 0..MaxSealedOrgDepth, up[j] \in DOMAIN parent PROVE up[j + 1] = parent[up[j]]
    <3>1. j + 1 \in 1..(MaxSealedOrgDepth + 1) /\ (j + 1) - 1 = j
      BY PolicyAssumption
    <3>2. up[j + 1] = IF up[(j + 1) - 1] \in DOMAIN parent THEN parent[up[(j + 1) - 1]] ELSE up[(j + 1) - 1]
      BY <3>1, WalkSteps DEF Up
    <3> QED
      BY <2>2, <3>1, <3>2
  <2> QED
    BY <2>1, <2>2
<1>3. \A S \in SUBSET DOMAIN parent :
        (u \in S /\ \A w \in S : parent[w] \in S \cup {NoUnit}) =>
          \A j \in 0..(MaxSealedOrgDepth + 1) : up[j] \in S \cup {NoUnit}
  <2> TAKE S \in SUBSET DOMAIN parent
  <2> HAVE u \in S /\ \A w \in S : parent[w] \in S \cup {NoUnit}
  <2> DEFINE R == S \cup {NoUnit}
  <2>1. u \in R /\ \A v \in R : v \in DOMAIN parent => parent[v] \in R
    BY DEF UnitsOf
  <2> HIDE DEF R
  <2>2. \A j \in 0..(MaxSealedOrgDepth + 1) : up[j] \in R
    BY <2>1, WalkStays
  <2> QED
    BY <2>2 DEF R
<1> HIDE DEF up
<1>4. u \in T /\ T \in SUBSET DOMAIN parent
  BY <1>1, <1>2, PolicyAssumption
<1>5. \A w \in T : parent[w] \in T \cup {NoUnit}
  <2> SUFFICES ASSUME NEW j \in 0..(k - 1) PROVE parent[up[j]] \in T \cup {NoUnit}
    OBVIOUS
  <2>1. parent[up[j]] = up[j + 1] /\ j + 1 \in 1..k
    BY <1>1, <1>2, PolicyAssumption
  <2>2. CASE j + 1 = k
    BY <1>1, <2>1, <2>2, PolicyAssumption
  <2>3. CASE j + 1 # k
    BY <1>1, <2>1, <2>3, PolicyAssumption
  <2> QED
    BY <2>2, <2>3
<1>6. Above(parent, u) = T
  <2>1. Above(parent, u) \subseteq T
    BY <1>4, <1>5 DEF Above
  <2>2. ASSUME NEW j \in 0..(k - 1), NEW S \in SUBSET DOMAIN parent, u \in S, \A w \in S : parent[w] \in S \cup {NoUnit}
        PROVE  up[j] \in S
    <3>1. j \in 0..(MaxSealedOrgDepth + 1) /\ up[j] # NoUnit
      BY <1>1, PolicyAssumption DEF UnitsOf
    <3> QED
      BY <1>3, <2>2, <3>1
  <2>3. T \subseteq Above(parent, u)
    BY <1>4, <2>2 DEF Above
  <2> QED
    BY <2>1, <2>3
<1>7. AncestorsOf(parent, u) = T
  <2>1. ASSUME NEW i \in 0..MaxSealedOrgDepth, up[i] # NoUnit PROVE up[i] \in T
    <3>1. i \in 0..(k - 1)
      BY <1>1, <2>1, PolicyAssumption
    <3> QED
      BY <3>1
  <2>2. \A j \in 0..(k - 1) : j \in 0..MaxSealedOrgDepth /\ up[j] # NoUnit
    BY <1>1, PolicyAssumption DEF UnitsOf
  <2> QED
    BY <2>1, <2>2 DEF AncestorsOf, up
<1>8. Cardinality(T) <= MaxSealedOrgDepth
  <2>1. IsFiniteSet(0..(k - 1)) /\ Cardinality(0..(k - 1)) = k
    BY FS_Interval
  <2> DEFINE f == [j \in 0..(k - 1) |-> up[j]]
  <2>2. f \in Surjection(0..(k - 1), T)
    BY DEF Surjection
  <2>3. IsFiniteSet(T) /\ Cardinality(T) <= k
    <3> HIDE DEF f, T
    <3> QED
      BY <2>1, <2>2, FS_Surjection
  <2>4. Cardinality(T) \in Nat
    BY <2>3, FS_CardinalityType
  <2> HIDE DEF T
  <2> QED
    BY <2>3, <2>4, PolicyAssumption
<1>9. parent[u] \in DOMAIN parent \cup {NoUnit}
  BY <1>4, <1>5
<1> HIDE DEF T
<1> QED
  BY <1>6, <1>7, <1>8, <1>9

\* A snapshot passes the walk exactly when its units are a forest of the
\* depth allowed: what three colours and a path length find is what a forest
\* is (sealCapabilityRelations).
LEMMA SoundIsForest ==
  ASSUME NEW parent, UnitsOf(parent)
  PROVE  SoundForest(parent) <=> Forest(parent)
<1>1. ASSUME SoundForest(parent) PROVE Forest(parent)
  <2>1. \A u \in DOMAIN parent :
          parent[u] \in DOMAIN parent \cup {NoUnit} /\ Cardinality(Above(parent, u)) <= MaxSealedOrgDepth
    BY <1>1, WalkFindsAbove
  <2>2. ASSUME NEW S \in SUBSET DOMAIN parent, NEW u \in S, \A v \in S : parent[v] \in S PROVE FALSE
    <3>1. \A i \in 0..(MaxSealedOrgDepth + 1) : Walk(parent, u)[i] \in S
      BY <2>2, WalkStays
    <3>2. PICK i \in 1..MaxSealedOrgDepth : Walk(parent, u)[i] = NoUnit
      BY <1>1, <2>2 DEF SoundForest
    <3> QED
      BY <2>2, <3>1, <3>2, PolicyAssumption DEF UnitsOf
  <2> QED
    BY <2>1, <2>2 DEF Forest
<1>2. ASSUME Forest(parent), NEW u \in DOMAIN parent, \A i \in 1..MaxSealedOrgDepth : Walk(parent, u)[i] # NoUnit
      PROVE  FALSE
  <2> DEFINE up == Walk(parent, u)
             R == DOMAIN parent \cup {NoUnit}
  <2>1. \A i \in 0..(MaxSealedOrgDepth + 1) : up[i] \in R
    <3>1. u \in R /\ \A v \in R : v \in DOMAIN parent => parent[v] \in R
      BY <1>2 DEF Forest
    <3> HIDE DEF R
    <3> QED
      BY <3>1, WalkStays
  <2>2. up[0] = u
    BY WalkSteps
  <2>3. \A i \in 0..MaxSealedOrgDepth : up[i] \in DOMAIN parent
    <3>1. \A i \in 1..MaxSealedOrgDepth : up[i] # NoUnit
      BY <1>2
    <3> HIDE DEF up
    <3> QED
      BY <2>1, <2>2, <3>1, PolicyAssumption
  <2>4. \A i \in 0..(MaxSealedOrgDepth - 1) : up[i + 1] = parent[up[i]]
    <3> SUFFICES ASSUME NEW i \in 0..(MaxSealedOrgDepth - 1) PROVE up[i + 1] = parent[up[i]]
      OBVIOUS
    <3>1. i + 1 \in 1..(MaxSealedOrgDepth + 1) /\ (i + 1) - 1 = i /\ i \in 0..MaxSealedOrgDepth
      BY PolicyAssumption
    <3>2. up[i + 1] = IF up[(i + 1) - 1] \in DOMAIN parent THEN parent[up[(i + 1) - 1]] ELSE up[(i + 1) - 1]
      BY <3>1, WalkSteps DEF Up
    <3> HIDE DEF up
    <3> QED
      BY <2>3, <3>1, <3>2
  <2>5. \A i \in 0..MaxSealedOrgDepth : up[i] \in Above(parent, u)
    <3> SUFFICES ASSUME NEW i \in 0..MaxSealedOrgDepth, NEW S \in SUBSET DOMAIN parent, u \in S,
                        \A w \in S : parent[w] \in S \cup {NoUnit}
                 PROVE  up[i] \in S
      BY <2>3 DEF Above
    <3> DEFINE Q == S \cup {NoUnit}
    <3>1. u \in Q /\ \A v \in Q : v \in DOMAIN parent => parent[v] \in Q
      BY DEF UnitsOf
    <3>2. \A j \in 0..(MaxSealedOrgDepth + 1) : up[j] \in Q
      <4> HIDE DEF Q
      <4> QED
        BY <3>1, WalkStays
    <3>3. i \in 0..(MaxSealedOrgDepth + 1) /\ up[i] # NoUnit
      <4> HIDE DEF up
      <4> QED
        BY <2>3, PolicyAssumption DEF UnitsOf
    <3> QED
      BY <3>2, <3>3
  <2> HIDE DEF up
  <2>6. \A i, j \in 0..MaxSealedOrgDepth : i < j => up[i] # up[j]
    <3> SUFFICES ASSUME NEW i \in 0..MaxSealedOrgDepth, NEW j \in 0..MaxSealedOrgDepth, i < j, up[i] = up[j] PROVE FALSE
      OBVIOUS
    <3> DEFINE S == {up[k] : k \in i..(j - 1)}
    <3>1. S \in SUBSET DOMAIN parent /\ S # {}
      BY <2>3, PolicyAssumption
    <3>2. ASSUME NEW k \in i..(j - 1) PROVE parent[up[k]] \in S
      <4>1. parent[up[k]] = up[k + 1] /\ k + 1 \in i..j
        BY <2>4, PolicyAssumption
      <4>2. CASE k + 1 = j
        BY <4>1, <4>2
      <4>3. CASE k + 1 # j
        BY <4>1, <4>3
      <4> QED
        BY <4>2, <4>3
    <3>3. \A v \in S : parent[v] \in S
      BY <3>2
    <3> HIDE DEF S
    <3> QED
      BY <1>2, <3>1, <3>3 DEF Forest
  <2>7. IsFiniteSet(Above(parent, u))
    BY FS_Subset DEF UnitsOf, Above
  <2> DEFINE f == [i \in 0..MaxSealedOrgDepth |-> up[i]]
  <2>8. f \in Injection(0..MaxSealedOrgDepth, Above(parent, u))
    <3>1. \A i, j \in 0..MaxSealedOrgDepth : up[i] = up[j] => i = j
      BY <2>6, PolicyAssumption
    <3> QED
      BY <2>5, <3>1 DEF Injection, IsInjective
  <2>9. Cardinality(0..MaxSealedOrgDepth) <= Cardinality(Above(parent, u))
    <3> HIDE DEF f
    <3> QED
      BY <2>7, <2>8, FS_Injection
  <2>10. Cardinality(0..MaxSealedOrgDepth) = MaxSealedOrgDepth + 1
    BY FS_Interval, PolicyAssumption
  <2>11. Cardinality(Above(parent, u)) \in Nat /\ Cardinality(Above(parent, u)) <= MaxSealedOrgDepth
    BY <1>2, <2>7, FS_CardinalityType DEF Forest
  <2> QED
    BY <2>9, <2>10, <2>11, PolicyAssumption
<1> QED
  BY <1>1, <1>2 DEF SoundForest

\* What a principal is confirmed for over the relations written for it is what
\* its memberships reach, of the right permission: no tuple of one permission
\* answers for another (Check over the tuples of sealCapabilityRelations).
LEMMA CoveredByScopes ==
  ASSUME NEW snapshot, NEW target, NEW required, NEW p \in {required, "suggest"}
  PROVE  Covered(snapshot, target, required, p) <=> Scopes(snapshot, target, p) # {}
<1> DEFINE tuples == Relations(snapshot, target, required)
<1>1. \A u \in Scopes(snapshot, target, p) : Tuple(Principal, "member", Department(u, p)) \in tuples
  BY DEF Relations, MemberTuples, ParentTuples
<1>2. CASE target = NoUnit
  BY <1>1, <1>2 DEF Covered, Check
<1>3. CASE target # NoUnit
  <2>1. \A t \in tuples :
          \/ \E q \in {required, "suggest"} : \E u \in Scopes(snapshot, target, q) : t = Tuple(Principal, "member", Department(u, q))
          \/ \E q \in {required, "suggest"} : \E u \in AncestorsOf(snapshot.parent, target) : t = Tuple(Department(u, q), "parent", Space(q))
    BY <1>3 DEF Relations, MemberTuples, ParentTuples
  <2>2. ASSUME NEW u \in Scopes(snapshot, target, p) PROVE Covered(snapshot, target, required, p)
    <3>1. u \in AncestorsOf(snapshot.parent, target)
      BY <1>3 DEF Scopes
    <3>2. Tuple(Department(u, p), "parent", Space(p)) \in tuples
      BY <1>3, <3>1 DEF Relations, MemberTuples, ParentTuples
    <3>3. Check(tuples, Principal, "viewer", Space(p))
      <4> HIDE DEF tuples
      <4>1. Tuple(Principal, "member", Department(u, p)) \in tuples
        BY <1>1
      <4> QED
        BY <3>2, <4>1 DEF Check, Tuple, Space
    <3> QED
      BY <1>3, <3>3 DEF Covered
  <2>3. ASSUME Covered(snapshot, target, required, p) PROVE Scopes(snapshot, target, p) # {}
    <3>1. Check(tuples, Principal, "viewer", Space(p))
      BY <1>3, <2>3 DEF Covered
    <3> HIDE DEF tuples
    <3>2. Tuple(Principal, "viewer", Space(p)) \notin tuples
      BY <2>1 DEF Tuple
    <3>3. PICK t \in tuples, r \in {"manager", "member"} :
            t[2] = "parent" /\ t[3] = Space(p) /\ Tuple(Principal, r, t[1]) \in tuples
      BY <3>1, <3>2 DEF Check
    <3>4. PICK q \in {required, "suggest"}, u \in AncestorsOf(snapshot.parent, target) : t = Tuple(Department(u, q), "parent", Space(q))
      BY <2>1, <3>3 DEF Tuple
    <3>5. q = p /\ t[1] = Department(u, p)
      BY <3>3, <3>4 DEF Tuple, Space
    <3>6. PICK o \in {required, "suggest"} : \E v \in Scopes(snapshot, target, o) :
            Tuple(Principal, r, Department(u, p)) = Tuple(Principal, "member", Department(v, o))
      BY <2>1, <3>3, <3>5 DEF Tuple
    <3> QED
      BY <3>6 DEF Tuple, Department
  <2> QED
    BY <2>2, <2>3
<1> QED
  BY <1>2, <1>3

\* The memberships that reach a target are those of the units above it.
LEMMA ScopesEntitle ==
  ASSUME NEW snapshot, NEW target, NEW p,
         target # NoUnit => AncestorsOf(snapshot.parent, target) = Above(snapshot.parent, target)
  PROVE  /\ Scopes(snapshot, target, p) # {} <=> Entitled(snapshot, p, target)
         /\ target # NoUnit => Scopes(snapshot, target, p) \subseteq Above(snapshot.parent, target)
BY DEF Scopes, Entitled

\* The evaluator against the reference, for one question.
LEMMA EvaluateMeets ==
  ASSUME NEW snapshot, UnitsOf(snapshot.parent), NEW version, NEW type, NEW capability, NEW target
  PROVE  MeetsReference(snapshot, version, type, capability, target)
<1> DEFINE d == Evaluate(snapshot, version, type, capability, target)
           asked == version = snapshot.version /\ KnownCapability(type, capability)
           required == capabilityRequirements[capability]
           needs == required.permission
<1>1. SoundSnapshot(snapshot, target) <=>
        /\ Cardinality(DOMAIN snapshot.parent) <= MaxSealedOrgUnits
        /\ Cardinality(snapshot.members) <= MaxSealedMemberships
        /\ Forest(snapshot.parent)
        /\ target \in DOMAIN snapshot.parent \cup {NoUnit}
        /\ \A m \in snapshot.members : m[1] \in DOMAIN snapshot.parent /\ m[2] \in Roles
  BY SoundIsForest DEF SoundSnapshot, SoundMembers, WithinLimits
<1>2. CASE ~asked
  <2>1. d = Denied(snapshot.version, "high")
    BY <1>2 DEF Evaluate
  <2> QED
    BY <1>2, <2>1 DEF MeetsReference, Denied
<1>3. CASE asked /\ ~SoundSnapshot(snapshot, target)
  <2>1. d = [Denied(snapshot.version, "high") EXCEPT !.integrity = TRUE]
    BY <1>3 DEF Evaluate
  <2>2. d.integrity /\ d.decision = "deny" /\ ~d.fallback /\ d.risk = "high" /\ d.scopes = {}
    BY <2>1 DEF Denied
  <2> QED
    BY <1>1, <1>3, <2>2 DEF MeetsReference
<1>4. CASE asked /\ SoundSnapshot(snapshot, target)
  <2>1. target # NoUnit => AncestorsOf(snapshot.parent, target) = Above(snapshot.parent, target)
    BY <1>4, WalkFindsAbove DEF SoundSnapshot
  <2>2. \A p : /\ Scopes(snapshot, target, p) # {} <=> Entitled(snapshot, p, target)
               /\ target # NoUnit => Scopes(snapshot, target, p) \subseteq Above(snapshot.parent, target)
    BY <2>1, ScopesEntitle
  <2>3. \A p \in {needs, "suggest"} : Covered(snapshot, target, needs, p) <=> Entitled(snapshot, p, target)
    BY <2>2, CoveredByScopes
  <2>4. CASE Entitled(snapshot, needs, target)
    <3>1. d = [Denied(snapshot.version, required.risk) EXCEPT !.decision = "allow", !.permissions = {needs},
                                                             !.scopes = Scopes(snapshot, target, needs)]
      BY <1>4, <2>2, <2>3, <2>4 DEF Evaluate
    <3>2. ~d.integrity /\ d.decision = "allow" /\ ~d.fallback /\ d.scopes = Scopes(snapshot, target, needs)
      BY <3>1 DEF Denied
    <3> QED
      BY <1>1, <1>4, <2>2, <2>4, <3>2 DEF MeetsReference
  <2>5. CASE ~Entitled(snapshot, needs, target) /\ capability = "knowledge_update" /\ Entitled(snapshot, "suggest", target)
    <3>1. d = [Denied(snapshot.version, required.risk) EXCEPT !.permissions = {"suggest"}, !.fallback = TRUE,
                                                             !.scopes = Scopes(snapshot, target, "suggest")]
      BY <1>4, <2>2, <2>3, <2>5 DEF Evaluate
    <3>2. ~d.integrity /\ d.decision = "deny" /\ d.fallback /\ d.scopes = Scopes(snapshot, target, "suggest")
      BY <3>1 DEF Denied
    <3> QED
      BY <1>1, <1>4, <2>2, <2>5, <3>2 DEF MeetsReference
  <2>6. CASE ~Entitled(snapshot, needs, target) /\ ~(capability = "knowledge_update" /\ Entitled(snapshot, "suggest", target))
    <3>1. d = Denied(snapshot.version, required.risk)
      BY <1>4, <2>2, <2>3, <2>6 DEF Evaluate
    <3>2. ~d.integrity /\ d.decision = "deny" /\ ~d.fallback /\ d.scopes = {}
      BY <3>1 DEF Denied
    <3> QED
      BY <1>1, <1>4, <2>6, <3>2 DEF MeetsReference
  <2> QED
    BY <2>4, <2>5, <2>6
<1> QED
  BY <1>2, <1>3, <1>4

\* For any snapshot of finitely many units, any limit on their depth and any
\* question, the decision is the one the organisation entitles to: a walk with
\* colours and a bounded path finds exactly the forests, and relation tuples
\* answer exactly for the units above the target (CapabilityEvaluator.Evaluate
\* and sealCapabilityRelations).
THEOREM DecisionIsExact == DecisionSpec => []EvaluateMeetsReference
<1>1. ASSUME ask \in CapabilityRequests PROVE EvaluateMeetsReference
  <2>1. UnitsOf(ask.parent)
    BY <1>1, IdsAssumption DEF CapabilityRequests, UnitsOf
  <2> QED
    BY <2>1, EvaluateMeets DEF EvaluateMeetsReference
<1>2. ask \in CapabilityRequests /\ [ask' \in CapabilityRequests]_ask => (ask \in CapabilityRequests)'
  OBVIOUS
<1> QED
  BY <1>1, <1>2, PTL DEF DecisionSpec
=============================================================================
