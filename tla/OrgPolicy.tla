----------------------------- MODULE OrgPolicy ------------------------------
(***************************************************************************)
(* The organisation of one enterprise and its sealed policy versions:      *)
(* the live units and memberships (internal/iam), publication of a version *)
(* under the enterprise's publication lock, and the change feed            *)
(* (internal/app/org_events_handler.go) that consumers follow by cursor.   *)
(***************************************************************************)
EXTENDS CapabilityPolicy, Sequences

CONSTANTS
  Units, Users,
  Publishers,      \* connections that publish organisation versions
  NoOne,           \* no holder of a lock
  EditRoles,       \* the roles edits use: org_memberships.role is free text
  FeedLimit,       \* orgEventsPageLimit
  MaxVersion,      \* bound: version numbers callers propose
  MaxEdits         \* bound: edits of the live organisation

ASSUME OrgAssumption ==
  /\ NoUnit \notin Units /\ NoOne \notin Publishers
  /\ FeedLimit \in Nat \ {0} /\ MaxVersion \in Nat /\ MaxEdits \in Nat

VARIABLES
  live,       \* org_units and org_memberships: [parent, members]
  lived,      \* history: every value of live
  orgLock,    \* the advisory lock (enterprise, 0)
  pub,        \* what each publisher is doing
  head,       \* org_policy_publication_heads
  sealed,     \* version number -> sealed snapshot
  cursor,     \* the feed consumer's last applied version
  received    \* the versions it was sent, in order

orgVars == <<live, lived, orgLock, pub, head, sealed, cursor, received>>

LatestSealed == IF DOMAIN sealed = {} THEN 0
                ELSE CHOOSE v \in DOMAIN sealed : \A w \in DOMAIN sealed : w <= v

\* LoadAccessSnapshot: the latest sealed version, this user's rows of it.
AccessSnapshot(user, version) ==
  [version |-> version, parent |-> sealed[version].parent,
   members |-> {<<m[2], m[3]>> : m \in {n \in sealed[version].members : n[1] = user}}]

OrgInit ==
  /\ \E root \in Units :
       live = [parent |-> [u \in {root} |-> NoUnit], members |-> {}]
  /\ lived = {live}
  /\ orgLock = NoOne
  /\ pub = [p \in Publishers |-> [pc |-> "idle"]]
  /\ head = 0
  /\ sealed = <<>>
  /\ cursor = 0
  /\ received = <<>>

-----------------------------------------------------------------------------
(* The live organisation: upserts only, at any moment. *)

Edit(new) ==
  /\ Cardinality(lived) <= MaxEdits
  /\ new # live
  /\ live' = new
  /\ lived' = lived \cup {new}
  /\ UNCHANGED <<orgLock, pub, head, sealed, cursor, received>>

\* The foreign key wants an existing parent; nothing forbids a cycle.
UpsertOrgUnit(u, p) ==
  /\ p \in DOMAIN live.parent \cup {NoUnit, u}
  /\ Edit([live EXCEPT !.parent = [v \in DOMAIN live.parent \cup {u} |->
                                     IF v = u THEN p ELSE live.parent[v]]])

AddOrgMembership(user, u, role) ==
  /\ u \in DOMAIN live.parent
  /\ Edit([live EXCEPT !.members = @ \cup {<<user, u, role>>}])

-----------------------------------------------------------------------------
(* publishOrgVersion: session lock, then one REPEATABLE READ transaction. *)

SetPub(p, rec) == pub' = [pub EXCEPT ![p] = rec]

AcquireOrgPublicationSessionLock(p, v, withEvent) ==
  /\ pub[p].pc = "idle" /\ orgLock = NoOne
  /\ orgLock' = p
  /\ SetPub(p, [pc |-> "locked", version |-> v, event |-> withEvent])
  /\ UNCHANGED <<live, lived, head, sealed, cursor, received>>

\* The first statement fixes the transaction's snapshot. The trigger refuses
\* a version number that does not advance the publication head.
CreateOrgVersion(p) ==
  /\ pub[p].pc = "locked"
  /\ SetPub(p, IF pub[p].version > head
               THEN [pc |-> "created", version |-> pub[p].version,
                     event |-> pub[p].event, snap |-> live]
               ELSE [pc |-> "unlock"])
  /\ UNCHANGED <<live, lived, orgLock, head, sealed, cursor, received>>

CaptureOrgPolicySnapshotUnits(p) ==
  /\ pub[p].pc = "created"
  /\ SetPub(p, [pc |-> "units", version |-> pub[p].version, event |-> pub[p].event,
                snap |-> pub[p].snap, parent |-> pub[p].snap.parent])
  /\ UNCHANGED <<live, lived, orgLock, head, sealed, cursor, received>>

\* Faulty variant of SnapshotMembers: each statement sees its own snapshot.
SnapshotMembers_ReadCommitted(p) == live.members

\* The rows a second statement of the same transaction sees.
SnapshotMembers(p) == pub[p].snap.members

\* The role constraint of the snapshot table fails the whole publication.
CaptureOrgPolicySnapshotMemberships(p) ==
  /\ pub[p].pc = "units"
  /\ SetPub(p, IF \A m \in SnapshotMembers(p) : m[3] \in Roles /\ m[2] \in DOMAIN pub[p].parent
               THEN [pc |-> "members", version |-> pub[p].version, event |-> pub[p].event,
                     parent |-> pub[p].parent, members |-> SnapshotMembers(p)]
               ELSE [pc |-> "unlock"])
  /\ UNCHANGED <<live, lived, orgLock, head, sealed, cursor, received>>

SealAndCommit(p) ==
  /\ pub[p].pc = "members"
  /\ head' = pub[p].version
  /\ sealed' = [v \in DOMAIN sealed \cup {pub[p].version} |->
                  IF v = pub[p].version
                  THEN [parent |-> pub[p].parent, members |-> pub[p].members,
                        event |-> pub[p].event]
                  ELSE sealed[v]]
  /\ SetPub(p, [pc |-> "unlock"])
  /\ UNCHANGED <<live, lived, orgLock, cursor, received>>

\* A cancelled context or a failed statement rolls back.
AbortPublication(p) ==
  /\ pub[p].pc \in {"locked", "created", "units", "members"}
  /\ SetPub(p, [pc |-> "unlock"])
  /\ UNCHANGED <<live, lived, orgLock, head, sealed, cursor, received>>

\* Unlocking, or closing the connection that holds the lock.
ReleaseOrgPublicationSessionLock(p) ==
  /\ pub[p].pc = "unlock"
  /\ orgLock' = NoOne
  /\ SetPub(p, [pc |-> "idle"])
  /\ UNCHANGED <<live, lived, head, sealed, cursor, received>>

-----------------------------------------------------------------------------
(* GET /v1/org-events *)

\* The versions with a source event after the cursor, ascending, first page.
EventsSince(since) ==
  LET after == {v \in DOMAIN sealed : sealed[v].event /\ v > since}
      rank(v) == Cardinality({w \in after : w <= v})
      page == {v \in after : rank(v) <= FeedLimit}
  IN [i \in 1..Cardinality(page) |-> CHOOSE v \in page : rank(v) = i]

\* The stream may break after any frame; the consumer resumes from the last id.
Subscribe ==
  /\ cursor <= LatestSealed
  /\ \E k \in 1..Len(EventsSince(cursor)) :
       /\ received' = received \o SubSeq(EventsSince(cursor), 1, k)
       /\ cursor' = EventsSince(cursor)[k]
  /\ UNCHANGED <<live, lived, orgLock, pub, head, sealed>>

Publish(p) ==
  \/ \E v \in 1..MaxVersion, e \in BOOLEAN : AcquireOrgPublicationSessionLock(p, v, e)
  \/ CreateOrgVersion(p) \/ CaptureOrgPolicySnapshotUnits(p)
  \/ CaptureOrgPolicySnapshotMemberships(p) \/ SealAndCommit(p)
  \/ AbortPublication(p) \/ ReleaseOrgPublicationSessionLock(p)

OrgNext ==
  \/ \E u \in Units, p \in Units \cup {NoUnit} : UpsertOrgUnit(u, p)
  \/ \E user \in Users, u \in Units, r \in EditRoles : AddOrgMembership(user, u, r)
  \/ \E p \in Publishers : Publish(p)
  \/ Subscribe

-----------------------------------------------------------------------------
(* Properties. *)

\* Every sealed version is the organisation as it stood at one instant: units
\* and memberships are captured by two statements while edits go on, and no
\* version mixes two moments (publishOrgVersion, its REPEATABLE READ isolation).
SealedWasLive ==
  \A v \in DOMAIN sealed :
    [parent |-> sealed[v].parent, members |-> sealed[v].members] \in lived

\* Whatever the caller pages, retries or breaks off, a feed consumer has been
\* sent every sealed event up to its cursor exactly once and in order, though
\* publishers race and versions carry numbers the callers chose.
FeedComplete ==
  /\ {received[i] : i \in DOMAIN received} = {v \in DOMAIN sealed : sealed[v].event /\ v <= cursor}
  /\ \A i, j \in DOMAIN received : i < j => received[i] < received[j]

\* What is published is true, and all of it reaches a consumer of the feed
\* (publishOrgVersion and the paged source events).
PublicationIsSound == SealedWasLive /\ FeedComplete
=============================================================================
