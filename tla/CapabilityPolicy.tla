-------------------------- MODULE CapabilityPolicy --------------------------
(***************************************************************************)
(* The capability decision of internal/policy: the table of capabilities,  *)
(* the check of a sealed organisation snapshot and the relation tuples a   *)
(* decision is answered from.  A snapshot is                               *)
(*   [version, parent \in [units -> units \cup {NoUnit}],                  *)
(*    members \subseteq unit \X role]   (one principal's memberships).     *)
(***************************************************************************)
EXTENDS Naturals, FiniteSets

CONSTANTS
  NoUnit,               \* the empty parent or target id
  MaxSealedOrgUnits,    \* 10 000 in the code
  MaxSealedMemberships, \* 100 000 in the code
  MaxSealedOrgDepth     \* 256 in the code

ASSUME PolicyAssumption ==
  /\ MaxSealedOrgUnits \in Nat /\ MaxSealedMemberships \in Nat
  /\ MaxSealedOrgDepth \in Nat \ {0}

Permissions == {"suggest", "edit", "publish_low_risk", "approve_high_risk",
                "workflow_edit", "workflow_advanced", "service_mode"}

NoPermission == "none"

Roles == Permissions \cup {"member", "manager", "admin"}

Requires(type, permission, risk) ==
  [type |-> type, permission |-> permission, risk |-> risk]

capabilityRequirements ==
  [knowledge_suggest           |-> Requires("knowledge", "suggest", "low"),
   knowledge_create            |-> Requires("knowledge", "edit", "medium"),
   knowledge_update            |-> Requires("knowledge", "edit", "medium"),
   knowledge_publish_low_risk  |-> Requires("knowledge", "publish_low_risk", "low"),
   knowledge_approve_high_risk |-> Requires("knowledge", "approve_high_risk", "high"),
   workflow_edit               |-> Requires("workflow", "workflow_edit", "medium"),
   workflow_edit_advanced      |-> Requires("workflow", "workflow_advanced", "high"),
   workflow_publish_low_risk   |-> Requires("workflow", "publish_low_risk", "low"),
   workflow_approve_high_risk  |-> Requires("workflow", "approve_high_risk", "high"),
   service_mode                |-> Requires("service", "service_mode", "high"),
   dream_evidence_read         |-> Requires("dream_evidence", "approve_high_risk", "high")]

Capabilities == DOMAIN capabilityRequirements

\* A capability asked of another resource type is as unknown as a missing one.
KnownCapability(type, capability) ==
  capability \in Capabilities /\ capabilityRequirements[capability].type = type

MembershipRolePermission(role) ==
  CASE role = "member"             -> "suggest"
    [] role \in {"manager", "admin"} -> NoPermission
    [] OTHER                       -> role

-----------------------------------------------------------------------------
(* The sealed graph. *)

\* The i-th unit of the walk from u towards the root; NoUnit ends it, and so
\* does a parent the snapshot does not have.
Walk(parent, u) ==
  LET up[i \in 0..(MaxSealedOrgDepth + 1)] ==
        IF i = 0 THEN u
        ELSE IF up[i-1] \in DOMAIN parent THEN parent[up[i-1]] ELSE up[i-1]
  IN up

\* Faulty variant of SoundForest: only dangling parents are looked for.
SoundForest_NoCycleCheck(parent) ==
  \A u \in DOMAIN parent : parent[u] \in DOMAIN parent \cup {NoUnit}

\* No dangling parent, no cycle, no chain of more than MaxSealedOrgDepth units:
\* every walk leaves the forest through a root in time.
SoundForest(parent) ==
  \A u \in DOMAIN parent :
    \E i \in 1..MaxSealedOrgDepth : Walk(parent, u)[i] = NoUnit

AncestorsOf(parent, u) ==
  {Walk(parent, u)[i] : i \in 0..MaxSealedOrgDepth} \ {NoUnit}

SoundMembers(snapshot) ==
  \A m \in snapshot.members : m[1] \in DOMAIN snapshot.parent /\ m[2] \in Roles

\* A graph too large to walk is not walked.
WithinLimits(snapshot) ==
  /\ Cardinality(DOMAIN snapshot.parent) <= MaxSealedOrgUnits
  /\ Cardinality(snapshot.members) <= MaxSealedMemberships

SoundSnapshot(snapshot, target) ==
  /\ WithinLimits(snapshot)
  /\ SoundForest(snapshot.parent)
  /\ target # NoUnit => target \in DOMAIN snapshot.parent
  /\ SoundMembers(snapshot)

\* InMemoryOpenFGA.Check: the tuple itself or, for a viewer of a knowledge
\* space, membership or management of one of its parents.
Tuple(user, relation, object) == <<user, relation, object>>

Check(tuples, user, relation, object) ==
  \/ Tuple(user, relation, object) \in tuples
  \/ /\ relation = "viewer" /\ object[1] = "knowledge_space"
     /\ \E t \in tuples :
          /\ t[2] = "parent" /\ t[3] = object
          /\ \E r \in {"manager", "member"} : Tuple(user, r, t[1]) \in tuples

Department(u, permission) == <<"department", u, permission>>
Space(permission) == <<"knowledge_space", NoUnit, permission>>
Principal == <<"user", NoUnit, NoPermission>>

\* The memberships that reach the target, as the tuples written for them.
Scopes(snapshot, target, permission) ==
  {m[1] : m \in {n \in snapshot.members :
                   /\ MembershipRolePermission(n[2]) = permission
                   /\ target # NoUnit => n[1] \in AncestorsOf(snapshot.parent, target)}}

MemberTuples(snapshot, target, p) ==
  {Tuple(Principal, "member", Department(u, p)) : u \in Scopes(snapshot, target, p)}

ParentTuples(snapshot, target, p) ==
  IF target = NoUnit THEN {} ELSE {Tuple(Department(u, p), "parent", Space(p)) : u \in AncestorsOf(snapshot.parent, target)}

\* Both confirmations run over one store of tuples.
Relations(snapshot, target, required) ==
  UNION {MemberTuples(snapshot, target, p) \cup ParentTuples(snapshot, target, p) : p \in {required, "suggest"}}

Covered(snapshot, target, required, permission) ==
  LET tuples == Relations(snapshot, target, required)
  IN IF target # NoUnit
     THEN Check(tuples, Principal, "viewer", Space(permission))
     ELSE \E u \in Scopes(snapshot, target, permission) :
            Check(tuples, Principal, "member", Department(u, permission))

-----------------------------------------------------------------------------
(* CapabilityEvaluator.Evaluate on a loaded snapshot. *)

Denied(version, risk) ==
  [decision |-> "deny", permissions |-> {}, scopes |-> {}, risk |-> risk,
   fallback |-> FALSE, version |-> version, integrity |-> FALSE]

Evaluate(snapshot, sealedVersion, type, capability, target) ==
  LET required == capabilityRequirements[capability]
      denied   == Denied(snapshot.version, required.risk)
  IN IF sealedVersion # snapshot.version \/ ~KnownCapability(type, capability)
       THEN Denied(snapshot.version, "high")
     ELSE IF ~SoundSnapshot(snapshot, target)
       THEN [Denied(snapshot.version, "high") EXCEPT !.integrity = TRUE]
     ELSE IF /\ Scopes(snapshot, target, required.permission) # {}
             /\ Covered(snapshot, target, required.permission, required.permission)
       THEN [denied EXCEPT !.decision = "allow", !.permissions = {required.permission},
                           !.scopes = Scopes(snapshot, target, required.permission)]
     ELSE IF /\ capability = "knowledge_update"
             /\ Scopes(snapshot, target, "suggest") # {}
             /\ Covered(snapshot, target, required.permission, "suggest")
       THEN [denied EXCEPT !.permissions = {"suggest"}, !.fallback = TRUE,
                           !.scopes = Scopes(snapshot, target, "suggest")]
     ELSE denied

-----------------------------------------------------------------------------
(* What a decision ought to be, without walking: u and all above it are the *)
(* least set that holds u and the parents of its members.                   *)
Above(parent, u) ==
  {v \in DOMAIN parent :
     \A S \in SUBSET DOMAIN parent :
       (u \in S /\ \A w \in S : parent[w] \in S \cup {NoUnit}) => v \in S}

Entitled(snapshot, permission, target) ==
  \E m \in snapshot.members :
    /\ permission = MembershipRolePermission(m[2])
    /\ target # NoUnit => m[1] \in Above(snapshot.parent, target)

Forest(parent) ==
  /\ \A u \in DOMAIN parent : parent[u] \in DOMAIN parent \cup {NoUnit}
  /\ \A S \in (SUBSET DOMAIN parent) \ {{}} : \E u \in S : parent[u] \notin S
  /\ \A u \in DOMAIN parent : Cardinality(Above(parent, u)) <= MaxSealedOrgDepth

\* A decision allows exactly what a sound snapshot of the asked version entitles
\* its principal to at the target or above it, names only units that grant it,
\* and reports every unsound snapshot as an integrity failure (Evaluate and
\* sealCapabilityRelations over graphs beyond the sealed limits, cycles, dangling
\* parents, too deep chains, unknown roles and absent targets).
MeetsReference(snapshot, sealedVersion, type, capability, target) ==
  LET d     == Evaluate(snapshot, sealedVersion, type, capability, target)
      asked == sealedVersion = snapshot.version /\ KnownCapability(type, capability)
      sound == /\ Cardinality(DOMAIN snapshot.parent) <= MaxSealedOrgUnits
               /\ Cardinality(snapshot.members) <= MaxSealedMemberships
               /\ Forest(snapshot.parent)
               /\ target \in DOMAIN snapshot.parent \cup {NoUnit}
               /\ \A m \in snapshot.members : m[1] \in DOMAIN snapshot.parent /\ m[2] \in Roles
      needs == capabilityRequirements[capability].permission
  IN /\ d.integrity <=> asked /\ ~sound
     /\ d.decision = "allow" <=> asked /\ sound /\ Entitled(snapshot, needs, target)
     /\ d.fallback <=> /\ asked /\ sound /\ capability = "knowledge_update"
                       /\ ~Entitled(snapshot, needs, target) /\ Entitled(snapshot, "suggest", target)
     /\ (~asked \/ ~sound) => d.risk = "high" /\ d.scopes = {}
     /\ target # NoUnit /\ d.scopes # {} => d.scopes \subseteq Above(snapshot.parent, target)
=============================================================================
