--------------------------- MODULE SecretProvider ---------------------------
(***************************************************************************)
(* The Secret Provider (sdk/go/secretprovider/provider.go) that the        *)
(* connector host asks for operation-scoped handles of one credential, and *)
(* its client (internal/secrets/client.go).                                *)
(*                                                                         *)
(* Every call runs under the provider's mutex: one step each.  Material is *)
(* named by the master version it was derived from.                        *)
(***************************************************************************)
EXTENDS Naturals

CONSTANTS
  HandleIds,     \* handles that may be minted, each id drawn once
  MaxVersions,   \* bound on master versions of the credential
  HandleTTL,     \* the lifetime a client asks for
  MaxHandleTTL,  \* the lifetime the provider clamps it to
  MaxSecretTime  \* bound on the provider's clock

ASSUME SecretAssumption ==
  /\ MaxVersions \in Nat /\ HandleTTL \in Nat \ {0} /\ MaxHandleTTL \in Nat \ {0}
  /\ MaxSecretTime \in Nat

VARIABLES
  masterVersions,  \* versions of the credential so far, numbered from 1
  revokedMasters,  \* versions marked revoked
  currentMaster,   \* currentID, 0 when none is live
  secretHandles,   \* handle records by id
  revealed,        \* how often material left the provider for a handle (observation)
  secretTime

secretVars == <<masterVersions, revokedMasters, currentMaster, secretHandles, revealed, secretTime>>
masterVars == <<masterVersions, revokedMasters, currentMaster>>

HandleRecords ==
  [scope : HandleIds, version : 1..MaxVersions, expires : Nat, consumed : BOOLEAN]

SecretTypeOK ==
  /\ masterVersions \in 0..MaxVersions
  /\ revokedMasters \subseteq 1..masterVersions
  /\ currentMaster \in 0..masterVersions
  /\ DOMAIN secretHandles \subseteq HandleIds
  /\ \A i \in DOMAIN secretHandles : secretHandles[i] \in HandleRecords
  /\ revealed \in [HandleIds -> Nat]
  /\ secretTime \in 0..MaxSecretTime

SecretInit ==
  /\ masterVersions = 0 /\ revokedMasters = {} /\ currentMaster = 0
  /\ secretHandles = [i \in {} |-> {}]
  /\ revealed = [i \in HandleIds |-> 0]
  /\ secretTime = 0

-----------------------------------------------------------------------------
(* The master credential.                                                  *)

SetMaster ==
  /\ masterVersions = 0 /\ MaxVersions > 0
  /\ masterVersions' = 1 /\ currentMaster' = 1
  /\ UNCHANGED <<revokedMasters, secretHandles, revealed, secretTime>>

\* A new version; every earlier one is revoked.
Rotate ==
  /\ masterVersions > 0 /\ masterVersions < MaxVersions
  /\ revokedMasters' = 1..masterVersions
  /\ masterVersions' = masterVersions + 1
  /\ currentMaster' = masterVersions + 1
  /\ UNCHANGED <<secretHandles, revealed, secretTime>>

LatestLiveVersion(revoked) ==
  LET live == {v \in 1..masterVersions : v \notin revoked}
  IN  IF live = {} THEN 0 ELSE CHOOSE v \in live : \A w \in live : w <= v

Revoke(v) ==
  /\ v \in 1..masterVersions
  /\ revokedMasters' = revokedMasters \cup {v}
  /\ currentMaster' = IF currentMaster = v THEN LatestLiveVersion(revokedMasters \cup {v}) ELSE currentMaster
  /\ UNCHANGED <<masterVersions, secretHandles, revealed, secretTime>>

SecretTick ==
  /\ secretTime < MaxSecretTime
  /\ secretTime' = secretTime + 1
  /\ UNCHANGED <<masterVars, secretHandles, revealed>>

-----------------------------------------------------------------------------
(* Handles.                                                                *)

\* sweepExpired: every acquisition drops the records past their lifetime.
Unexpired == {i \in DOMAIN secretHandles : secretTime < secretHandles[i].expires}

Lifetime == IF HandleTTL > MaxHandleTTL THEN MaxHandleTTL ELSE HandleTTL

Acquirable == currentMaster # 0 /\ currentMaster \notin revokedMasters

\* AcquireHandle: a record of the current version under the caller's scope.  A
\* refused call has swept all the same.
MintHandle(i) ==
  /\ secretHandles' =
       [j \in Unexpired \cup (IF Acquirable THEN {i} ELSE {}) |->
          IF j = i THEN [scope |-> i, version |-> currentMaster,
                         expires |-> secretTime + Lifetime, consumed |-> FALSE]
          ELSE secretHandles[j]]
  /\ UNCHANGED <<masterVars, revealed, secretTime>>

\* The record the checks of Redeem before the expiry accept.
HandleBound(i, scope) ==
  /\ i \in DOMAIN secretHandles
  /\ secretHandles[i].scope = scope
  /\ secretHandles[i].version \notin revokedMasters

Redeemable(i, scope) ==
  HandleBound(i, scope) /\ i \in Unexpired /\ ~secretHandles[i].consumed

\* Redeem: material once, leaving a tombstone; a call on a record past its
\* lifetime removes it.
Redeem(i, scope) ==
  /\ revealed' = IF Redeemable(i, scope) THEN [revealed EXCEPT ![i] = @ + 1] ELSE revealed
  /\ secretHandles' =
       IF Redeemable(i, scope) THEN [secretHandles EXCEPT ![i].consumed = TRUE]
       ELSE [j \in DOMAIN secretHandles \ {k \in {i} : HandleBound(k, scope) /\ k \notin Unexpired} |-> secretHandles[j]]
  /\ UNCHANGED <<masterVars, secretTime>>

-----------------------------------------------------------------------------
\* A single-use handle reveals its material at most once, however often it is
\* redeemed, swept, or its reply lost (LocalProvider.Redeem).
HandleRevealsOnce == \A i \in HandleIds : revealed[i] <= 1
=============================================================================
