---------------------------- MODULE ConnectorHost ----------------------------
(***************************************************************************)
(* The isolated connector host (internal/connectors/host) and the          *)
(* connector families that run in it (internal/connectors/runtime): what   *)
(* is behind the Run step of the connector worker and of the edge agent.   *)
(*                                                                         *)
(* Supervisor.Run checks the policy, acquires a secret handle, hands the   *)
(* request to an adapter in a goroutine of its own and waits for its       *)
(* answer or the wall clock.  The goroutine outlives a Run that stopped    *)
(* waiting.  The families: a webhook that writes, the paged readers, and a *)
(* child process with its descendants.                                     *)
(***************************************************************************)
EXTENDS SecretProvider, Sequences, FiniteSets

CONSTANTS
  HostOps,           \* the calls of Run in a behaviour; a call's handle has its name
  OpSpecs,           \* what a call may ask for: family, credential, paths, targets, flaw
  Packs, Installs,   \* product packs and customer bindings a supervisor may be given
  Roots,             \* WithSandboxRoots
  MaxOutputBytes, EnvelopeOverhead, EnvelopeBytes, MaxResponseBytes, OutputSizes,
  MaxRateRetries, MaxPages,
  SourcePages,       \* pages the source of a read holds
  MaxSourceVersion,  \* bound on the source's versions
  Fields, DeclaredFields, RedactedFields,
  NoOp, NoPolicy, NoAnswer

\* The families of internal/connectors/runtime that read, page by page.
Readers == {"http", "db", "file"}

\* What the code of a family may find wrong with a request; a process connector
\* judges its own requests.
FamilyFlaws ==
  [webhook |-> {"undeclared", "foreign"}, http |-> {"undeclared"}, db |-> {"undeclared", "write"},
   file |-> {"undeclared", "traversal"}, process |-> {}]

ASSUME HostAssumption ==
  /\ HostOps \subseteq HandleIds /\ MaxOutputBytes \in Nat \ {0} /\ OutputSizes \subseteq Nat
  /\ EnvelopeBytes \in Nat /\ EnvelopeOverhead \in Nat /\ EnvelopeBytes <= EnvelopeOverhead
  /\ MaxResponseBytes \in Nat /\ MaxRateRetries \in Nat /\ MaxPages \in Nat \ {0}
  /\ SourcePages \in Nat \ {0} /\ MaxSourceVersion \in Nat \ {0}
  /\ RedactedFields \subseteq DeclaredFields /\ DeclaredFields \subseteq Fields
  /\ \A op \in OpSpecs : op.family \in DOMAIN FamilyFlaws /\ op.flaw \in {"none", "unnamed"} \cup FamilyFlaws[op.family]

VARIABLES
  policy,        \* the derived Policy of the supervisor
  runs,          \* per call, the locals of Run and of the adapter goroutine
  writes,        \* per call, how often its external side effect took place
  sourceVersion  \* the version the source of the reads is at

hostVars == <<policy, runs, writes, sourceVersion>>

\* What a connector may report, and what only the host says.
Reportable == {"succeeded", "denied", "failed", "waiting_external_receipt"}
HostStatuses == Reportable \cup {"denied_policy", "resource_exhausted", "execution_uncertain"}

\* ClassifyHostResult: the statuses a signed verdict is built from.
Definite == {"succeeded", "failed", "denied", "denied_policy"}

\* What the adapter puts into the channel: a response envelope, or an error.
Response(status, size) == [err |-> "none", status |-> status, size |-> size]
Error(e) == [err |-> e, status |-> "none", size |-> 0]

Errors == {"deadline", "cancelled", "overflow", "panic", "dispatch"}

Answers ==
  [err : {"none"}, status : HostStatuses, size : OutputSizes \cup {0}]
    \cup [err : Errors, status : {"none"}, size : {0}]

NewRun ==
  [op |-> NoOp, step |-> "idle", adapter |-> "none", ctx |-> "live", granted |-> FALSE,
   answer |-> NoAnswer, retry |-> 0, pages |-> <<>>, said |-> NoAnswer, tree |-> {},
   result |-> "none"]

HostTypeOK ==
  /\ SecretTypeOK
  /\ policy = NoPolicy \/ policy \in [digest : {p.digest : p \in Packs}, roots : {Roots}, egress : SUBSET UNION {b.endpoints : b \in Installs}]
  /\ DOMAIN runs = HostOps
  /\ \A r \in HostOps :
       /\ runs[r].op \in OpSpecs \cup {NoOp}
       /\ runs[r].step \in {"idle", "acquire", "request", "select", "done"}
       /\ runs[r].adapter \in {"none", "redeem", "execute", "send", "fetch", "backoff", "child", "ended"}
       /\ runs[r].ctx \in {"live", "deadline", "cancelled"}
       /\ runs[r].answer \in Answers \cup {NoAnswer} /\ runs[r].said \in Answers \cup {NoAnswer}
       /\ runs[r].retry \in 0..MaxRateRetries /\ Len(runs[r].pages) <= MaxPages
       /\ runs[r].tree \subseteq {"child", "descendant"}
       /\ runs[r].result \in HostStatuses \cup {"none"}
  /\ writes \in [HostOps -> Nat]
  /\ sourceVersion \in 1..MaxSourceVersion

HostInit ==
  /\ policy = NoPolicy
  /\ runs = [r \in HostOps |-> NewRun]
  /\ writes = [r \in HostOps |-> 0]
  /\ sourceVersion = 1

-----------------------------------------------------------------------------
(* The sandbox policy.                                                     *)

\* The endpoints of the binding, unless the pack declares no egress or isolation.
DeriveEgress(pack, install) ==
  IF pack.classes = {} \/ pack.isolation \in {"isolated", "none"} THEN {} ELSE install.endpoints

\* NewSupervisor -> DerivePolicy: only for the pack the binding pinned.
NewSupervisor(pack, install) ==
  /\ policy = NoPolicy
  /\ install.pinned = pack.digest
  /\ policy' = [digest |-> pack.digest, roots |-> Roots, egress |-> DeriveEgress(pack, install)]
  /\ UNCHANGED <<runs, writes, sourceVersion, secretVars>>

\* AllowPath: a path is named by the root it resolves into.
AllowPath(p) == p \in policy.roots
AllowEgress(t) == t \in policy.egress
CheckAccess(op) == (\A p \in op.paths : AllowPath(p)) /\ (\A t \in op.targets : AllowEgress(t))

-----------------------------------------------------------------------------
(* Supervisor.Run.                                                         *)

\* Run returns: the deferred cancel ends the context of what is still running.
Finish(r, status) ==
  runs' = [runs EXCEPT ![r].step = "done", ![r].result = status,
                       ![r].ctx = IF @ = "live" THEN "cancelled" ELSE @]

\* A call arrives and its declared accesses are checked.
Start(r, op) ==
  /\ policy # NoPolicy /\ runs[r].step = "idle"
  /\ runs' = [runs EXCEPT ![r].op = op,
                ![r].step = IF ~CheckAccess(op) THEN "done" ELSE IF op.credential THEN "acquire" ELSE "request",
                ![r].result = IF CheckAccess(op) THEN "none" ELSE "denied_policy"]
  /\ UNCHANGED <<policy, writes, sourceVersion, secretVars>>

\* The handle of this operation, or a failure before anything was dispatched.
AcquireHandle(r) ==
  /\ runs[r].step = "acquire"
  /\ MintHandle(r)
  /\ IF Acquirable THEN runs' = [runs EXCEPT ![r].step = "request", ![r].granted = TRUE]
                   ELSE Finish(r, "failed")
  /\ UNCHANGED <<policy, writes, sourceVersion>>

\* No broker is configured, the provider is out of reach, or its reply is lost.
AcquireFails(r) ==
  /\ runs[r].step = "acquire"
  /\ Finish(r, "failed")
  /\ MintHandle(r) \/ UNCHANGED secretVars
  /\ UNCHANGED <<policy, writes, sourceVersion>>

\* HostRequest.Validate, then the adapter's goroutine starts.
Dispatch(r) ==
  /\ runs[r].step = "request"
  /\ IF runs[r].op.flaw # "unnamed"
     THEN runs' = [runs EXCEPT ![r].step = "select", ![r].adapter = IF runs[r].granted /\ runs[r].op.family # "process" THEN "redeem" ELSE "execute"]
     ELSE Finish(r, "failed")
  /\ UNCHANGED <<policy, writes, sourceVersion, secretVars>>

\* The wall clock of the call, or a cancellation by its caller.
ContextEnds(r, why) ==
  /\ runs[r].step = "select" /\ runs[r].ctx = "live"
  /\ runs' = [runs EXCEPT ![r].ctx = why]
  /\ UNCHANGED <<policy, writes, sourceVersion, secretVars>>

\* The context's error, which the supervisor maps by cause.
Timeout(r) ==
  /\ runs[r].ctx # "live"
  /\ Finish(r, IF runs[r].ctx = "deadline" THEN "resource_exhausted" ELSE "execution_uncertain")

\* HostResponse.Validate and the output ceiling, or the error's status.
ResultOf(a) ==
  CASE a.err \in {"deadline", "overflow"} -> "resource_exhausted"
    [] a.err \in {"cancelled", "panic", "dispatch"} -> "execution_uncertain"
    [] a.status \notin Reportable -> "execution_uncertain"
    [] a.size > MaxOutputBytes -> "resource_exhausted"
    [] OTHER -> a.status

\* The select of dispatch: whichever is ready, either when both are.
Select(r) ==
  /\ runs[r].step = "select"
  /\ \/ Timeout(r)
     \/ runs[r].answer # NoAnswer /\ Finish(r, ResultOf(runs[r].answer))
  /\ UNCHANGED <<policy, writes, sourceVersion, secretVars>>

-----------------------------------------------------------------------------
(* ConnectorHostAdapter.Dispatch.                                          *)

Answer(r, a) == runs' = [runs EXCEPT ![r].adapter = "ended", ![r].answer = a]

\* redeemGrant under the grant's own scope.  A refusal is a denial, a lost
\* exchange too, unless the context's error comes back.
RedeemGrant(r) ==
  /\ runs[r].adapter = "redeem"
  /\ \/ /\ Redeem(r, r)
        /\ IF Redeemable(r, r) THEN runs' = [runs EXCEPT ![r].adapter = "execute"]
                               ELSE Answer(r, Response("denied", 0))
     \/ /\ Redeem(r, r) \/ UNCHANGED secretVars
        /\ \/ Answer(r, Response("denied", 0))
           \/ runs[r].ctx # "live" /\ Answer(r, Error(runs[r].ctx))
  /\ UNCHANGED <<policy, writes, sourceVersion>>

\* What a family refuses before it does anything: a capability the pack does
\* not declare, a write of the database reader, an object key outside its root,
\* a target that is no endpoint of the binding.
Capability(op) == op.flaw # "undeclared"
IsWriteIntent(op) == op.family = "db" /\ op.flaw = "write"
RejectTraversal(op) == op.family = "file" /\ op.flaw = "traversal"
EndpointDeclared(op) == op.flaw # "foreign"

Refused(op) ==
  \/ ~Capability(op) \/ IsWriteIntent(op) \/ RejectTraversal(op)
  \/ op.family = "webhook" /\ ~EndpointDeclared(op)

Execute(r) ==
  /\ runs[r].adapter = "execute" /\ runs[r].op.family # "process"
  /\ IF Refused(runs[r].op) THEN Answer(r, Response("denied", 0))
     ELSE runs' = [runs EXCEPT ![r].adapter = IF runs[r].op.family = "webhook" THEN "send" ELSE "fetch"]
  /\ UNCHANGED <<policy, writes, sourceVersion, secretVars>>

\* A panic of the family is recovered by the goroutine.
AdapterPanics(r) ==
  /\ runs[r].adapter \in {"send", "fetch"}
  /\ Answer(r, Error("panic"))
  /\ UNCHANGED <<policy, writes, sourceVersion, secretVars>>

\* A rate limit is waited out, MaxRateRetries times.
RateLimited(r) ==
  IF runs[r].retry >= MaxRateRetries
  THEN Answer(r, Response("failed", 0))
  ELSE runs' = [runs EXCEPT ![r].adapter = "backoff", ![r].retry = @ + 1]

\* sleepCtx before another attempt; the context may end it.
Backoff(r) ==
  /\ runs[r].adapter = "backoff"
  /\ \/ runs' = [runs EXCEPT ![r].adapter = IF runs[r].op.family = "webhook" THEN "send" ELSE "fetch"]
     \/ runs[r].ctx # "live" /\ Answer(r, Response("failed", 0))
  /\ UNCHANGED <<policy, writes, sourceVersion, secretVars>>

-----------------------------------------------------------------------------
(* The webhook family.                                                     *)

Writes(r) == writes' = [writes EXCEPT ![r] = @ + 1]

\* Faulty variant of SendLost: a transport error is tried again.
SendLost_Retried(r) ==
  /\ Writes(r) \/ UNCHANGED writes
  /\ RateLimited(r)

\* The reply is lost: a transport error is handed to the supervisor, the
\* context's error is a failure.  The endpoint may have taken the delivery.
SendLost(r) ==
  /\ Writes(r) \/ UNCHANGED writes
  /\ \/ Answer(r, Error("dispatch"))
     \/ runs[r].ctx # "live" /\ Answer(r, Response("failed", 0))

\* WebhookAdapter.Execute, one round of its loop.
Send(r) ==
  /\ runs[r].adapter = "send"
  /\ \/ \E size \in OutputSizes : Writes(r) /\ Answer(r, Response("succeeded", size))
     \/ RateLimited(r) /\ UNCHANGED writes
     \/ Answer(r, Response("failed", 0)) /\ UNCHANGED writes
     \/ SendLost(r)
  /\ UNCHANGED <<policy, sourceVersion, secretVars>>

-----------------------------------------------------------------------------
(* The paged readers: http, database and object store.                     *)

\* maskAndValidate: only declared fields, every one that is not redacted.
Masked(fields) == fields \ RedactedFields
Valid(fields) == fields \subseteq DeclaredFields /\ DeclaredFields \ RedactedFields \subseteq fields

\* The pages that say which source they come from.
Naming(pages) == {n \in DOMAIN pages : pages[n].named}

\* The version in the metadata of a read of which no page names a source.
NoVersion == 0

\* Faulty variant of ReportedVersion: the metadata of the last such page.
ReportedVersion_Last(pages) ==
  IF Naming(pages) = {} THEN NoVersion
  ELSE pages[CHOOSE n \in Naming(pages) : \A m \in Naming(pages) : m <= n].version

\* The metadata of the first page that names its source stands for the read.
ReportedVersion(pages) ==
  IF Naming(pages) = {} THEN NoVersion
  ELSE pages[CHOOSE n \in Naming(pages) : \A m \in Naming(pages) : n <= m].version

\* A page as the read keeps it.
Page(n, fields, named) ==
  [page |-> n, version |-> sourceVersion, named |-> named, shown |-> Masked(fields)]

\* runReadPipeline, one fetch: the page after the last one, until the source
\* has no more or MaxPages are read.
Fetch(r) ==
  LET n == Len(runs[r].pages) + 1
  IN  /\ runs[r].adapter = "fetch"
      /\ \/ \E f \in SUBSET Fields, named \in BOOLEAN :
              IF Valid(f)
              THEN /\ runs' = [runs EXCEPT ![r].pages = Append(@, Page(n, f, named)),
                                 ![r].retry = 0,
                                 ![r].adapter = IF n < SourcePages /\ n < MaxPages THEN @ ELSE "ended",
                                 ![r].answer = IF n < SourcePages /\ n < MaxPages THEN @ ELSE Response("succeeded", 0)]
              ELSE Answer(r, Response("failed", 0))
         \/ RateLimited(r)
         \/ \E s \in {"denied", "failed"} : Answer(r, Response(s, 0))
      /\ UNCHANGED <<policy, writes, sourceVersion, secretVars>>

\* The system of record moves on.
SourceMoves ==
  /\ sourceVersion < MaxSourceVersion
  /\ sourceVersion' = sourceVersion + 1
  /\ UNCHANGED <<policy, runs, writes, secretVars>>

-----------------------------------------------------------------------------
(* The process adapter.                                                    *)

\* ProcessAdapter.Dispatch up to its select: the connector runs contained, or it
\* could not be started.
ProcessStarts(r) ==
  /\ runs[r].adapter = "execute" /\ runs[r].op.family = "process"
  /\ \/ runs' = [runs EXCEPT ![r].adapter = "child", ![r].tree = {"child"}]
     \/ Answer(r, Error("dispatch"))
  /\ UNCHANGED <<policy, writes, sourceVersion, secretVars>>

\* The connector redeems its grant itself, as often as it likes.
ChildRedeems(r) ==
  /\ runs[r].tree # {} /\ runs[r].granted
  /\ Redeem(r, r)
  /\ UNCHANGED <<policy, runs, writes, sourceVersion>>

\* Any live process of the tree may write, once for the operation.
ChildWrites(r) ==
  /\ runs[r].tree # {} /\ writes[r] = 0
  /\ Writes(r)
  /\ UNCHANGED <<policy, runs, sourceVersion, secretVars>>

ChildSpawns(r) ==
  /\ "child" \in runs[r].tree
  /\ runs' = [runs EXCEPT ![r].tree = @ \cup {"descendant"}]
  /\ UNCHANGED <<policy, writes, sourceVersion, secretVars>>

\* DecodeHostResponse of the capped stdout: a flood, an envelope over the
\* ceiling, or a response.
Decoded(status, size) ==
  CASE size + EnvelopeBytes > MaxOutputBytes + EnvelopeOverhead -> Error("overflow")
    [] size + EnvelopeBytes > MaxResponseBytes -> Error("dispatch")
    [] OTHER -> Response(status, size)

\* The child exits with a verdict that was true of what it did so far, or
\* without one.
ChildExits(r) ==
  /\ "child" \in runs[r].tree
  /\ \E s \in Reportable, z \in OutputSizes : \E a \in {Error("dispatch"), Decoded(s, z)} :
       /\ a.status = "succeeded" => writes[r] = 1
       /\ a.status \in {"failed", "denied"} => writes[r] = 0
       /\ runs' = [runs EXCEPT ![r].tree = @ \ {"child"}, ![r].said = a]
  /\ UNCHANGED <<policy, writes, sourceVersion, secretVars>>

\* Faulty variant of Reaped: only the child itself is waited for.
Reaped_ChildOnly(r) == runs[r].tree \ {"child"}

\* containment.terminate: the whole process group.
Reaped(r) == {}

\* ProcessAdapter.Dispatch after the child exited, or at the end of the
\* context: the tree is killed before the answer is given.
ProcessReturns(r) ==
  /\ runs[r].adapter = "child"
  /\ \E a \in Answers :
       /\ \/ runs[r].said # NoAnswer /\ a = runs[r].said
          \/ runs[r].ctx # "live" /\ a = Error(runs[r].ctx)
       /\ runs' = [runs EXCEPT ![r].adapter = "ended", ![r].answer = a, ![r].tree = Reaped(r)]
  /\ UNCHANGED <<policy, writes, sourceVersion, secretVars>>

-----------------------------------------------------------------------------
AdapterStep(r) ==
  \/ RedeemGrant(r) \/ Execute(r) \/ AdapterPanics(r) \/ Backoff(r) \/ Send(r) \/ Fetch(r)
  \/ ProcessStarts(r) \/ ChildRedeems(r) \/ ChildWrites(r) \/ ChildSpawns(r) \/ ChildExits(r) \/ ProcessReturns(r)

SupervisorStep(r) == AcquireHandle(r) \/ AcquireFails(r) \/ Dispatch(r) \/ Select(r)

ProviderStep == SetMaster \/ Rotate \/ (\E v \in 1..masterVersions : Revoke(v)) \/ SecretTick

HostNext ==
  \/ \E p \in Packs, b \in Installs : NewSupervisor(p, b)
  \/ \E r \in HostOps :
       \/ \E op \in OpSpecs : Start(r, op)
       \/ \E why \in {"deadline", "cancelled"} : ContextEnds(r, why)
       \/ SupervisorStep(r) \/ AdapterStep(r)
  \/ SourceMoves
  \/ ProviderStep /\ UNCHANGED hostVars

HostSpec == HostInit /\ SecretInit /\ [][HostNext]_<<hostVars, secretVars>>

\* The supervisor is scheduled and the wall clock of a call runs out; nothing
\* is assumed of an adapter, a connector or a caller.
HostFairness ==
  \A r \in HostOps :
    /\ WF_<<hostVars, secretVars>>(Select(r))
    /\ WF_<<hostVars, secretVars>>(ContextEnds(r, "deadline"))

-----------------------------------------------------------------------------
(* Properties.                                                             *)

\* Once Run has returned a verdict a receipt is signed on, the operation
\* changes nothing any more: no goroutine, child or descendant is left behind
\* it (Supervisor.Run, ProcessAdapter.Dispatch).
DefiniteIsFinal ==
  [][\A r \in HostOps : runs[r].result \in Definite => writes'[r] = writes[r]]_<<hostVars, secretVars>>

\* A webhook writes at most once for one Run, and exactly once when the Run
\* succeeded ("performs the write AT MOST ONCE", WebhookAdapter.Execute).
DeliveredOnce ==
  \A r \in HostOps : runs[r].op # NoOp /\ runs[r].op.family = "webhook" =>
    /\ writes[r] <= 1
    /\ runs[r].result = "succeeded" => writes[r] = 1

\* A succeeded read is a gap-free prefix of the source's pages, each once and
\* masked; it claims no version newer than that of any page that names its
\* source, and claims one whenever there is such a page (runReadPipeline).
ReadIsSound ==
  \A r \in HostOps : runs[r].result = "succeeded" /\ runs[r].op.family \in Readers =>
    LET pages == runs[r].pages
    IN  /\ Len(pages) \in {SourcePages, MaxPages}
        /\ \A n \in 1..Len(pages) :
             /\ pages[n].page = n /\ pages[n].shown = DeclaredFields \ RedactedFields
             /\ pages[n].named => ReportedVersion(pages) <= pages[n].version
        /\ ReportedVersion(pages) = NoVersion <=> Naming(pages) = {}

\* Whatever writes was checked against a policy of the pinned pack and of the
\* endpoints an open pack may reach, and no reader and no refused request ever
\* does (DerivePolicy, checkAccess, the Execute of each family).
WritesAreDeclared ==
  \A r \in HostOps : writes[r] > 0 =>
    \E p \in Packs, b \in Installs :
      /\ p.digest = b.pinned /\ p.digest = policy.digest
      /\ runs[r].op.targets \subseteq (IF p.isolation \in {"isolated", "none"} THEN {} ELSE b.endpoints)
      /\ runs[r].op.paths \subseteq Roots
      /\ runs[r].op.family \in {"webhook", "process"} /\ runs[r].op.flaw = "none"

\* What the isolated host lets through: only declared writes, a read that is a
\* sound prefix of its source, and a credential revealed once (DerivePolicy,
\* checkAccess, runReadPipeline and LocalProvider.Redeem).
HostIsSound == HostTypeOK /\ WritesAreDeclared /\ ReadIsSound /\ HandleRevealsOnce

\* Every dispatched call returns, whatever its adapter does ("even an adapter
\* that ignores cancellation can never make Run hang", Supervisor.Run).
RunReturns == \A r \in HostOps : runs[r].step = "select" ~> runs[r].step = "done"

\* Run always comes back, and when it comes back with a definite verdict the
\* operation is over (Supervisor.Run and the adapters it leaves behind).
RunEndsForGood == RunReturns /\ DefiniteIsFinal

\* A failed or denied operation left no side effect ("a DEFINITE technical
\* failure with no committed side effect", host/protocol.go).
FailedNeverWrote ==
  \A r \in HostOps : runs[r].result \in {"failed", "denied", "denied_policy"} => writes[r] = 0
=============================================================================
