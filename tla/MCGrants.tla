------------------------------ MODULE MCGrants ------------------------------
(* Four instances in one run: publication and the feed by themselves; grant  *)
(* requests against publishers of consecutive versions; a task run; and one  *)
(* state for every small snapshot a capability may be asked of.              *)
EXTENDS StepGrants, TaskRuns, CapabilityDecision, TLC

CONSTANTS a1, u3, ghost

VARIABLE part

MCTicketActor == [t \in Tickets |-> a1]
MCTicketExpiry == [t \in Tickets |-> 2]

Symmetry == Permutations(Requests) \cup Permutations(Units) \cup Permutations(Publishers)
            \cup Permutations(Callers)

AskedUnits == Units \cup {u3}
AskedRoles == {"approve_high_risk", "edit", "member", "cleaner"}

MCUnitIds == AskedUnits \cup {ghost}

\* Whether the sealed version is the asked one, and of what the capability is.
Questions ==
  {<<1, "dream_evidence", "dream_evidence_read">>, <<1, "knowledge", "knowledge_update">>,
   <<2, "knowledge", "knowledge_update">>, <<1, "knowledge", "dream_evidence_read">>,
   <<1, "knowledge", "unheard_of">>}

AskedOf(parent, members, question, target) ==
  [parent |-> parent, members |-> members, version |-> 1, target |-> target,
   sealed |-> question[1], type |-> question[2], capability |-> question[3]]

\* Memberships without a permission, to go beyond a limit.
Surplus == {<<u3, "manager">>}

NoAsk == AskedOf(<<>>, {}, <<1, "knowledge", "unheard_of">>, NoUnit)

MCInit ==
  /\ GrantInit /\ TaskInit
  /\ part \in {"feed", "grants", "tasks", "decide"}
  /\ part # "tasks" => events = <<>>
  /\ IF part = "decide"
     THEN \E m, n \in AskedUnits \X AskedRoles, question \in Questions, target \in AskedUnits \cup {NoUnit} :
            \/ \E D \in {Units, AskedUnits} : \E parent \in [D -> MCUnitIds \cup {NoUnit}] :
                 \E members \in {{}, {m, n}} : ask = AskedOf(parent, members, question, target)
            \/ \E D \in {AskedUnits, MCUnitIds}, members \in {{m, n}, {m, n} \cup Surplus} :
                 ask = AskedOf([u \in D |-> NoUnit], members, question, target)
     ELSE ask = NoAsk

\* One publisher, of versions 1 and 2, among the requests; no unheard-of role.
OrgBeside ==
  /\ \A p \in Publishers :
       /\ pub'[p].pc = "locked" => pub'[p].event /\ pub'[p].version = head + 1 /\ head < 2
       /\ pub'[p].pc # "idle" => \A q \in Publishers \ {p} : pub'[q].pc = "idle"
  /\ \A m \in live'.members : m[3] \in Roles
  /\ UNCHANGED <<cursor, received>>

MCNext ==
  /\ UNCHANGED <<part, ask>>
  /\ \/ part = "feed" /\ OrgNext /\ UNCHANGED <<grantVars, taskVars>>
     \/ part = "grants" /\ GrantNext /\ OrgBeside /\ UNCHANGED taskVars
     \/ part = "tasks" /\ TaskNext /\ UNCHANGED <<orgVars, grantVars>>
     \/ part \in {"tasks", "decide"} /\ UNCHANGED <<orgVars, grantVars, taskVars>>

MCSpec == MCInit /\ [][MCNext]_<<orgVars, grantVars, taskVars, part, ask>>
=============================================================================
