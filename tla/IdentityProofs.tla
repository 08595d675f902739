--------------------------- MODULE IdentityProofs ---------------------------
(***************************************************************************)
(* Proofs about the trust of agents (TrustSpec), about browser sessions    *)
(* and login limits (SessionsSpec), and about ingress (IngressSpec).       *)
(*                                                                         *)
(* The trust of agents rests on two locks. A revision's row lock is held   *)
(* from the read of its last status to the append that supersedes it, so   *)
(* what a caller read of a log it has locked is still the end of that log  *)
(* when it appends; the product's lock makes certifications of one         *)
(* product follow one another, so the one that appends an active status    *)
(* has seen and superseded every other. TrustInv says what a caller knows  *)
(* at each of its steps.                                                   *)
(*                                                                         *)
(* Sessions have no locks. What is true of them is true because a request  *)
(* that reads the clock commits before the clock has moved twice, because  *)
(* a session lives for IdleTimeout at least from when it was opened and a  *)
(* slide only ever moves its end past the clock, and because the name of   *)
(* a consumed attempt becomes the name of one session only. SessionInv     *)
(* says what a request knows of the rows it has read, and what the         *)
(* answers given so far say of the rows there are.                         *)
(*                                                                         *)
(* The limits of started attempts rest on the lock of the scope: between   *)
(* its count and its commit the creator that holds it is the only one that *)
(* adds an attempt, so what it counted covers what lives. LimitInv adds    *)
(* that the counters are exact, for the present and for every expiry still *)
(* to come, and that the row of a window has counted all it admitted.      *)
(*                                                                         *)
(* Ingress keeps no state. Its theorem is about the resolver's function:   *)
(* a request presents one credential or is refused, and what the resolver  *)
(* answers of that one follows the checks in their order.                  *)
(***************************************************************************)
EXTENDS AgentTrust, BrowserSessions, TrustContext, FiniteSetTheorems, WellFoundedInduction, TLAPS

StatusRows == [status : {"active", "superseded", "revoked"}, prev : Nat]
Clients == [registered : BOOLEAN, origin : Origins \cup {"unknown"}]
Certifications == [class : Classes, origin : Origins \cup {"unknown"}, registered : BOOLEAN, expired : BOOLEAN]
Issuing == [pc : {"issue", "supersede"}, todo : SUBSET Nat, tails : Seq(Nat \X Nat), cert : Certifications]
Assessing == [pc : {"assess"}, todo : SUBSET Nat]

\* A log that is one chain.
Linear(rows) == rows \in Seq(StatusRows) /\ Len(rows) > 0 /\ \A i \in 1..Len(rows) : rows[i].prev = i - 1

\* First-party trust was given to registered clients only.
FirstParty(cert) == cert.class = "first_party_trusted" => cert.registered

LogFacts ==
  /\ client \in Clients
  /\ certs \in Seq(Certifications) /\ Len(certs) <= MaxRevisions
  /\ \A c \in 1..Len(certs) : FirstParty(certs[c])
  /\ log = [c \in 1..Len(certs) |-> log[c]]
  /\ \A c \in 1..Len(certs) : Linear(log[c])
  /\ \A c, d \in 1..Len(certs) : Active(c) /\ Active(d) => c = d

\* What a caller knows of the revisions it has locked.
OpFacts(a) ==
  /\ op[a].pc \in {"rest", "issue", "supersede", "revoke", "append", "assess", "assessed"}
  /\ op[a].pc \in {"issue", "supersede"} => op[a] \in Issuing /\ FirstParty(op[a].cert)
  /\ op[a].pc = "issue" => op[a].tails = <<>>
  /\ op[a].pc = "supersede" =>
       /\ productLock = a /\ op[a].todo \subseteq 1..Len(certs)
       /\ \A c \in (1..Len(certs)) \ op[a].todo :
            rowLock[c] = a /\ (Active(c) => \E i \in DOMAIN op[a].tails : op[a].tails[i][1] = c)
       /\ \A i \in DOMAIN op[a].tails :
            op[a].tails[i][1] \in (1..Len(certs)) \ op[a].todo /\ Active(op[a].tails[i][1])
  /\ op[a].pc \in {"revoke", "append"} => op[a].cert \in 1..Len(certs)
  /\ op[a].pc = "append" => rowLock[op[a].cert] = a /\ op[a].prev = Len(log[op[a].cert])
  /\ op[a].pc = "assess" => op[a] \in Assessing /\ op[a].todo \subseteq 1..Len(certs)

TrustInv ==
  /\ LogFacts
  /\ productLock \in Admins \cup {Nobody}
  /\ rowLock \in [Revisions -> Admins \cup {Nobody}]
  /\ op = [a \in Admins |-> op[a]]
  /\ \A a \in Admins : OpFacts(a)

-----------------------------------------------------------------------------
\* A set of naturals that is not empty has a least element.
LEMMA LeastNatural ==
  ASSUME NEW S \in SUBSET Nat, S # {}
  PROVE  \E m \in S : \A k \in S : m <= k
<1> DEFINE R == OpToRel(<, Nat)
<1>1. IsWellFoundedOn(R, Nat)
  BY NatLessThanWellFounded
<1>2. PICK m \in S : \A k \in S : ~(<<k, m>> \in R)
  <2> HIDE DEF R
  <2> QED
    BY <1>1, WFMin
<1>3. \A k \in S : ~(k < m)
  BY <1>2 DEF OpToRel
<1> QED
  BY <1>3

\* The newest revision of a list that is not empty is on it.
LEMMA NewestIsListed ==
  ASSUME NEW n \in Nat, NEW S \in SUBSET (1..n), S # {}
  PROVE  Max(S) \in S /\ \A y \in S : Max(S) >= y
<1> DEFINE B == {k \in Nat : \A y \in S : y <= k}
<1>1. n \in B
  OBVIOUS
<1>2. PICK m \in B : \A k \in B : m <= k
  <2>1. B \in SUBSET Nat /\ B # {}
    BY <1>1
  <2> HIDE DEF B
  <2> QED
    BY <2>1, LeastNatural
<1>3. m \in Nat /\ \A y \in S : y <= m
  BY <1>2
<1>4. m \in S
  <2> SUFFICES ASSUME m \notin S PROVE FALSE
    OBVIOUS
  <2>1. \A y \in S : y \in Nat /\ y >= 1 /\ y < m
    BY <1>3
  <2>2. m - 1 \in Nat /\ \A y \in S : y <= m - 1
    <3>1. PICK z \in S : TRUE
      OBVIOUS
    <3>2. m \in Nat /\ m - 1 \in Nat
      BY <1>3, <2>1, <3>1
    <3> QED
      BY <2>1, <3>2
  <2>3. m <= m - 1
    BY <1>2, <2>2
  <2> QED
    BY <1>3, <2>3
<1>5. \A y \in S : m >= y
  BY <1>3
<1> QED
  BY <1>4, <1>5 DEF Max

\* A row chained onto the end.
LEMMA ChainedOn ==
  ASSUME NEW rows, Linear(rows) \/ rows = <<>>, NEW s \in {"active", "superseded", "revoked"}
  PROVE  LET new == InsertCertificationStatusChange(rows, s, Len(rows))
         IN  Linear(new) /\ Last(new).status = s
<1> DEFINE e == [status |-> s, prev |-> Len(rows)]
           new == Append(rows, e)
<1>1. rows \in Seq(StatusRows) /\ Len(rows) \in Nat /\ \A i \in 1..Len(rows) : rows[i].prev = i - 1
  <2>1. CASE Linear(rows)
    BY <2>1 DEF Linear
  <2>2. CASE rows = <<>>
    BY <2>2
  <2> QED
    BY <2>1, <2>2
<1>2. e \in StatusRows /\ e.status = s /\ e.prev = Len(rows)
  BY <1>1 DEF StatusRows
<1> HIDE DEF e
<1>3. new \in Seq(StatusRows) /\ Len(new) = Len(rows) + 1
  BY <1>1, <1>2
<1>4. (\A i \in 1..Len(rows) : new[i] = rows[i]) /\ new[Len(rows) + 1] = e
  BY <1>1, <1>2
<1>5. InsertCertificationStatusChange(rows, s, Len(rows)) = new
  BY DEF InsertCertificationStatusChange, e
<1> HIDE DEF new
<1>6. ASSUME NEW i \in 1..(Len(rows) + 1) PROVE new[i].prev = i - 1
  <2>1. CASE i \in 1..Len(rows)
    BY <1>1, <1>4, <2>1
  <2>2. CASE i = Len(rows) + 1
    BY <1>1, <1>2, <1>4, <2>2
  <2> QED
    BY <1>1, <2>1, <2>2
<1>7. Linear(new) /\ Last(new) = e
  BY <1>1, <1>3, <1>4, <1>6 DEF Linear, Last
<1> QED
  BY <1>2, <1>5, <1>7

\* Nothing in a chain hangs on its end.
LEMMA EndIsFree ==
  ASSUME NEW c, Linear(log[c])
  PROVE  Chainable(c, Len(log[c]))
BY DEF Linear, Chainable

-----------------------------------------------------------------------------
\* The record of one caller is replaced.
Moves(a, y) ==
  /\ op' = [b \in Admins |-> op'[b]] /\ op'[a] = y
  /\ \A b \in Admins \ {a} : op'[b] = op[b]

\* A caller that does not move keeps its facts while its locks are respected.
LEMMA OpKept ==
  ASSUME NEW b \in Admins, OpFacts(b), op'[b] = op[b],
         Len(certs) \in Nat, Len(certs') \in Nat, Len(certs) <= Len(certs'),
         op[b].pc = "supersede" => Len(certs') = Len(certs) /\ productLock' = productLock,
         \A c \in 1..Len(certs) : rowLock[c] = b => rowLock'[c] = b /\ log'[c] = log[c]
  PROVE  OpFacts(b)'
<1>1. \A c \in 1..Len(certs) : c \in 1..Len(certs') /\ (rowLock[c] = b => (Active(c)' <=> Active(c)))
  BY DEF Active, GetLatestCertificationStatus
<1>2. CASE op[b].pc = "supersede"
  <2>1. op[b] \in Issuing /\ FirstParty(op[b].cert) /\ productLock' = b /\ op[b].todo \subseteq 1..Len(certs')
    BY <1>2 DEF OpFacts
  <2>2. \A c \in (1..Len(certs')) \ op[b].todo :
          rowLock'[c] = b /\ (Active(c)' => \E i \in DOMAIN op[b].tails : op[b].tails[i][1] = c)
    BY <1>1, <1>2 DEF OpFacts
  <2>3. ASSUME NEW i \in DOMAIN op[b].tails, NEW c, c = op[b].tails[i][1]
        PROVE  c \in (1..Len(certs')) \ op[b].todo /\ Active(c)'
    <3>1. c \in (1..Len(certs)) \ op[b].todo /\ Active(c)
      BY <1>2, <2>3 DEF OpFacts
    <3>2. rowLock[c] = b
      BY <1>2, <3>1 DEF OpFacts
    <3> QED
      BY <1>1, <1>2, <3>1, <3>2
  <2>4. \A i \in DOMAIN op'[b].tails : op'[b].tails[i][1] \in (1..Len(certs')) \ op'[b].todo
    BY <2>3
  <2>5. \A i \in DOMAIN op'[b].tails : Active(op[b].tails[i][1])'
    BY <2>3 DEF Active, GetLatestCertificationStatus
  <2> QED
    BY <1>2, <2>1, <2>2, <2>4, <2>5 DEF OpFacts
<1>3. CASE op[b].pc # "supersede"
  <2>1. op[b].pc \in {"revoke", "append"} => op[b].cert \in 1..Len(certs')
    BY <1>1 DEF OpFacts
  <2>2. op[b].pc = "append" => rowLock'[op[b].cert] = b /\ op[b].prev = Len(log'[op[b].cert])
    BY DEF OpFacts
  <2>3. op[b].pc = "assess" => op[b].todo \subseteq 1..Len(certs')
    BY <1>1 DEF OpFacts
  <2> QED
    BY <1>3, <2>1, <2>2, <2>3 DEF OpFacts
<1> QED
  BY <1>2, <1>3

\* One caller moves; nothing is written.
LEMMA CallerStep ==
  ASSUME TrustInv, NEW a \in Admins, NEW y, Moves(a, y), UNCHANGED <<client, certs, log>>,
         productLock' = productLock \/ (productLock \in {a, Nobody} /\ productLock' \in {a, Nobody}),
         rowLock' \in [Revisions -> Admins \cup {Nobody}],
         \A c \in Revisions : rowLock'[c] = rowLock[c] \/ rowLock[c] \in {a, Nobody},
         OpFacts(a)'
  PROVE  TrustInv'
<1>1. LogFacts' /\ Len(certs) \in Nat /\ Len(certs) <= MaxRevisions
  BY DEF TrustInv, LogFacts, Active, GetLatestCertificationStatus
<1>2. productLock' \in Admins \cup {Nobody}
  BY DEF TrustInv
<1>3. ASSUME NEW b \in Admins \ {a} PROVE OpFacts(b)'
  <2>1. OpFacts(b) /\ op'[b] = op[b] /\ b # Nobody
    BY TrustAssumption DEF TrustInv, Moves
  <2>2. \A c \in 1..Len(certs) : rowLock[c] = b => rowLock'[c] = b /\ log'[c] = log[c]
    BY <1>1, <2>1, TrustAssumption DEF Revisions
  <2>3. op[b].pc = "supersede" => productLock' = productLock
    BY <2>1 DEF OpFacts
  <2> QED
    BY <1>1, <2>1, <2>2, <2>3, OpKept
<1> QED
  BY <1>1, <1>2, <1>3 DEF TrustInv, Moves

\* A caller whose record is replaced.
LEMMA SetOp ==
  ASSUME TrustInv, NEW a \in Admins, NEW y, op' = [op EXCEPT ![a] = y]
  PROVE  Moves(a, y)
<1>1. op = [b \in Admins |-> op[b]]
  BY DEF TrustInv
<1> QED
  BY <1>1 DEF Moves

\* Releasing, and taking, row locks.
LEMMA RowLocks ==
  ASSUME TrustInv, NEW a \in Admins
  PROVE  /\ Release(a) => /\ rowLock' \in [Revisions -> Admins \cup {Nobody}]
                          /\ \A c \in Revisions : rowLock'[c] = rowLock[c] \/ rowLock[c] = a
         /\ \A c \in Revisions : LockAgentCertification(a, c) =>
              /\ rowLock' \in [Revisions -> Admins \cup {Nobody}] /\ rowLock'[c] = a
              /\ \A d \in Revisions : rowLock'[d] = rowLock[d] \/ rowLock[d] = Nobody
              /\ \A d \in Revisions : rowLock[d] = a => rowLock'[d] = a
BY DEF TrustInv, Release, LockAgentCertification

-----------------------------------------------------------------------------
\* A step that leaves the logs, the locks and the callers alone.
LEMMA QuietStep ==
  ASSUME TrustInv, LogFacts', Len(certs') = Len(certs), UNCHANGED <<log, productLock, rowLock, op>>
  PROVE  TrustInv'
<1>1. Len(certs) \in Nat
  BY DEF TrustInv, LogFacts
<1>2. ASSUME NEW b \in Admins PROVE OpFacts(b)'
  <2>1. OpFacts(b)
    BY DEF TrustInv
  <2>2. \A c \in 1..Len(certs) : rowLock[c] = b => rowLock'[c] = b /\ log'[c] = log[c]
    OBVIOUS
  <2> QED
    BY <1>1, <2>1, <2>2, OpKept
<1> QED
  BY <1>2 DEF TrustInv

\* The client is registered or updated; no certification is touched.
LEMMA RegisterStep ==
  ASSUME TrustInv, NEW a \in Admins, NEW origin \in Origins, Register(a, origin)
  PROVE  TrustInv'
<1>1. LogFacts'
  BY DEF TrustInv, LogFacts, Register, UpsertAgentClient, NewClient, Clients, Active, GetLatestCertificationStatus
<1> QED
  BY <1>1, QuietStep DEF Register

\* A revision's lifetime ends; its log is left alone.
LEMMA LapseStep ==
  ASSUME TrustInv, NEW c \in Revisions, Lapse(c)
  PROVE  TrustInv'
<1>1. certs \in Seq(Certifications) /\ Len(certs) \in Nat /\ DOMAIN certs = 1..Len(certs) /\ c \in 1..Len(certs)
  BY DEF TrustInv, LogFacts, Lapse
<1>2. PICK y : y = [certs[c] EXCEPT !.expired = TRUE]
  OBVIOUS
<1>3. certs[c] \in Certifications
  BY <1>1
<1>4. y \in Certifications /\ y.class = certs[c].class /\ y.registered = certs[c].registered
  BY <1>2, <1>3 DEF Certifications
<1>5. certs' = [certs EXCEPT ![c] = y]
  BY <1>2 DEF Lapse
<1>6. certs' \in Seq(Certifications) /\ Len(certs') = Len(certs) /\ certs'[c] = y
  BY <1>1, <1>4, <1>5
<1>7. \A d \in 1..Len(certs) : d # c => certs'[d] = certs[d]
  BY <1>1, <1>5
<1>8. \A d \in 1..Len(certs) : FirstParty(certs'[d])
  BY <1>1, <1>4, <1>6, <1>7 DEF TrustInv, LogFacts, FirstParty
<1>9. LogFacts'
  BY <1>6, <1>8 DEF TrustInv, LogFacts, Lapse, Active, GetLatestCertificationStatus
<1> QED
  BY <1>6, <1>9, QuietStep DEF Lapse

\* A certification is asked for; nothing is written yet.
LEMMA CertifyStep ==
  ASSUME TrustInv, NEW a \in Admins, NEW class \in Classes, Certify(a, class)
  PROVE  TrustInv'
<1> DEFINE y == [pc |-> "issue", todo |-> {}, tails |-> <<>>, cert |-> NewCertification(class)]
<1>1. client \in Clients
  BY DEF TrustInv, LogFacts
<1>2. NewCertification(class) \in Certifications /\ FirstParty(NewCertification(class))
  BY <1>1 DEF NewCertification, Certifications, Clients, FirstParty, Certify
<1>3. y \in Issuing /\ y.pc = "issue" /\ y.tails = <<>> /\ FirstParty(y.cert)
  BY <1>2 DEF Issuing
<1>4. op' = [op EXCEPT ![a] = y]
  BY DEF Certify
<1> HIDE DEF y
<1>5. Moves(a, y)
  BY <1>4, SetOp
<1>6. OpFacts(a)'
  BY <1>3, <1>5 DEF OpFacts, Moves
<1>7. UNCHANGED <<client, certs, log, productLock, rowLock>>
  BY DEF Certify
<1>8. rowLock' \in [Revisions -> Admins \cup {Nobody}]
  BY <1>7 DEF TrustInv
<1> QED
  BY <1>5, <1>6, <1>7, <1>8, CallerStep

\* The certification takes the product lock, and with it the right to write logs.
LEMMA BeginStep ==
  ASSUME TrustInv, NEW a \in Admins, BeginCreateCertification(a)
  PROVE  TrustInv'
<1>1. op[a].pc = "issue" /\ OpFacts(a) /\ productLock = Nobody /\ productLock' = a
      /\ UNCHANGED <<client, certs, log, rowLock>>
  BY DEF BeginCreateCertification, TrustInv
<1>2. op[a] \in Issuing /\ FirstParty(op[a].cert) /\ op[a].tails = <<>>
  BY <1>1 DEF OpFacts
<1>3. certs \in Seq(Certifications) /\ Len(certs) \in Nat /\ DOMAIN certs = 1..Len(certs)
  BY DEF TrustInv, LogFacts
<1>4. PICK y : y = [op[a] EXCEPT !.pc = "supersede", !.todo = DOMAIN certs]
  OBVIOUS
<1>5. y \in Issuing /\ y.pc = "supersede" /\ y.todo = 1..Len(certs) /\ y.tails = <<>> /\ FirstParty(y.cert)
  <2>1. 1..Len(certs) \in SUBSET Nat
    BY <1>3
  <2> QED
    BY <1>2, <1>3, <1>4, <2>1 DEF Issuing
<1>6. op' = [op EXCEPT ![a] = y]
  BY <1>4 DEF BeginCreateCertification
<1>7. Moves(a, y)
  BY <1>6, SetOp
<1>8. OpFacts(a)'
  <2>1. op'[a] = y
    BY <1>7 DEF Moves
  <2>2. DOMAIN y.tails = {}
    BY <1>5
  <2> QED
    BY <1>1, <1>5, <2>1, <2>2 DEF OpFacts
<1>9. rowLock' \in [Revisions -> Admins \cup {Nobody}]
  BY <1>1 DEF TrustInv
<1> QED
  BY <1>1, <1>7, <1>8, <1>9, CallerStep

\* Each revision is locked before its status is read, so the tail read stays the tail.
LEMMA SupersedeStep ==
  ASSUME TrustInv, NEW a \in Admins, SupersedePrior(a)
  PROVE  TrustInv'
<1>1. PICK c : c = Max(op[a].todo)
  OBVIOUS
<1>2. /\ op[a].pc = "supersede" /\ op[a].todo # {} /\ OpFacts(a)
      /\ UNCHANGED <<client, certs, log, productLock>> /\ LockAgentCertification(a, c)
  BY <1>1 DEF SupersedePrior, TrustInv
<1>3. op[a] \in Issuing /\ FirstParty(op[a].cert) /\ productLock = a /\ op[a].todo \subseteq 1..Len(certs)
  BY <1>2 DEF OpFacts
<1>4. Len(certs) \in Nat /\ Len(certs) <= MaxRevisions
  BY DEF TrustInv, LogFacts
<1>5. c \in op[a].todo /\ c \in 1..Len(certs) /\ c \in Revisions
  <2>1. Max(op[a].todo) \in op[a].todo
    BY <1>2, <1>3, <1>4, NewestIsListed
  <2> QED
    BY <1>1, <1>3, <1>4, <2>1, TrustAssumption DEF Revisions
<1>6. PICK s : s = op[a].tails
  OBVIOUS
<1>7. s \in Seq(Nat \X Nat)
  BY <1>3, <1>6 DEF Issuing
<1>8. PICK e : e = <<c, Len(log[c])>>
  OBVIOUS
<1>9. e \in Nat \X Nat /\ e[1] = c
  BY <1>4, <1>5, <1>8 DEF TrustInv, LogFacts, Linear
<1>10. PICK t : t = IF Active(c) THEN Append(s, e) ELSE s
  OBVIOUS
<1>11. /\ t \in Seq(Nat \X Nat)
       /\ \A i \in DOMAIN s : i \in DOMAIN t /\ t[i] = s[i]
       /\ \A i \in DOMAIN t : (i \in DOMAIN s /\ t[i] = s[i]) \/ (Active(c) /\ t[i] = e)
       /\ Active(c) => \E i \in DOMAIN t : t[i] = e
  <2>1. CASE Active(c)
    <3>1. t = Append(s, e)
      BY <1>10, <2>1
    <3>2. t \in Seq(Nat \X Nat) /\ Len(t) = Len(s) + 1 /\ Len(s) \in Nat /\ t[Len(s) + 1] = e
      BY <1>7, <1>9, <3>1
    <3>3. DOMAIN t = 1..(Len(s) + 1) /\ DOMAIN s = 1..Len(s)
      BY <1>7, <3>2
    <3>4. \A i \in DOMAIN s : i \in DOMAIN t /\ t[i] = s[i]
      BY <1>7, <1>9, <3>1, <3>2, <3>3
    <3>5. \A i \in DOMAIN t : i \in DOMAIN s \/ i = Len(s) + 1
      BY <3>2, <3>3
    <3> QED
      BY <2>1, <3>2, <3>3, <3>4, <3>5
  <2>2. CASE ~Active(c)
    BY <1>7, <1>10, <2>2
  <2> QED
    BY <2>1, <2>2
<1>12. PICK y : y = [op[a] EXCEPT !.todo = @ \ {c}, !.tails = t]
  OBVIOUS
<1>13. /\ y \in Issuing /\ y.pc = "supersede" /\ y.todo = op[a].todo \ {c} /\ y.tails = t
       /\ FirstParty(y.cert)
  <2>1. op[a].todo \ {c} \in SUBSET Nat
    BY <1>3 DEF Issuing
  <2> QED
    BY <1>2, <1>3, <1>11, <1>12, <2>1 DEF Issuing
<1>14. op' = [op EXCEPT ![a] = y]
  BY <1>1, <1>6, <1>8, <1>10, <1>12 DEF SupersedePrior
<1>15. Moves(a, y)
  BY <1>14, SetOp
<1>16. /\ rowLock' \in [Revisions -> Admins \cup {Nobody}] /\ rowLock'[c] = a
       /\ \A d \in Revisions : rowLock'[d] = rowLock[d] \/ rowLock[d] = Nobody
       /\ \A d \in Revisions : rowLock[d] = a => rowLock'[d] = a
  BY <1>2, <1>5, RowLocks
<1>17. \A d : Active(d)' <=> Active(d)
  BY <1>2 DEF Active, GetLatestCertificationStatus
<1>18. ASSUME NEW d \in (1..Len(certs)) \ y.todo
       PROVE  rowLock'[d] = a /\ (Active(d) => \E i \in DOMAIN t : t[i][1] = d)
  <2>1. CASE d = c
    BY <1>9, <1>11, <1>16, <2>1
  <2>2. CASE d # c
    <3>1. d \in (1..Len(certs)) \ op[a].todo /\ d \in Revisions
      BY <1>4, <1>13, <2>2, TrustAssumption DEF Revisions
    <3>2. rowLock[d] = a /\ (Active(d) => \E i \in DOMAIN s : s[i][1] = d)
      BY <1>2, <1>6, <3>1 DEF OpFacts
    <3> QED
      BY <1>11, <1>16, <3>1, <3>2
  <2> QED
    BY <2>1, <2>2
<1>19. ASSUME NEW i \in DOMAIN t
       PROVE  t[i][1] \in (1..Len(certs)) \ y.todo /\ Active(t[i][1])
  <2>1. CASE i \in DOMAIN s /\ t[i] = s[i]
    BY <1>2, <1>6, <1>13, <2>1 DEF OpFacts
  <2>2. CASE Active(c) /\ t[i] = e
    BY <1>5, <1>9, <1>13, <2>2
  <2> QED
    BY <1>11, <2>1, <2>2
<1>20. OpFacts(a)'
  <2>1. op'[a] = y
    BY <1>15 DEF Moves
  <2>2. \A d \in (1..Len(certs')) \ op'[a].todo :
          rowLock'[d] = a /\ (Active(d)' => \E i \in DOMAIN op'[a].tails : op'[a].tails[i][1] = d)
    BY <1>2, <1>13, <1>17, <1>18, <2>1
  <2>3. \A i \in DOMAIN op'[a].tails : op'[a].tails[i][1] \in (1..Len(certs')) \ op'[a].todo
    BY <1>2, <1>13, <1>19, <2>1
  <2>4. \A i \in DOMAIN op'[a].tails : Active(op[a].tails[i][1])'
    BY <1>2, <1>13, <1>19, <2>1 DEF Active, GetLatestCertificationStatus
  <2>5. productLock' = a /\ op'[a].todo \subseteq 1..Len(certs')
    BY <1>2, <1>3, <1>13, <2>1
  <2> QED
    BY <1>13, <2>1, <2>2, <2>3, <2>4, <2>5 DEF OpFacts
<1>21. \A d \in Revisions : rowLock'[d] = rowLock[d] \/ rowLock[d] \in {a, Nobody}
  BY <1>16
<1> QED
  BY <1>2, <1>15, <1>16, <1>20, <1>21, CallerStep

\* The commit: the new revision is the active one.
LEMMA CreateStep ==
  ASSUME TrustInv, NEW a \in Admins, CreateCertification(a)
  PROVE  /\ TrustInv'
         /\ \A c \in 1..Len(certs) : log'[c] = log[c] \/ Active(c)
<1>1. PICK n : n = Len(certs)
  OBVIOUS
<1>2. PICK s : s = op[a].tails
  OBVIOUS
<1>3. /\ op[a].pc = "supersede" /\ op[a].todo = {} /\ OpFacts(a) /\ n + 1 <= MaxRevisions
      /\ certs' = Append(certs, op[a].cert)
      /\ productLock' = Nobody /\ Release(a) /\ UNCHANGED client
  BY <1>1 DEF CreateCertification, GetMaxCertificationRevision, InsertAgentCertification, TrustInv
<1>4. /\ LogFacts /\ n \in Nat /\ certs \in Seq(Certifications)
      /\ rowLock \in [Revisions -> Admins \cup {Nobody}]
  BY <1>1 DEF TrustInv, LogFacts
<1>5. /\ op[a] \in Issuing /\ FirstParty(op[a].cert) /\ productLock = a
      /\ \A c \in 1..n : rowLock[c] = a /\ (Active(c) => \E i \in DOMAIN s : s[i][1] = c)
      /\ \A i \in DOMAIN s : s[i][1] \in 1..n /\ Active(s[i][1])
  BY <1>1, <1>2, <1>3 DEF OpFacts
<1>6. op[a].cert \in Certifications
  BY <1>5 DEF Issuing
<1>7. /\ certs' \in Seq(Certifications) /\ Len(certs') = n + 1 /\ certs'[n + 1] = op[a].cert
      /\ \A c \in 1..n : certs'[c] = certs[c]
  BY <1>1, <1>3, <1>4, <1>6
<1>8. \A c \in 1..(n + 1) : FirstParty(certs'[c])
  BY <1>1, <1>4, <1>5, <1>7 DEF LogFacts
<1> DEFINE L(c) == IF c = n + 1 THEN InsertCertificationStatusChange(<<>>, "active", 0)
                   ELSE IF \E t \in ToSet(s) : t[1] = c
                   THEN InsertCertificationStatusChange(log[c], "superseded", Len(log[c]))
                   ELSE log[c]
<1>9. log' = [c \in 1..(n + 1) |-> L(c)]
  BY <1>1, <1>2 DEF CreateCertification, GetMaxCertificationRevision
<1>10. \A c : (\E t \in ToSet(s) : t[1] = c) <=> (\E i \in DOMAIN s : s[i][1] = c)
  BY DEF ToSet
<1>11. ASSUME NEW c \in 1..n PROVE Linear(log'[c]) /\ ~Active(c)' /\ (log'[c] = log[c] \/ Active(c))
  <2>1. c # n + 1 /\ c \in 1..(n + 1) /\ log'[c] = L(c) /\ Linear(log[c])
    BY <1>1, <1>4, <1>9 DEF LogFacts
  <2>2. CASE Active(c)
    <3>1. log'[c] = InsertCertificationStatusChange(log[c], "superseded", Len(log[c]))
      BY <1>5, <1>10, <2>1, <2>2
    <3>2. Linear(log'[c]) /\ Last(log'[c]).status = "superseded"
      BY <2>1, <3>1, ChainedOn
    <3> QED
      BY <2>2, <3>2 DEF Active, GetLatestCertificationStatus
  <2>3. CASE ~Active(c)
    <3>1. ~ \E i \in DOMAIN s : s[i][1] = c
      BY <1>5, <2>3
    <3>2. log'[c] = log[c]
      BY <1>10, <2>1, <3>1
    <3> QED
      BY <2>1, <2>3, <3>2 DEF Active, GetLatestCertificationStatus
  <2> QED
    BY <2>2, <2>3
<1>12. Linear(log'[n + 1])
  <2>1. log'[n + 1] = InsertCertificationStatusChange(<<>>, "active", Len(<<>>))
    BY <1>4, <1>9
  <2> QED
    BY <2>1, ChainedOn
<1> HIDE DEF L
<1>13. LogFacts'
  <2>1. \A c \in 1..(n + 1) : c \in 1..n \/ c = n + 1
    BY <1>4
  <2>2. \A c \in 1..(n + 1) : Linear(log'[c])
    BY <1>11, <1>12, <2>1
  <2>3. \A c, d \in 1..(n + 1) : Active(c)' /\ Active(d)' => c = d
    BY <1>11, <2>1
  <2>4. log' = [c \in 1..(n + 1) |-> log'[c]]
    BY <1>9
  <2>5. client' \in Clients
    BY <1>3, <1>4 DEF LogFacts
  <2> QED
    BY <1>3, <1>7, <1>8, <2>2, <2>3, <2>4, <2>5 DEF LogFacts
<1>14. /\ rowLock' \in [Revisions -> Admins \cup {Nobody}]
       /\ \A c \in Revisions : rowLock'[c] = rowLock[c] \/ rowLock[c] = a
  BY <1>3, RowLocks
<1>15. Moves(a, Resting)
  <2>1. op' = [op EXCEPT ![a] = Resting]
    BY DEF CreateCertification
  <2> QED
    BY <2>1, SetOp
<1>16. OpFacts(a)'
  BY <1>15 DEF OpFacts, Moves, Resting
<1>17. ASSUME NEW b \in Admins \ {a} PROVE OpFacts(b)'
  <2>1. OpFacts(b) /\ op'[b] = op[b]
    BY <1>15 DEF TrustInv, Moves
  <2>2. op[b].pc # "supersede"
    BY <1>5, <2>1 DEF OpFacts
  <2>3. \A c \in 1..Len(certs) : rowLock[c] # b
    BY <1>1, <1>5
  <2> QED
    BY <1>1, <1>4, <1>7, <2>1, <2>2, <2>3, OpKept
<1> QED
  BY <1>1, <1>3, <1>11, <1>13, <1>14, <1>15, <1>16, <1>17 DEF TrustInv, Moves

\* A revocation starts: nothing is written before its row lock.
LEMMA RevokeStep ==
  ASSUME TrustInv, NEW a \in Admins, NEW c \in Revisions, Revoke(a, c)
  PROVE  TrustInv'
<1> DEFINE y == [pc |-> "revoke", cert |-> c]
<1>1. c \in 1..Len(certs) /\ UNCHANGED <<client, certs, log, productLock, rowLock>>
  BY DEF Revoke, TrustInv, LogFacts
<1>2. op' = [op EXCEPT ![a] = y] /\ y.pc = "revoke" /\ y.cert = c
  BY DEF Revoke
<1> HIDE DEF y
<1>3. Moves(a, y)
  BY <1>2, SetOp
<1>4. OpFacts(a)'
  BY <1>1, <1>2, <1>3 DEF OpFacts, Moves
<1>5. rowLock' \in [Revisions -> Admins \cup {Nobody}]
  BY <1>1 DEF TrustInv
<1> QED
  BY <1>1, <1>3, <1>4, <1>5, CallerStep

\* The tail read under the row lock stays the tail until the append.
LEMMA ReadTailStep ==
  ASSUME TrustInv, NEW a \in Admins, ReadTail(a)
  PROVE  TrustInv'
<1>1. PICK c : c = op[a].cert
  OBVIOUS
<1> DEFINE y == [pc |-> "append", cert |-> c, prev |-> Len(log[c])]
<1>2. /\ op[a].pc = "revoke" /\ OpFacts(a) /\ LockAgentCertification(a, c)
      /\ UNCHANGED <<client, certs, log, productLock>>
  BY <1>1 DEF ReadTail, TrustInv
<1>3. c \in 1..Len(certs) /\ c \in Revisions
  BY <1>1, <1>2, TrustAssumption DEF OpFacts, TrustInv, LogFacts, Revisions
<1>4. op' = [op EXCEPT ![a] = y] /\ y.pc = "append" /\ y.cert = c /\ y.prev = Len(log[c])
  BY <1>1 DEF ReadTail
<1> HIDE DEF y
<1>5. Moves(a, y)
  BY <1>4, SetOp
<1>6. /\ rowLock' \in [Revisions -> Admins \cup {Nobody}] /\ rowLock'[c] = a
      /\ \A d \in Revisions : rowLock'[d] = rowLock[d] \/ rowLock[d] \in {a, Nobody}
  BY <1>2, <1>3, RowLocks
<1>7. OpFacts(a)'
  BY <1>2, <1>3, <1>4, <1>5, <1>6 DEF OpFacts, Moves
<1> QED
  BY <1>2, <1>5, <1>6, <1>7, CallerStep

\* The append: the lock has kept the end of the log where it was read.
LEMMA AppendStep ==
  ASSUME TrustInv, NEW a \in Admins, AppendStatus(a)
  PROVE  /\ TrustInv'
         /\ \A c \in 1..Len(certs) : log'[c] = log[c] \/ Last(log'[c]).status = "revoked"
<1>1. PICK c : c = op[a].cert
  OBVIOUS
<1>2. /\ op[a].pc = "append" /\ OpFacts(a) /\ Release(a) /\ UNCHANGED <<client, certs, productLock>>
      /\ LogFacts /\ Len(certs) \in Nat /\ Len(certs) <= MaxRevisions
  BY DEF AppendStatus, TrustInv, LogFacts
<1>3. c \in 1..Len(certs) /\ rowLock[c] = a /\ op[a].prev = Len(log[c])
  BY <1>1, <1>2 DEF OpFacts
<1>4. Linear(log[c]) /\ log = [d \in 1..Len(certs) |-> log[d]]
  BY <1>2, <1>3 DEF LogFacts
<1>5. Chainable(c, op[a].prev)
  BY <1>3, <1>4, EndIsFree
<1>6. PICK new : new = InsertCertificationStatusChange(log[c], "revoked", Len(log[c]))
  OBVIOUS
<1>7. Linear(new) /\ Last(new).status = "revoked"
  BY <1>4, <1>6, ChainedOn
<1>8. log' = [log EXCEPT ![c] = new] /\ op' = [op EXCEPT ![a] = Resting]
  BY <1>1, <1>3, <1>5, <1>6 DEF AppendStatus
<1>9. /\ log' = [d \in 1..Len(certs) |-> log'[d]] /\ log'[c] = new
      /\ \A d \in 1..Len(certs) : d # c => log'[d] = log[d]
  BY <1>3, <1>4, <1>8
<1>10. ~Active(c)' /\ \A d \in 1..Len(certs) : d # c => (Active(d)' <=> Active(d))
  BY <1>7, <1>9 DEF Active, GetLatestCertificationStatus
<1>11. LogFacts'
  <2>1. \A d \in 1..Len(certs) : Linear(log'[d])
    BY <1>2, <1>7, <1>9 DEF LogFacts
  <2>2. \A d, e \in 1..Len(certs) : Active(d)' /\ Active(e)' => d = e
    BY <1>2, <1>10 DEF LogFacts
  <2> QED
    BY <1>2, <1>9, <2>1, <2>2 DEF LogFacts
<1>12. /\ rowLock' \in [Revisions -> Admins \cup {Nobody}]
       /\ \A d \in Revisions : rowLock'[d] = rowLock[d] \/ rowLock[d] = a
  BY <1>2, RowLocks
<1>13. Moves(a, Resting)
  BY <1>8, SetOp
<1>14. OpFacts(a)'
  BY <1>13 DEF OpFacts, Moves, Resting
<1>15. ASSUME NEW b \in Admins \ {a} PROVE OpFacts(b)'
  <2>1. OpFacts(b) /\ op'[b] = op[b]
    BY <1>13 DEF TrustInv, Moves
  <2>2. \A d \in 1..Len(certs) : rowLock[d] = b => rowLock'[d] = b /\ log'[d] = log[d]
    BY <1>2, <1>3, <1>9, <1>12, TrustAssumption DEF Revisions
  <2> QED
    BY <1>2, <2>1, <2>2, OpKept
<1>16. productLock' \in Admins \cup {Nobody}
  BY <1>2 DEF TrustInv
<1> QED
  BY <1>7, <1>9, <1>11, <1>12, <1>13, <1>14, <1>15, <1>16 DEF TrustInv, Moves

\* An assessment begins: it only reads.
LEMMA AssessStep ==
  ASSUME TrustInv, NEW a \in Admins, Assess(a)
  PROVE  TrustInv'
<1> DEFINE y == [pc |-> "assess", todo |-> ListAgentCertifications]
<1>1. Len(certs) \in Nat /\ DOMAIN certs = 1..Len(certs) /\ UNCHANGED <<client, certs, log, productLock, rowLock>>
  BY DEF Assess, TrustInv, LogFacts
<1>2. y \in Assessing /\ y.todo \subseteq 1..Len(certs)
  BY <1>1 DEF Assessing, ListAgentCertifications
<1>3. op' = [op EXCEPT ![a] = y] /\ y.pc = "assess"
  BY DEF Assess
<1> HIDE DEF y
<1>4. Moves(a, y)
  BY <1>3, SetOp
<1>5. OpFacts(a)'
  BY <1>1, <1>2, <1>3, <1>4 DEF OpFacts, Moves
<1>6. rowLock' \in [Revisions -> Admins \cup {Nobody}]
  BY <1>1 DEF TrustInv
<1> QED
  BY <1>1, <1>4, <1>5, <1>6, CallerStep

\* What the verdict says.
Verdict(a) ==
  op'[a].pc = "assessed" =>
    /\ op'[a].cert \in 1..Len(certs) /\ Active(op'[a].cert)
    /\ op'[a].connectors => ~IsAstraClawOrigin(certs[op'[a].cert].origin)

\* The verdict of an assessment is taken from one read of log and certificates.
LEMMA AssessNewestStep ==
  ASSUME TrustInv, NEW a \in Admins, AssessNewest(a)
  PROVE  TrustInv' /\ Verdict(a) /\ \A b \in Admins \ {a} : op'[b] = op[b]
<1>1. PICK c : c = Max(op[a].todo)
  OBVIOUS
<1>2. /\ op[a].pc = "assess" /\ op[a].todo # {} /\ OpFacts(a) /\ Len(certs) \in Nat
      /\ UNCHANGED <<client, certs, log, productLock, rowLock>>
  BY DEF AssessNewest, TrustInv, LogFacts
<1>3. op[a] \in Assessing /\ op[a].todo \subseteq 1..Len(certs)
  BY <1>2 DEF OpFacts
<1>4. c \in op[a].todo /\ c \in 1..Len(certs)
  BY <1>1, <1>2, <1>3, NewestIsListed
<1>5. rowLock' \in [Revisions -> Admins \cup {Nobody}]
  BY <1>2 DEF TrustInv
<1>6. CASE Active(c)
  <2>1. PICK live \in LiveOrigins :
          op' = [op EXCEPT ![a] = [pc |-> "assessed", cert |-> c,
                   connectors |-> ~IsAstraClawOrigin(certs[c].origin) /\ ~IsAstraClawOrigin(live)]]
    BY <1>1, <1>6 DEF AssessNewest
  <2> DEFINE y == [pc |-> "assessed", cert |-> c,
                   connectors |-> ~IsAstraClawOrigin(certs[c].origin) /\ ~IsAstraClawOrigin(live)]
  <2>2. y.pc = "assessed" /\ y.cert = c /\ (y.connectors => ~IsAstraClawOrigin(certs[c].origin))
    OBVIOUS
  <2>3. op' = [op EXCEPT ![a] = y]
    BY <2>1
  <2> HIDE DEF y
  <2>4. Moves(a, y)
    BY <2>3, SetOp
  <2>5. OpFacts(a)'
    BY <2>2, <2>4 DEF OpFacts, Moves
  <2>6. TrustInv'
    BY <1>2, <1>5, <2>4, <2>5, CallerStep
  <2> QED
    BY <1>4, <1>6, <2>2, <2>4, <2>6 DEF Verdict, Moves
<1>7. CASE ~Active(c)
  <2>1. PICK y : y = [op[a] EXCEPT !.todo = @ \ {c}]
    OBVIOUS
  <2>2. y \in Assessing /\ y.pc = "assess" /\ y.todo \subseteq 1..Len(certs)
    BY <1>2, <1>3, <2>1 DEF Assessing
  <2>3. op' = [op EXCEPT ![a] = y]
    BY <1>1, <1>7, <2>1 DEF AssessNewest
  <2>4. Moves(a, y)
    BY <2>3, SetOp
  <2>5. OpFacts(a)'
    BY <1>2, <2>2, <2>4 DEF OpFacts, Moves
  <2>6. TrustInv'
    BY <1>2, <1>5, <2>4, <2>5, CallerStep
  <2> QED
    BY <2>2, <2>4, <2>6 DEF Verdict, Moves
<1> QED
  BY <1>6, <1>7

\* A call ends, answered or not, and its locks with it.
LEMMA EndStep ==
  ASSUME TrustInv, NEW a \in Admins, EndCall(a)
  PROVE  TrustInv'
<1>1. /\ UNCHANGED <<client, certs, log>> /\ Release(a)
      /\ productLock' = productLock \/ (productLock = a /\ productLock' = Nobody)
  BY DEF EndCall
<1>2. Moves(a, Resting)
  <2>1. op' = [op EXCEPT ![a] = Resting]
    BY DEF EndCall
  <2> QED
    BY <2>1, SetOp
<1>3. OpFacts(a)'
  BY <1>2 DEF OpFacts, Moves, Resting
<1>4. /\ rowLock' \in [Revisions -> Admins \cup {Nobody}]
      /\ \A c \in Revisions : rowLock'[c] = rowLock[c] \/ rowLock[c] \in {a, Nobody}
  BY <1>1, RowLocks
<1> QED
  BY <1>1, <1>2, <1>3, <1>4, CallerStep

-----------------------------------------------------------------------------
\* Nothing is registered, locked or logged at first.
LEMMA TrustInitInv ==
  ASSUME TrustInit
  PROVE  TrustInv
<1>1. certs \in Seq(Certifications) /\ Len(certs) = 0 /\ log = <<>>
  BY DEF TrustInit
<1>2. log = [c \in 1..Len(certs) |-> log[c]]
  BY <1>1
<1>3. client \in Clients
  BY DEF TrustInit, NoClient, Clients
<1>4. LogFacts
  BY <1>1, <1>2, <1>3, TrustAssumption DEF LogFacts
<1>5. \A a \in Admins : op[a] = Resting /\ OpFacts(a)
  BY DEF TrustInit, OpFacts, Resting
<1> QED
  BY <1>4, <1>5 DEF TrustInv, TrustInit

\* Every step, of any administrator, keeps the trust invariant.
LEMMA TrustNextInv ==
  ASSUME TrustInv, [TrustNext]_trustVars
  PROVE  TrustInv'
<1>1. CASE UNCHANGED trustVars
  <2>1. UNCHANGED <<client, certs, log, productLock, rowLock, op>>
    BY <1>1 DEF trustVars
  <2>2. LogFacts'
    BY <2>1 DEF TrustInv, LogFacts, Active, GetLatestCertificationStatus
  <2> QED
    BY <2>1, <2>2, QuietStep
<1>2. ASSUME NEW a \in Admins, NEW origin \in Origins, Register(a, origin) PROVE TrustInv'
  BY <1>2, RegisterStep
<1>3. ASSUME NEW a \in Admins, NEW class \in Classes, Certify(a, class) PROVE TrustInv'
  BY <1>3, CertifyStep
<1>4. ASSUME NEW a \in Admins, BeginCreateCertification(a) PROVE TrustInv'
  BY <1>4, BeginStep
<1>5. ASSUME NEW a \in Admins, SupersedePrior(a) PROVE TrustInv'
  BY <1>5, SupersedeStep
<1>6. ASSUME NEW a \in Admins, CreateCertification(a) PROVE TrustInv'
  BY <1>6, CreateStep
<1>7. ASSUME NEW a \in Admins, NEW c \in Revisions, Revoke(a, c) PROVE TrustInv'
  BY <1>7, RevokeStep
<1>8. ASSUME NEW a \in Admins, ReadTail(a) PROVE TrustInv'
  BY <1>8, ReadTailStep
<1>9. ASSUME NEW a \in Admins, AppendStatus(a) PROVE TrustInv'
  BY <1>9, AppendStep
<1>10. ASSUME NEW a \in Admins, Assess(a) PROVE TrustInv'
  BY <1>10, AssessStep
<1>11. ASSUME NEW a \in Admins, AssessNewest(a) PROVE TrustInv'
  BY <1>11, AssessNewestStep
<1>12. ASSUME NEW a \in Admins, EndCall(a) PROVE TrustInv'
  BY <1>12, EndStep
<1>13. ASSUME NEW c \in Revisions, Lapse(c) PROVE TrustInv'
  BY <1>13, LapseStep
<1> QED
  BY <1>1, <1>2, <1>3, <1>4, <1>5, <1>6, <1>7, <1>8, <1>9, <1>10, <1>11, <1>12, <1>13 DEF TrustNext

\* Only two steps write a log.
LEMMA Writers ==
  ASSUME TrustNext
  PROVE  \/ log' = log
         \/ \E a \in Admins : CreateCertification(a)
         \/ \E a \in Admins : AppendStatus(a)
BY DEF TrustNext, Register, Certify, BeginCreateCertification, SupersedePrior, Revoke, ReadTail,
       Assess, AssessNewest, EndCall, Lapse

\* No step appends to the log of a revoked revision.
LEMMA RevokedKept ==
  ASSUME TrustInv, [TrustNext]_trustVars, NEW c \in DOMAIN log, Last(log[c]).status = "revoked"
  PROVE  Last(log'[c]).status = "revoked"
<1>1. c \in 1..Len(certs) /\ ~Active(c)
  BY DEF TrustInv, LogFacts, Active, GetLatestCertificationStatus
<1>2. CASE log' = log
  BY <1>2
<1>3. ASSUME NEW a \in Admins, CreateCertification(a) PROVE log'[c] = log[c]
  BY <1>1, <1>3, CreateStep
<1>4. ASSUME NEW a \in Admins, AppendStatus(a) PROVE log'[c] = log[c] \/ Last(log'[c]).status = "revoked"
  BY <1>1, <1>4, AppendStep
<1>5. CASE UNCHANGED trustVars
  BY <1>5 DEF trustVars
<1> QED
  BY <1>2, <1>3, <1>4, <1>5, Writers

\* Only the walk itself ends in a verdict.
LEMMA OnlyTheWalkAssesses ==
  ASSUME TrustInv, TrustNext, NEW a \in Admins, op'[a].pc = "assessed", op[a].pc = "assess"
  PROVE  AssessNewest(a)
<1>1. op = [b \in Admins |-> op[b]]
  BY DEF TrustInv
<1>2. op'[a] # op[a]
  OBVIOUS
<1>3. ASSUME NEW b \in Admins, NEW y, op' = [op EXCEPT ![b] = y] PROVE b = a /\ op'[a] = y
  BY <1>1, <1>2, <1>3
<1>4. ASSUME NEW b \in Admins, NEW origin \in Origins, Register(b, origin) PROVE FALSE
  BY <1>2, <1>4 DEF Register
<1>5. ASSUME NEW b \in Admins, NEW class \in Classes, Certify(b, class) PROVE FALSE
  BY <1>3, <1>5 DEF Certify
<1>6. ASSUME NEW b \in Admins, BeginCreateCertification(b) PROVE FALSE
  BY <1>1, <1>2, <1>6 DEF BeginCreateCertification
<1>7. ASSUME NEW b \in Admins, SupersedePrior(b) PROVE FALSE
  BY <1>1, <1>2, <1>7 DEF SupersedePrior
<1>8. ASSUME NEW b \in Admins, CreateCertification(b) PROVE FALSE
  BY <1>3, <1>8 DEF CreateCertification
<1>9. ASSUME NEW b \in Admins, NEW c \in Revisions, Revoke(b, c) PROVE FALSE
  BY <1>3, <1>9 DEF Revoke
<1>10. ASSUME NEW b \in Admins, ReadTail(b) PROVE FALSE
  BY <1>3, <1>10 DEF ReadTail
<1>11. ASSUME NEW b \in Admins, AppendStatus(b) PROVE FALSE
  BY <1>3, <1>11 DEF AppendStatus
<1>12. ASSUME NEW b \in Admins, Assess(b) PROVE FALSE
  BY <1>3, <1>12 DEF Assess
<1>13. ASSUME NEW b \in Admins, EndCall(b) PROVE FALSE
  <2>1. op' = [op EXCEPT ![b] = Resting]
    BY <1>13 DEF EndCall
  <2>2. op'[a] = Resting
    BY <1>3, <2>1
  <2> QED
    BY <2>2 DEF Resting
<1>14. ASSUME NEW c \in Revisions, Lapse(c) PROVE FALSE
  BY <1>2, <1>14 DEF Lapse
<1>15. ASSUME NEW b \in Admins, AssessNewest(b) PROVE b = a
  BY <1>2, <1>15, AssessNewestStep
<1> QED
  BY <1>4, <1>5, <1>6, <1>7, <1>8, <1>9, <1>10, <1>11, <1>12, <1>13, <1>14, <1>15 DEF TrustNext

\* A verdict names the one revision active at that moment.
LEMMA AssessedIsActive ==
  ASSUME TrustInv, TrustNext, NEW a \in Admins, op'[a].pc = "assessed", op[a].pc = "assess",
         NEW c, c = op'[a].cert
  PROVE  /\ \A d \in DOMAIN certs : Active(d) <=> d = c
         /\ op'[a].connectors => ~IsAstraClawOrigin(certs[c].origin)
         /\ certs[c].class = "first_party_trusted" => certs[c].registered
<1>1. Verdict(a)
  BY OnlyTheWalkAssesses, AssessNewestStep
<1>2. c \in 1..Len(certs) /\ Active(c) /\ (op'[a].connectors => ~IsAstraClawOrigin(certs[c].origin))
  BY <1>1 DEF Verdict
<1> QED
  BY <1>2 DEF TrustInv, LogFacts, FirstParty

-----------------------------------------------------------------------------
\* The invariant that the row locks and the product lock uphold
\* (CreateCertification and appendStatusOnce of postgres.go).
THEOREM TrustInvariant == TrustSpec => []TrustInv
<1>1. TrustInit => TrustInv
  BY TrustInitInv
<1>2. TrustInv /\ [TrustNext]_trustVars => TrustInv'
  BY TrustNextInv
<1> QED
  BY <1>1, <1>2, PTL DEF TrustSpec

\* For any number of callers and revisions, the status log of a revision never
\* forks and at most one revision is active (CreateCertification, AppendStatus).
THEOREM OneActiveRevision == TrustSpec => []OneActiveOnLinearLogs
<1>1. TrustInv => OneActiveOnLinearLogs
  <2> SUFFICES ASSUME TrustInv PROVE OneActiveOnLinearLogs
    OBVIOUS
  <2>1. DOMAIN log = 1..Len(certs) /\ DOMAIN certs = 1..Len(certs)
    BY DEF TrustInv, LogFacts
  <2>2. \A c \in 1..Len(certs) : DOMAIN log[c] = 1..Len(log[c])
    BY DEF TrustInv, LogFacts, Linear
  <2>3. \A c \in DOMAIN log : \A i \in DOMAIN log[c] : log[c][i].prev = i - 1
    BY <2>1, <2>2 DEF TrustInv, LogFacts, Linear
  <2>4. \A c, d \in DOMAIN certs : Active(c) /\ Active(d) => c = d
    BY <2>1 DEF TrustInv, LogFacts
  <2> QED
    BY <2>1, <2>3, <2>4 DEF OneActiveOnLinearLogs
<1> QED
  BY <1>1, TrustInvariant, PTL

\* Revocation is final, and an assessment names the one revision that is active
\* when it is made, never an origin frozen as an assistant's with connectors
\* open (activeCertification, SupersedePrior).
THEOREM TrustIsTakenFromTheLog == TrustSpec => TrustFollowsTheLog
<1>1. TrustInv /\ [TrustNext]_trustVars =>
        [\A c \in DOMAIN log : Last(log[c]).status = "revoked" => Last(log'[c]).status = "revoked"]_trustVars
  BY RevokedKept
<1>2. TrustInv /\ [TrustNext]_trustVars =>
        [\A a \in Admins : op'[a].pc = "assessed" /\ op[a].pc = "assess" =>
           LET c == op'[a].cert IN
           /\ \A d \in DOMAIN certs : Active(d) <=> d = c
           /\ op'[a].connectors => ~IsAstraClawOrigin(certs[c].origin)
           /\ certs[c].class = "first_party_trusted" => certs[c].registered]_trustVars
  BY AssessedIsActive
<1>3. TrustSpec => RevokedIsFinal
  BY <1>1, TrustInvariant, PTL DEF TrustSpec, RevokedIsFinal
<1>4. TrustSpec => AssessedIsTheActive
  BY <1>2, TrustInvariant, PTL DEF TrustSpec, AssessedIsTheActive
<1> QED
  BY <1>3, <1>4 DEF TrustFollowsTheLog

-----------------------------------------------------------------------------
(* Browser sessions                                                          *)

SessionRows == [browser : Browsers, revoked : BOOLEAN, idle : Nat, absolute : Nat]

\* When a session was opened, by the clock of the request that opened it.
Opened(s) == sessions[s].absolute - AbsoluteTimeout

\* A session lives for IdleTimeout at least, and its name is no pending login's.
SessionFacts(s) ==
  /\ sessions[s] \in SessionRows /\ s \in States \ DOMAIN attempts
  /\ Opened(s) <= clock /\ Opened(s) + IdleTimeout <= sessions[s].idle

RowFacts ==
  /\ DOMAIN attempts \subseteq States
  /\ sessions = [s \in DOMAIN sessions |-> sessions[s]] /\ \A s \in DOMAIN sessions : SessionFacts(s)
  /\ codes = [c \in DOMAIN codes |-> codes[c]] /\ DOMAIN codes \subseteq Codes
  /\ \A c \in DOMAIN codes :
       codes[c] \in [session : DOMAIN sessions, browser : Browsers, expires : Nat, consumed : BOOLEAN]
  /\ DOMAIN tokens \subseteq DOMAIN codes
  /\ tokens = [c \in DOMAIN tokens |->
                 [session |-> codes[c].session, expires |-> sessions[codes[c].session].absolute]]
  /\ cookie \in [Browsers -> DOMAIN sessions \cup {NoOne}]

\* What the answers and the audit trail say of the rows.
AnswerFacts ==
  /\ CookieIsOwnAndAudited /\ ServedIsUnrevoked
  /\ \A s \in States : <<"signed out", s>> \in answers \/ <<"abandoned", s>> \in answers =>
       s \in DOMAIN sessions /\ Dead(s)
  /\ \A c \in Codes : <<"token signed out", c>> \in answers =>
       /\ c \in DOMAIN tokens /\ Dead(tokens[c].session)
       /\ <<"token logout", c>> \in auditTrail \/ tokens[c].expires <= clock

\* A record with the fields of a request.
Shaped(q) ==
  q = [pc |-> q.pc, kind |-> q.kind, browser |-> q.browser, state |-> q.state, code |-> q.code,
       since |-> q.since, now |-> q.now, owner |-> q.owner, scopeSum |-> q.scopeSum, browserSum |-> q.browserSum]

\* A request sees at most one tick.
Timely(q) ==
  /\ q.since \in Nat /\ q.now \in Nat /\ q.since <= q.now /\ q.now <= clock /\ clock <= q.since + 1
  /\ q.browser \in Browsers

Holding == {"resolve", "issue", "code", "audit", "clean", "clean again", "revoke",
            "lookup", "slide", "token revoke", "token audit"}

\* What a request that looks for a session may be for.
Browsing == {"authorize", "me", "logout"}

\* What a request knows of the rows it has read.
RequestFacts(r) ==
  LET q == req[r] IN
  /\ q.pc # "idle" => Shaped(q) /\ Timely(q)
  /\ q.pc \in {"rate", "admitted", "resolve"} => q.kind \in Browsing
  /\ q.pc = "consumed" => q.state \in States \ (DOMAIN attempts \cup DOMAIN sessions) /\ q.owner = q.browser
  /\ q.pc \in Holding => q.state \in DOMAIN sessions /\ Opened(q.state) <= q.now
  /\ q.pc \in {"audit", "clean", "clean again"} \/ (q.pc \in {"issue", "code"} /\ q.kind = "callback") =>
       sessions[q.state].browser = q.browser /\ q.since <= Opened(q.state)
  /\ q.pc = "revoke" \/ (q.pc = "token revoke" /\ q.kind # "retry") =>
       q.now < sessions[q.state].idle \/ sessions[q.state].idle = sessions[q.state].absolute
  /\ q.pc = "exchange" => q.code \in DOMAIN codes
  /\ q.pc \in {"lookup", "slide", "token revoke", "token audit"} =>
       q.code \in DOMAIN tokens /\ tokens[q.code].session = q.state
  /\ q.pc = "token audit" => sessions[q.state].revoked

SessionInv ==
  /\ clock \in Nat /\ RowFacts /\ AnswerFacts
  /\ req = [r \in Requests |-> req[r]] /\ \A r \in Requests : RequestFacts(r)
  /\ \A q, r \in Requests : req[q].pc = "consumed" /\ req[r].pc = "consumed" /\ req[q].state = req[r].state => q = r

-----------------------------------------------------------------------------
\* The record of one request is replaced.
Becomes(r) ==
  req' = [q \in Requests |-> req'[q]] /\ \A q \in Requests \ {r} : req'[q] = req[q]

\* How the rows may change beside a request that has read them: nothing a
\* session promised is taken back, and a slide reaches past the clock.
RowsEvolve ==
  /\ DOMAIN sessions \subseteq DOMAIN sessions'
  /\ \A s \in DOMAIN sessions :
       /\ sessions'[s].browser = sessions[s].browser /\ sessions'[s].absolute = sessions[s].absolute
       /\ sessions[s].revoked => sessions'[s].revoked
       /\ \/ sessions'[s].idle = sessions[s].idle \/ sessions'[s].idle = sessions[s].absolute
          \/ sessions'[s].idle \in Nat /\ clock < sessions'[s].idle
  /\ DOMAIN codes \subseteq DOMAIN codes'
  /\ \A c \in DOMAIN tokens : c \in DOMAIN tokens' /\ tokens'[c] = tokens[c]

\* Arithmetic: an instant not after another is before what follows that.
LEMMA Between ==
  ASSUME NEW n \in Nat, NEW t \in Nat, NEW i \in Nat, n <= t, t < i
  PROVE  n < i
OBVIOUS

\* A request that does not move keeps what it knows while rows only evolve.
LEMMA RequestKept ==
  ASSUME NEW q \in Requests, RequestFacts(q), req'[q] = req[q], RowsEvolve, clock' \in Nat, clock \in Nat,
         req[q].pc # "idle" => Timely(req[q])',
         req[q].pc = "consumed" => req[q].state \notin DOMAIN attempts' \cup DOMAIN sessions'
  PROVE  RequestFacts(q)'
<1> DEFINE p == req[q]
<1>1. req'[q] = p
  OBVIOUS
<1>2. p.pc # "idle" => Shaped(p) /\ Timely(req[q])'
  BY DEF RequestFacts
<1>3. p.pc \in {"rate", "admitted", "resolve"} => p.kind \in Browsing
  BY DEF RequestFacts
<1>4. p.pc = "consumed" => p.state \in States \ (DOMAIN attempts' \cup DOMAIN sessions') /\ p.owner = p.browser
  BY DEF RequestFacts
<1>5. p.pc \in Holding => p.state \in DOMAIN sessions /\ p.state \in DOMAIN sessions' /\ Opened(p.state) <= p.now
  BY DEF RequestFacts, RowsEvolve
<1>6. \A s \in DOMAIN sessions : sessions'[s].absolute - AbsoluteTimeout = Opened(s)
  BY DEF RowsEvolve, Opened
<1>7. p.pc \in {"audit", "clean", "clean again"} \/ (p.pc \in {"issue", "code"} /\ p.kind = "callback") =>
        sessions'[p.state].browser = p.browser /\ p.since <= sessions'[p.state].absolute - AbsoluteTimeout
  <2> SUFFICES ASSUME p.pc \in {"audit", "clean", "clean again"} \/ (p.pc \in {"issue", "code"} /\ p.kind = "callback")
               PROVE  sessions'[p.state].browser = p.browser /\ p.since <= sessions'[p.state].absolute - AbsoluteTimeout
    OBVIOUS
  <2>1. p.state \in DOMAIN sessions
    BY <1>5 DEF Holding
  <2>2. sessions[p.state].browser = p.browser /\ p.since <= Opened(p.state)
    BY DEF RequestFacts
  <2> QED
    BY <1>6, <2>1, <2>2 DEF RowsEvolve
<1>8. p.pc = "revoke" \/ (p.pc = "token revoke" /\ p.kind # "retry") =>
        p.now < sessions'[p.state].idle \/ sessions'[p.state].idle = sessions'[p.state].absolute
  <2> SUFFICES ASSUME p.pc = "revoke" \/ (p.pc = "token revoke" /\ p.kind # "retry")
               PROVE  p.now < sessions'[p.state].idle \/ sessions'[p.state].idle = sessions'[p.state].absolute
    OBVIOUS
  <2>1. p.state \in DOMAIN sessions
    BY <1>5 DEF Holding
  <2>2. p.now < sessions[p.state].idle \/ sessions[p.state].idle = sessions[p.state].absolute
    BY DEF RequestFacts
  <2>3. p.now \in Nat /\ p.now <= clock
    BY DEF RequestFacts, Timely
  <2>4. CASE sessions'[p.state].idle = sessions[p.state].idle
    BY <2>1, <2>2, <2>4 DEF RowsEvolve
  <2>5. CASE sessions'[p.state].idle = sessions[p.state].absolute
    BY <2>1, <2>5 DEF RowsEvolve
  <2>6. CASE sessions'[p.state].idle \in Nat /\ clock < sessions'[p.state].idle
    <3>1. PICK i, n : i = sessions'[p.state].idle /\ n = p.now
      OBVIOUS
    <3>2. i \in Nat /\ clock < i /\ n \in Nat /\ n <= clock /\ clock \in Nat
      BY <2>3, <2>6, <3>1
    <3>3. n < i
      BY <3>2, Between
    <3> QED
      BY <3>1, <3>3
  <2> QED
    BY <2>1, <2>4, <2>5, <2>6 DEF RowsEvolve
<1>9. p.pc = "exchange" => p.code \in DOMAIN codes'
  BY DEF RequestFacts, RowsEvolve
<1>10. p.pc \in {"lookup", "slide", "token revoke", "token audit"} =>
         p.code \in DOMAIN tokens' /\ tokens'[p.code].session = p.state
  BY DEF RequestFacts, RowsEvolve
<1>11. p.pc = "token audit" => sessions'[p.state].revoked
  BY <1>5 DEF RequestFacts, RowsEvolve, Holding
<1>12. p.pc \in Holding => p.state \in DOMAIN sessions' /\ sessions'[p.state].absolute - AbsoluteTimeout <= p.now
  BY <1>5, <1>6
<1> HIDE DEF p
<1> QED
  BY <1>1, <1>2, <1>3, <1>4, <1>7, <1>8, <1>9, <1>10, <1>11, <1>12 DEF RequestFacts, Opened

\* A token is its code's session, for as long as that lives.
LEMMA TokenFacts ==
  ASSUME RowFacts, NEW c \in DOMAIN tokens
  PROVE  /\ tokens[c].session \in DOMAIN sessions /\ tokens[c].expires = sessions[tokens[c].session].absolute
         /\ c \in DOMAIN codes /\ codes[c].browser \in Browsers /\ c \in Codes
BY DEF RowFacts

\* One request moves on; what the others know still holds.
LEMMA RequestStep ==
  ASSUME SessionInv, NEW r \in Requests, Becomes(r), clock' = clock, RowsEvolve, RowFacts', AnswerFacts',
         RequestFacts(r)',
         \A q \in Requests \ {r} : req[q].pc = "consumed" =>
           req[q].state \notin DOMAIN attempts' \cup DOMAIN sessions',
         req'[r].pc = "consumed" =>
           \A q \in Requests \ {r} : req[q].pc = "consumed" => req[q].state # req'[r].state
  PROVE  SessionInv'
<1>1. clock \in Nat
  BY DEF SessionInv
<1>2. ASSUME NEW q \in Requests \ {r} PROVE RequestFacts(q)'
  <2>1. RequestFacts(q) /\ req'[q] = req[q]
    BY DEF SessionInv, Becomes
  <2>2. req[q].pc # "idle" => Timely(req[q])'
    BY <2>1 DEF RequestFacts, Timely
  <2> QED
    BY <1>1, <2>1, <2>2, RequestKept
<1>3. \A q \in Requests \ {r} : req'[q] = req[q]
  BY DEF Becomes
<1>4. \A p, q \in Requests :
        req'[p].pc = "consumed" /\ req'[q].pc = "consumed" /\ req'[p].state = req'[q].state => p = q
  BY <1>3 DEF SessionInv
<1>5. req' = [q \in Requests |-> req'[q]]
  BY DEF Becomes
<1> QED
  BY <1>1, <1>2, <1>4, <1>5 DEF SessionInv

\* Nothing but the request's own record changes.
LEMMA QuietRequest ==
  ASSUME SessionInv, NEW r \in Requests, Becomes(r), RequestFacts(r)', req'[r].pc # "consumed",
         UNCHANGED <<clock, attempts, sessions, codes, tokens, cookie, auditTrail, answers>>
  PROVE  SessionInv'
<1>1. RowsEvolve
  BY DEF RowsEvolve
<1>2. RowFacts'
  BY DEF SessionInv, RowFacts, SessionFacts, Opened
<1>3. AnswerFacts'
  BY DEF SessionInv, AnswerFacts, CookieIsOwnAndAudited, ServedIsUnrevoked, Dead
<1>4. \A q \in Requests \ {r} : req[q].pc = "consumed" =>
        req[q].state \notin DOMAIN attempts' \cup DOMAIN sessions'
  BY DEF SessionInv, RequestFacts
<1> QED
  BY <1>1, <1>2, <1>3, <1>4, RequestStep

\* A request that was answered is over.
LEMMA Answered ==
  ASSUME SessionInv, NEW r \in Requests, req' = Answer(r)
  PROVE  Becomes(r) /\ req'[r].pc = "idle" /\ RequestFacts(r)'
<1>1. req = [q \in Requests |-> req[q]]
  BY DEF SessionInv
<1>2. Becomes(r) /\ req'[r] = Idle
  BY <1>1 DEF Becomes, Answer
<1> QED
  BY <1>2 DEF RequestFacts, Idle, Holding

\* What Advance carries over.
Carried(r) ==
  /\ Shaped(req'[r]) /\ req'[r].kind = req[r].kind /\ req'[r].browser = req[r].browser
  /\ req'[r].code = req[r].code /\ req'[r].since = req[r].since

\* A request moves to its next step and keeps what it carries.
LEMMA Advanced ==
  ASSUME SessionInv, NEW r \in Requests, req[r].pc # "idle", NEW pc, req' = Advance(r, pc), clock' = clock
  PROVE  /\ Becomes(r) /\ Carried(r) /\ req'[r].pc = pc /\ req'[r].now = clock
         /\ req'[r].state = req[r].state /\ req'[r].owner = req[r].owner /\ Timely(req[r])'
<1>1. req = [q \in Requests |-> req[q]] /\ RequestFacts(r) /\ clock \in Nat
  BY DEF SessionInv
<1>2. PICK p : p = req[r]
  OBVIOUS
<1>3. Shaped(p) /\ Timely(p)
  BY <1>1, <1>2 DEF RequestFacts
<1>4. PICK y : y = [p EXCEPT !.pc = pc, !.now = clock]
  OBVIOUS
<1>5. y = [pc |-> pc, kind |-> p.kind, browser |-> p.browser, state |-> p.state, code |-> p.code, since |-> p.since,
           now |-> clock, owner |-> p.owner, scopeSum |-> p.scopeSum, browserSum |-> p.browserSum]
  BY <1>3, <1>4 DEF Shaped
<1>6. /\ Shaped(y) /\ y.pc = pc /\ y.now = clock /\ y.kind = p.kind /\ y.browser = p.browser /\ y.state = p.state
      /\ y.code = p.code /\ y.since = p.since /\ y.owner = p.owner
  BY <1>5 DEF Shaped
<1>7. Becomes(r) /\ req'[r] = y
  BY <1>1, <1>2, <1>4 DEF Becomes, Advance
<1>8. Timely(req[r])'
  BY <1>1, <1>3, <1>6, <1>7 DEF Timely
<1> QED
  BY <1>2, <1>6, <1>7, <1>8 DEF Carried

\* A request begins, with the fields of its kind.
LEMMA Begun ==
  ASSUME SessionInv, NEW r \in Requests, NEW pc, NEW kind, NEW b \in Browsers, NEW s, NEW c,
         Begin(r, pc, kind, b, s, c), clock' = clock
  PROVE  /\ Becomes(r) /\ Shaped(req'[r]) /\ Timely(req[r])'
         /\ req'[r].pc = pc /\ req'[r].kind = kind /\ req'[r].browser = b /\ req'[r].state = s
         /\ req'[r].code = c /\ req'[r].now = clock /\ req'[r].since = clock
<1>1. req = [q \in Requests |-> req[q]] /\ clock \in Nat
  BY DEF SessionInv
<1> DEFINE y == [pc |-> pc, kind |-> kind, browser |-> b, state |-> s, code |-> c,
                 since |-> clock, now |-> clock, owner |-> NoOne, scopeSum |-> 0, browserSum |-> 0]
<1>2. /\ Shaped(y) /\ y.pc = pc /\ y.now = clock /\ y.kind = kind /\ y.browser = b /\ y.state = s
      /\ y.code = c /\ y.since = clock
  BY DEF Shaped
<1>3. req' = [req EXCEPT ![r] = y]
  BY DEF Begin
<1> HIDE DEF y
<1>4. Becomes(r) /\ req'[r] = y
  BY <1>1, <1>3 DEF Becomes
<1>5. Timely(req[r])'
  BY <1>1, <1>2, <1>4 DEF Timely
<1> QED
  BY <1>2, <1>4, <1>5

-----------------------------------------------------------------------------
(* The steps that change no row                                              *)

RowsStay == UNCHANGED <<clock, attempts, sessions, codes, tokens, cookie, auditTrail, answers>>

\* Steps that leave the tables alone leave every row as it is.
LEMMA Staying ==
  ASSUME UNCHANGED <<loginRest, sessionVars>>
  PROVE  RowsStay
BY DEF RowsStay, loginRest, attemptVars, sessionVars

\* Answering, whatever the request was doing.
LEMMA AnswerStep ==
  ASSUME SessionInv, NEW r \in Requests, req' = Answer(r), RowsStay
  PROVE  SessionInv'
BY Answered, QuietRequest DEF RowsStay

\* A browser presents the cookie it has.
LEMMA PresentCookieStep ==
  ASSUME SessionInv, NEW r \in Requests, NEW b \in Browsers, NEW kind \in {"me", "logout"}, PresentCookie(r, b, kind)
  PROVE  SessionInv'
<1>1. Begin(r, "resolve", kind, b, cookie[b], NoOne) /\ RowsStay /\ cookie[b] # NoOne
  BY Staying DEF PresentCookie
<1>2. clock' = clock
  BY <1>1 DEF RowsStay
<1>3. cookie[b] \in DOMAIN sessions /\ Opened(cookie[b]) <= clock
  BY <1>1 DEF SessionInv, RowFacts, SessionFacts
<1>4. /\ Becomes(r) /\ Shaped(req'[r]) /\ Timely(req[r])'
      /\ req'[r].pc = "resolve" /\ req'[r].kind = kind /\ req'[r].state = cookie[b] /\ req'[r].now = clock
  BY <1>1, <1>2, Begun
<1>5. RequestFacts(r)'
  BY <1>1, <1>3, <1>4 DEF RequestFacts, RowsStay, Opened, Browsing
<1> QED
  BY <1>1, <1>4, <1>5, QuietRequest DEF RowsStay

\* An authorization goes on with the session of the cookie.
LEMMA AuthorizeWithCookieStep ==
  ASSUME SessionInv, NEW r \in Requests, AuthorizeWithCookie(r)
  PROVE  SessionInv'
<1>1. PICK b : b = req[r].browser
  OBVIOUS
<1>2. /\ req[r].pc = "admitted" /\ cookie[b] # NoOne /\ RowsStay
      /\ req' = [Advance(r, "resolve") EXCEPT ![r].state = cookie[b]]
  BY <1>1, Staying DEF AuthorizeWithCookie
<1>3. clock' = clock
  BY <1>2 DEF RowsStay
<1>4. req = [q \in Requests |-> req[q]] /\ RequestFacts(r) /\ clock \in Nat
  BY DEF SessionInv
<1>5. PICK p : p = req[r]
  OBVIOUS
<1>6. Shaped(p) /\ Timely(p) /\ b \in Browsers /\ p.kind \in Browsing
  BY <1>1, <1>2, <1>4, <1>5 DEF RequestFacts, Timely
<1>7. cookie[b] \in DOMAIN sessions /\ Opened(cookie[b]) <= clock
  BY <1>2, <1>6 DEF SessionInv, RowFacts, SessionFacts
<1>8. PICK y : y = [p EXCEPT !.pc = "resolve", !.now = clock, !.state = cookie[b]]
  OBVIOUS
<1>9. y = [pc |-> "resolve", kind |-> p.kind, browser |-> p.browser, state |-> cookie[b], code |-> p.code,
           since |-> p.since, now |-> clock, owner |-> p.owner, scopeSum |-> p.scopeSum, browserSum |-> p.browserSum]
  BY <1>6, <1>8 DEF Shaped
<1>10. /\ Shaped(y) /\ y.pc = "resolve" /\ y.now = clock /\ y.kind = p.kind /\ y.browser = p.browser
       /\ y.state = cookie[b] /\ y.since = p.since
  BY <1>9 DEF Shaped
<1>11. Becomes(r) /\ req'[r] = y
  BY <1>2, <1>4, <1>5, <1>8 DEF Becomes, Advance
<1>12. Timely(req[r])'
  BY <1>3, <1>4, <1>6, <1>10, <1>11 DEF Timely
<1>13. RequestFacts(r)'
  BY <1>2, <1>6, <1>7, <1>10, <1>11, <1>12 DEF RequestFacts, RowsStay, Opened, Browsing
<1> QED
  BY <1>2, <1>10, <1>11, <1>13, QuietRequest DEF RowsStay

\* A client presents a code.
LEMMA StartExchangeStep ==
  ASSUME SessionInv, NEW r \in Requests, NEW b \in Browsers, NEW c \in Codes, StartExchange(r, b, c)
  PROVE  SessionInv'
<1>1. Begin(r, "exchange", "token", b, NoOne, c) /\ RowsStay /\ c \in DOMAIN codes
  BY Staying DEF StartExchange
<1>2. clock' = clock
  BY <1>1 DEF RowsStay
<1>3. Becomes(r) /\ Shaped(req'[r]) /\ Timely(req[r])' /\ req'[r].pc = "exchange" /\ req'[r].code = c
  BY <1>1, <1>2, Begun
<1>4. RequestFacts(r)'
  BY <1>1, <1>3 DEF RequestFacts, RowsStay, Holding
<1> QED
  BY <1>1, <1>3, <1>4, QuietRequest DEF RowsStay

\* A client presents an access token.
LEMMA PresentTokenStep ==
  ASSUME SessionInv, NEW r \in Requests, NEW c \in Codes, NEW kind \in {"me", "logout"}, PresentToken(r, c, kind)
  PROVE  SessionInv'
<1>1. /\ Begin(r, "lookup", kind, codes[c].browser, tokens[c].session, c) /\ RowsStay
      /\ c \in DOMAIN tokens
  BY Staying DEF PresentToken
<1>2. clock' = clock
  BY <1>1 DEF RowsStay
<1>3. codes[c].browser \in Browsers /\ tokens[c].session \in DOMAIN sessions /\ Opened(tokens[c].session) <= clock
  BY <1>1, TokenFacts DEF SessionInv, RowFacts, SessionFacts
<1>4. /\ Becomes(r) /\ Shaped(req'[r]) /\ Timely(req[r])' /\ req'[r].pc = "lookup" /\ req'[r].code = c
      /\ req'[r].state = tokens[c].session /\ req'[r].now = clock
  BY <1>1, <1>2, <1>3, Begun
<1>5. RequestFacts(r)'
  BY <1>1, <1>3, <1>4 DEF RequestFacts, RowsStay, Opened, Browsing
<1> QED
  BY <1>1, <1>4, <1>5, QuietRequest DEF RowsStay

\* The unlocked read finds the token and its session active.
LEMMA LookupStep ==
  ASSUME SessionInv, NEW r \in Requests, GetActiveBrowserAccessToken(r)
  PROVE  SessionInv'
<1>1. req[r].pc = "lookup" /\ RowsStay /\ req' = [req EXCEPT ![r].pc = "slide"]
  BY Staying DEF GetActiveBrowserAccessToken
<1>2. req = [q \in Requests |-> req[q]] /\ RequestFacts(r) /\ clock' = clock
  BY <1>1 DEF SessionInv, RowsStay
<1>3. PICK p : p = req[r]
  OBVIOUS
<1>4. /\ Shaped(p) /\ Timely(p) /\ p.state \in DOMAIN sessions /\ Opened(p.state) <= p.now
      /\ p.code \in DOMAIN tokens /\ tokens[p.code].session = p.state
  BY <1>1, <1>2, <1>3 DEF RequestFacts, Holding
<1>5. PICK y : y = [p EXCEPT !.pc = "slide"]
  OBVIOUS
<1>6. y = [pc |-> "slide", kind |-> p.kind, browser |-> p.browser, state |-> p.state, code |-> p.code, since |-> p.since,
           now |-> p.now, owner |-> p.owner, scopeSum |-> p.scopeSum, browserSum |-> p.browserSum]
  BY <1>4, <1>5 DEF Shaped
<1>7. /\ Shaped(y) /\ y.pc = "slide" /\ y.now = p.now /\ y.browser = p.browser /\ y.state = p.state
      /\ y.code = p.code /\ y.since = p.since
  BY <1>6 DEF Shaped
<1>8. Becomes(r) /\ req'[r] = y
  BY <1>1, <1>2, <1>3, <1>5 DEF Becomes
<1>9. Timely(req[r])'
  BY <1>2, <1>4, <1>7, <1>8 DEF Timely
<1>10. RequestFacts(r)'
  BY <1>1, <1>4, <1>7, <1>8, <1>9 DEF RequestFacts, RowsStay, Opened, Browsing
<1> QED
  BY <1>1, <1>7, <1>8, <1>10, QuietRequest DEF RowsStay

\* A request that reads the clock is timely by what it read.
LEMMA TimelyNow ==
  ASSUME NEW r, NEW p, NEW y, Timely(p), clock \in Nat, clock' = clock,
         y.since = p.since, y.browser = p.browser, y.now = clock, req'[r] = y
  PROVE  Timely(req[r])'
BY DEF Timely

\* A rejected logout goes on to its retry, which answers nothing.
LEMMA TokenRejectedStep ==
  ASSUME SessionInv, NEW r \in Requests, TokenRejected(r)
  PROVE  SessionInv'
<1>1. req[r].pc \in {"lookup", "slide"} /\ RowsStay
  BY Staying DEF TokenRejected
<1>2. CASE req' = Answer(r)
  BY <1>1, <1>2, AnswerStep
<1>3. CASE req' = [Advance(r, "token revoke") EXCEPT ![r].kind = "retry"]
  <2>1. req = [q \in Requests |-> req[q]] /\ RequestFacts(r) /\ clock' = clock /\ clock \in Nat
    BY <1>1 DEF SessionInv, RowsStay
  <2>2. PICK p : p = req[r]
    OBVIOUS
  <2>3. /\ Shaped(p) /\ Timely(p) /\ p.state \in DOMAIN sessions /\ Opened(p.state) <= clock
        /\ p.code \in DOMAIN tokens /\ tokens[p.code].session = p.state
    BY <1>1, <2>1, <2>2 DEF RequestFacts, Holding, SessionInv, RowFacts, SessionFacts
  <2>4. PICK y : y = [p EXCEPT !.pc = "token revoke", !.now = clock, !.kind = "retry"]
    OBVIOUS
  <2>5. y = [pc |-> "token revoke", kind |-> "retry", browser |-> p.browser, state |-> p.state, code |-> p.code,
             since |-> p.since, now |-> clock, owner |-> p.owner, scopeSum |-> p.scopeSum, browserSum |-> p.browserSum]
    BY <2>3, <2>4 DEF Shaped
  <2>6. /\ Shaped(y) /\ y.pc = "token revoke" /\ y.kind = "retry" /\ y.now = clock /\ y.browser = p.browser
        /\ y.state = p.state /\ y.code = p.code /\ y.since = p.since
    BY <2>5 DEF Shaped
  <2>7. Becomes(r) /\ req'[r] = y
    BY <1>3, <2>1, <2>2, <2>4 DEF Becomes, Advance
  <2>8. Timely(req[r])'
    BY <2>1, <2>3, <2>6, <2>7, TimelyNow
  <2>9. RequestFacts(r)'
    BY <1>1, <2>3, <2>6, <2>7, <2>8 DEF RequestFacts, RowsStay, Opened, Browsing
  <2> QED
    BY <1>1, <2>6, <2>7, <2>9, QuietRequest DEF RowsStay
<1> QED
  BY <1>2, <1>3 DEF TokenRejected, Stop

\* A callback fails after its attempt was consumed.
LEMMA CallbackFailsStep ==
  ASSUME SessionInv, NEW r \in Requests, CallbackFails(r)
  PROVE  SessionInv'
<1>1. req[r].pc \in {"issue", "code", "audit"} /\ req[r].kind = "callback" /\ req' = Advance(r, "clean") /\ RowsStay
  BY Staying DEF CallbackFails
<1>2. clock' = clock /\ req[r].pc # "idle"
  BY <1>1 DEF RowsStay
<1>3. /\ Becomes(r) /\ Carried(r) /\ req'[r].pc = "clean" /\ req'[r].now = clock /\ req'[r].state = req[r].state
      /\ Timely(req[r])'
  BY <1>1, <1>2, Advanced
<1>4. /\ req[r].state \in DOMAIN sessions /\ Opened(req[r].state) <= clock
      /\ sessions[req[r].state].browser = req[r].browser /\ req[r].since <= Opened(req[r].state)
  BY <1>1 DEF SessionInv, RequestFacts, Holding, RowFacts, SessionFacts
<1>5. RequestFacts(r)'
  BY <1>1, <1>3, <1>4 DEF RequestFacts, RowsStay, Carried, Opened
<1> QED
  BY <1>1, <1>3, <1>5, QuietRequest DEF RowsStay

\* The store cannot clean up, and the session is left to expire.
LEMMA CleanUpUnavailableStep ==
  ASSUME SessionInv, NEW r \in Requests, CleanUpUnavailable(r)
  PROVE  SessionInv'
<1>1. req[r].pc \in {"clean", "clean again"} /\ RowsStay
  BY Staying DEF CleanUpUnavailable
<1>2. CASE req' = Answer(r)
  BY <1>1, <1>2, AnswerStep
<1>3. CASE req' = Advance(r, "clean again")
  <2>1. clock' = clock /\ req[r].pc # "idle"
    BY <1>1 DEF RowsStay
  <2>2. /\ Becomes(r) /\ Carried(r) /\ req'[r].pc = "clean again" /\ req'[r].now = clock
        /\ req'[r].state = req[r].state /\ Timely(req[r])'
    BY <1>3, <2>1, Advanced
  <2>3. /\ req[r].state \in DOMAIN sessions /\ Opened(req[r].state) <= clock
        /\ sessions[req[r].state].browser = req[r].browser /\ req[r].since <= Opened(req[r].state)
    BY <1>1 DEF SessionInv, RequestFacts, Holding, RowFacts, SessionFacts
  <2>4. RequestFacts(r)'
    BY <1>1, <2>2, <2>3 DEF RequestFacts, RowsStay, Carried, Opened
  <2> QED
    BY <1>1, <2>2, <2>4, QuietRequest DEF RowsStay
<1> QED
  BY <1>2, <1>3 DEF CleanUpUnavailable, Stop

\* A request of a session dies or is answered.
LEMMA GiveUpSessionStep ==
  ASSUME SessionInv, NEW r \in Requests, GiveUpSession(r)
  PROVE  SessionInv'
BY Staying, AnswerStep DEF GiveUpSession, Stop

-----------------------------------------------------------------------------
(* The steps that change a row                                               *)

\* One session's row is rewritten, to less or to a later idle time.
Rewrites(s, row) ==
  /\ sessions' = [sessions EXCEPT ![s] = row] /\ row \in SessionRows
  /\ row.browser = sessions[s].browser /\ row.absolute = sessions[s].absolute
  /\ sessions[s].revoked => row.revoked
  /\ row.idle = sessions[s].idle \/ row.idle = sessions[s].absolute \/ clock < row.idle
  /\ Opened(s) + IdleTimeout <= row.idle

\* A session row is rewritten as only a slide or a revocation may.
LEMMA RowRewritten ==
  ASSUME SessionInv, NEW s \in DOMAIN sessions, NEW row, Rewrites(s, row),
         UNCHANGED <<clock, attempts, codes, tokens>>, cookie' \in [Browsers -> DOMAIN sessions \cup {NoOne}]
  PROVE  RowsEvolve /\ RowFacts' /\ DOMAIN sessions' = DOMAIN sessions /\ sessions'[s] = row
<1>1. sessions = [t \in DOMAIN sessions |-> sessions[t]] /\ RowFacts
  BY DEF SessionInv, RowFacts
<1>2. /\ sessions' = [t \in DOMAIN sessions |-> sessions'[t]] /\ DOMAIN sessions' = DOMAIN sessions
      /\ sessions'[s] = row /\ \A t \in DOMAIN sessions : t # s => sessions'[t] = sessions[t]
  BY <1>1 DEF Rewrites
<1>3. ASSUME NEW t \in DOMAIN sessions
      PROVE  sessions'[t].browser = sessions[t].browser /\ sessions'[t].absolute = sessions[t].absolute
  BY <1>2 DEF Rewrites
<1>4. row.idle \in Nat
  BY DEF Rewrites, SessionRows
<1>5. ASSUME NEW t \in DOMAIN sessions
      PROVE  /\ sessions[t].revoked => sessions'[t].revoked
             /\ \/ sessions'[t].idle = sessions[t].idle \/ sessions'[t].idle = sessions[t].absolute
                \/ sessions'[t].idle \in Nat /\ clock < sessions'[t].idle
  <2>1. CASE t = s
    BY <1>2, <1>4, <2>1 DEF Rewrites
  <2>2. CASE t # s
    BY <1>2, <2>2
  <2> QED
    BY <2>1, <2>2
<1>6. RowsEvolve
  BY <1>2, <1>3, <1>5 DEF RowsEvolve
<1>7. ASSUME NEW t \in DOMAIN sessions PROVE SessionFacts(t)'
  <2>1. SessionFacts(t)
    BY <1>1 DEF RowFacts
  <2>2. CASE t = s
    BY <1>2, <2>1, <2>2 DEF SessionFacts, Opened, Rewrites
  <2>3. CASE t # s
    BY <1>2, <2>1, <2>3 DEF SessionFacts, Opened
  <2> QED
    BY <2>2, <2>3
<1>8. tokens' = [c \in DOMAIN tokens' |->
                  [session |-> codes'[c].session, expires |-> sessions'[codes'[c].session].absolute]]
  BY <1>1, <1>3 DEF RowFacts
<1>9. RowFacts'
  <2>1. /\ DOMAIN attempts' \subseteq States /\ codes' = [c \in DOMAIN codes' |-> codes'[c]]
        /\ DOMAIN codes' \subseteq Codes /\ DOMAIN tokens' \subseteq DOMAIN codes'
    BY <1>1 DEF RowFacts
  <2>2. \A c \in DOMAIN codes' :
          codes'[c] \in [session : DOMAIN sessions', browser : Browsers, expires : Nat, consumed : BOOLEAN]
    BY <1>1, <1>2 DEF RowFacts
  <2> QED
    BY <1>2, <1>7, <1>8, <2>1, <2>2 DEF RowFacts
<1> QED
  BY <1>2, <1>6, <1>9

\* The answers and the audit trail only grow, and what is new in them is true.
LEMMA AnswersKept ==
  ASSUME SessionInv, RowsEvolve, clock' = clock, auditTrail \subseteq auditTrail',
         cookie' \in [Browsers -> DOMAIN sessions' \cup {NoOne}],
         \A b \in Browsers : \/ cookie'[b] \in {cookie[b], NoOne}
                             \/ sessions'[cookie'[b]].browser = b /\ <<"create", cookie'[b]>> \in auditTrail',
         \A s \in States : <<"served revoked", s>> \in answers' => <<"served revoked", s>> \in answers,
         \A s \in States : \/ <<"signed out", s>> \in answers' => <<"signed out", s>> \in answers
                           \/ s \in DOMAIN sessions' /\ Dead(s)',
         \A s \in States : \/ <<"abandoned", s>> \in answers' => <<"abandoned", s>> \in answers
                           \/ s \in DOMAIN sessions' /\ Dead(s)',
         \A c \in Codes : \/ <<"token signed out", c>> \in answers' => <<"token signed out", c>> \in answers
                          \/ /\ c \in DOMAIN tokens' /\ Dead(tokens[c].session)'
                             /\ <<"token logout", c>> \in auditTrail' \/ tokens'[c].expires <= clock
  PROVE  AnswerFacts'
<1>1. AnswerFacts /\ RowFacts
  BY DEF SessionInv
<1>2. ASSUME NEW s \in DOMAIN sessions, Dead(s) PROVE s \in DOMAIN sessions' /\ Dead(s)'
  BY <1>2 DEF RowsEvolve, Dead
<1>3. CookieIsOwnAndAudited'
  <2> SUFFICES ASSUME NEW b \in Browsers, cookie'[b] # NoOne
               PROVE  sessions'[cookie'[b]].browser = b /\ <<"create", cookie'[b]>> \in auditTrail'
    BY DEF CookieIsOwnAndAudited
  <2>1. CASE cookie'[b] = cookie[b]
    <3>1. cookie[b] \in DOMAIN sessions
      BY <1>1, <2>1 DEF RowFacts
    <3>2. sessions[cookie[b]].browser = b /\ <<"create", cookie[b]>> \in auditTrail
      BY <1>1, <2>1 DEF AnswerFacts, CookieIsOwnAndAudited
    <3> QED
      BY <2>1, <3>1, <3>2 DEF RowsEvolve
  <2> QED
    BY <2>1
<1>4. ServedIsUnrevoked'
  BY <1>1 DEF AnswerFacts, ServedIsUnrevoked
<1>5. ASSUME NEW s \in States, <<"signed out", s>> \in answers' \/ <<"abandoned", s>> \in answers'
      PROVE  s \in DOMAIN sessions' /\ Dead(s)'
  BY <1>1, <1>2, <1>5 DEF AnswerFacts
<1>6. ASSUME NEW c \in Codes, <<"token signed out", c>> \in answers'
      PROVE  /\ c \in DOMAIN tokens' /\ Dead(tokens[c].session)'
             /\ <<"token logout", c>> \in auditTrail' \/ tokens'[c].expires <= clock'
  <2>1. CASE <<"token signed out", c>> \in answers
    <3>1. /\ c \in DOMAIN tokens /\ Dead(tokens[c].session)
          /\ <<"token logout", c>> \in auditTrail \/ tokens[c].expires <= clock
      BY <1>1, <2>1 DEF AnswerFacts
    <3>2. tokens[c].session \in DOMAIN sessions /\ c \in DOMAIN tokens' /\ tokens'[c] = tokens[c]
      BY <1>1, <3>1, TokenFacts DEF RowsEvolve
    <3>3. sessions'[tokens[c].session].revoked \/ sessions'[tokens[c].session].absolute =< clock
      BY <3>1, <3>2 DEF RowsEvolve, Dead
    <3>4. Dead(tokens[c].session)'
      BY <3>2, <3>3 DEF Dead
    <3> QED
      BY <3>1, <3>2, <3>4
  <2>2. CASE <<"token signed out", c>> \notin answers
    BY <1>6, <2>2
  <2> QED
    BY <2>1, <2>2
<1> QED
  BY <1>3, <1>4, <1>5, <1>6 DEF AnswerFacts

\* A request that is not waiting to open a session steps; the names of the
\* sessions and of the attempts stay.
LEMMA RowStep ==
  ASSUME SessionInv, NEW r \in Requests, Becomes(r), RequestFacts(r)', req'[r].pc # "consumed", clock' = clock,
         RowsEvolve, RowFacts', AnswerFacts', attempts' = attempts, DOMAIN sessions' = DOMAIN sessions
  PROVE  SessionInv'
<1>1. \A q \in Requests \ {r} : req[q].pc = "consumed" =>
        req[q].state \notin DOMAIN attempts' \cup DOMAIN sessions'
  BY DEF SessionInv, RequestFacts
<1> QED
  BY <1>1, RequestStep

-----------------------------------------------------------------------------
\* Sliding reaches past the clock, or to the session's end.
LEMMA Slides ==
  ASSUME SessionInv, NEW s \in DOMAIN sessions, NEW now \in Nat, Opened(s) <= now, now <= clock, clock <= now + 1,
         SlideBrowserSession(s, now), UNCHANGED <<clock, attempts, codes, tokens, cookie, auditTrail>>,
         answers' = answers
  PROVE  /\ RowsEvolve /\ RowFacts' /\ AnswerFacts' /\ DOMAIN sessions' = DOMAIN sessions
         /\ clock < sessions'[s].idle \/ sessions'[s].idle = sessions'[s].absolute
<1>1. SessionFacts(s) /\ clock \in Nat /\ cookie \in [Browsers -> DOMAIN sessions \cup {NoOne}]
  BY DEF SessionInv, RowFacts
<1>2. PICK p : p = sessions[s]
  OBVIOUS
<1>3. p \in SessionRows /\ p.absolute - AbsoluteTimeout = Opened(s)
  BY <1>1, <1>2 DEF SessionFacts, Opened
<1>4. PICK i : i = Earlier(now + IdleTimeout, p.absolute)
  OBVIOUS
<1>5. /\ p.absolute \in Nat /\ i \in Nat
      /\ clock < i \/ i = p.absolute
      /\ Opened(s) + IdleTimeout <= i
  <2>1. p.absolute \in Nat /\ IdleTimeout \in Nat /\ AbsoluteTimeout \in Nat /\ 1 < IdleTimeout
        /\ IdleTimeout =< AbsoluteTimeout
    BY <1>3, TimeoutsValid DEF SessionRows, Timeouts
  <2>2. PICK o : o = Opened(s)
    OBVIOUS
  <2>3. o = p.absolute - AbsoluteTimeout /\ o <= now
    BY <1>3, <2>2
  <2>4. CASE now + IdleTimeout < p.absolute
    <3>1. i = now + IdleTimeout
      BY <1>4, <2>1, <2>4 DEF Earlier
    <3> QED
      BY <1>1, <2>1, <2>2, <2>3, <3>1
  <2>5. CASE ~(now + IdleTimeout < p.absolute)
    <3>1. i = p.absolute
      BY <1>4, <2>5 DEF Earlier
    <3> QED
      BY <2>1, <2>2, <2>3, <3>1
  <2> QED
    BY <2>4, <2>5
<1>6. PICK row : row = [p EXCEPT !.idle = i]
  OBVIOUS
<1>7. row \in SessionRows /\ row.browser = p.browser /\ row.absolute = p.absolute /\ row.revoked = p.revoked
      /\ row.idle = i
  BY <1>3, <1>5, <1>6 DEF SessionRows
<1>8. sessions' = [sessions EXCEPT ![s] = row]
  BY <1>2, <1>4, <1>6 DEF SlideBrowserSession
<1>9. Rewrites(s, row)
  BY <1>2, <1>5, <1>7, <1>8 DEF Rewrites
<1>10. RowsEvolve /\ RowFacts' /\ DOMAIN sessions' = DOMAIN sessions /\ sessions'[s] = row
  BY <1>1, <1>9, RowRewritten
<1>11. AnswerFacts'
  BY <1>1, <1>10, AnswersKept
<1> QED
  BY <1>5, <1>7, <1>10, <1>11

\* What a request knows of the session it holds.
LEMMA Holds ==
  ASSUME SessionInv, NEW r \in Requests, req[r].pc \in Holding
  PROVE  /\ req[r].state \in DOMAIN sessions /\ Opened(req[r].state) <= req[r].now /\ Timely(req[r])
         /\ Opened(req[r].state) <= clock /\ req[r].now \in Nat /\ req[r].now <= clock /\ clock <= req[r].now + 1
         /\ req[r].state \in States /\ req[r].pc # "idle"
<1>1. RequestFacts(r) /\ clock \in Nat
  BY DEF SessionInv
<1>2. req[r].pc # "idle"
  BY DEF Holding
<1>3. req[r].state \in DOMAIN sessions /\ Opened(req[r].state) <= req[r].now /\ Timely(req[r])
  BY <1>1, <1>2 DEF RequestFacts
<1>4. SessionFacts(req[r].state)
  BY <1>3 DEF SessionInv, RowFacts
<1>5. req[r].now \in Nat /\ req[r].now <= clock /\ clock <= req[r].now + 1
  BY <1>1, <1>3 DEF Timely
<1> QED
  BY <1>2, <1>3, <1>4, <1>5 DEF SessionFacts

\* The session of a cookie is read and slides, if it lives.
LEMMA GetSessionStep ==
  ASSUME SessionInv, NEW r \in Requests, GetSession(r)
  PROVE  SessionInv'
<1>1. PICK s : s = req[r].state
  OBVIOUS
<1>2. /\ req[r].pc = "resolve" /\ Usable(s, req[r].now) /\ SlideBrowserSession(s, req[r].now)
      /\ UNCHANGED <<clock, attempts, codes, tokens, cookie, auditTrail>>
  BY <1>1 DEF GetSession, UseSession, GetBrowserSessionForUpdate, loginRest, attemptVars
<1>3. /\ s \in DOMAIN sessions /\ Opened(s) <= req[r].now /\ Opened(s) <= clock /\ clock' = clock
      /\ req[r].now \in Nat /\ req[r].now <= clock /\ clock <= req[r].now + 1 /\ req[r].pc # "idle"
  BY <1>1, <1>2, Holds DEF Holding
<1>4. answers' = answers /\ (req' = Answer(r) \/ \E pc \in {"issue", "revoke"} : req' = Advance(r, pc))
  <2>1. req[r].kind \in Browsing
    BY <1>2 DEF SessionInv, RequestFacts
  <2>2. CASE req[r].kind = "authorize"
    BY <2>2 DEF GetSession
  <2>3. CASE req[r].kind = "logout"
    BY <2>3 DEF GetSession, Logout
  <2>4. CASE req[r].kind = "me"
    BY <1>1, <1>2, <2>4 DEF GetSession, Me, Stop, Serve, Usable
  <2> QED
    BY <2>1, <2>2, <2>3, <2>4 DEF Browsing
<1>5. /\ RowsEvolve /\ RowFacts' /\ AnswerFacts' /\ DOMAIN sessions' = DOMAIN sessions
      /\ clock < sessions'[s].idle \/ sessions'[s].idle = sessions'[s].absolute
  BY <1>2, <1>3, <1>4, Slides
<1>6. sessions'[s].absolute = sessions[s].absolute
  BY <1>3, <1>5 DEF RowsEvolve
<1>7. CASE req' = Answer(r)
  BY <1>2, <1>3, <1>5, <1>7, Answered, RowStep
<1>8. ASSUME NEW pc \in {"issue", "revoke"}, req' = Advance(r, pc)
      PROVE  SessionInv'
  <2>1. /\ Becomes(r) /\ Carried(r) /\ req'[r].pc = pc /\ req'[r].now = clock
        /\ req'[r].state = s /\ Timely(req[r])'
    BY <1>1, <1>3, <1>8, Advanced
  <2>2. req[r].kind \in Browsing
    BY <1>2 DEF SessionInv, RequestFacts
  <2>3. RequestFacts(r)'
    BY <1>3, <1>5, <1>6, <2>1, <2>2 DEF RequestFacts, Carried, Opened, Browsing
  <2> QED
    BY <1>2, <1>3, <1>5, <2>1, <2>3, RowStep
<1> QED
  BY <1>4, <1>7, <1>8

\* A token is used and its session slides, if both live.
LEMMA UseAccessTokenStep ==
  ASSUME SessionInv, NEW r \in Requests, UseAccessToken(r)
  PROVE  SessionInv'
<1>1. PICK s : s = req[r].state
  OBVIOUS
<1>2. /\ req[r].pc = "slide" /\ Usable(s, req[r].now) /\ SlideBrowserSession(s, req[r].now)
      /\ UNCHANGED <<clock, attempts, codes, tokens, cookie, auditTrail>>
  BY <1>1 DEF UseAccessToken, UseSession, GetBrowserSessionForUpdate, loginRest, attemptVars
<1>3. /\ s \in DOMAIN sessions /\ Opened(s) <= req[r].now /\ Opened(s) <= clock /\ clock' = clock
      /\ req[r].now \in Nat /\ req[r].now <= clock /\ clock <= req[r].now + 1 /\ req[r].pc # "idle"
  BY <1>1, <1>2, Holds DEF Holding
<1>4. answers' = answers
  BY <1>1, <1>2 DEF UseAccessToken, Logout, Me, Serve, Usable
<1>5. /\ RowsEvolve /\ RowFacts' /\ AnswerFacts' /\ DOMAIN sessions' = DOMAIN sessions
      /\ clock < sessions'[s].idle \/ sessions'[s].idle = sessions'[s].absolute
  BY <1>2, <1>3, <1>4, Slides
<1>6. sessions'[s].absolute = sessions[s].absolute
  BY <1>3, <1>5 DEF RowsEvolve
<1>7. CASE req' = Answer(r)
  BY <1>2, <1>3, <1>5, <1>7, Answered, RowStep
<1>8. CASE req' = Advance(r, "token revoke")
  <2>1. /\ Becomes(r) /\ Carried(r) /\ req'[r].pc = "token revoke" /\ req'[r].now = clock
        /\ req'[r].state = s /\ Timely(req[r])'
    BY <1>1, <1>3, <1>8, Advanced
  <2>2. req[r].code \in DOMAIN tokens /\ tokens[req[r].code].session = s
    BY <1>1, <1>2 DEF SessionInv, RequestFacts
  <2>3. RequestFacts(r)'
    BY <1>2, <1>3, <1>5, <1>6, <2>1, <2>2 DEF RequestFacts, Carried, Opened
  <2> QED
    BY <1>2, <1>3, <1>5, <2>1, <2>3, RowStep
<1> QED
  BY <1>7, <1>8 DEF UseAccessToken, Logout, Me, Stop

\* The session slides once more before its code is stored.
LEMMA IssueCodeStep ==
  ASSUME SessionInv, NEW r \in Requests, IssueCode(r)
  PROVE  SessionInv'
<1>1. PICK s : s = req[r].state
  OBVIOUS
<1>2. /\ req[r].pc = "issue" /\ SlideBrowserSession(s, req[r].now) /\ req' = Advance(r, "code")
      /\ UNCHANGED <<clock, attempts, codes, tokens, cookie, auditTrail>> /\ answers' = answers
  BY <1>1 DEF IssueCode, UseSession, loginRest, attemptVars
<1>3. /\ s \in DOMAIN sessions /\ Opened(s) <= req[r].now /\ Opened(s) <= clock /\ clock' = clock
      /\ req[r].now \in Nat /\ req[r].now <= clock /\ clock <= req[r].now + 1 /\ req[r].pc # "idle"
  BY <1>1, <1>2, Holds DEF Holding
<1>4. RowsEvolve /\ RowFacts' /\ AnswerFacts' /\ DOMAIN sessions' = DOMAIN sessions
  BY <1>2, <1>3, Slides
<1>5. sessions'[s].absolute = sessions[s].absolute /\ sessions'[s].browser = sessions[s].browser
  BY <1>3, <1>4 DEF RowsEvolve
<1>6. /\ Becomes(r) /\ Carried(r) /\ req'[r].pc = "code" /\ req'[r].now = clock
      /\ req'[r].state = s /\ Timely(req[r])'
  BY <1>1, <1>2, <1>3, Advanced
<1>7. req[r].kind = "callback" => sessions[s].browser = req[r].browser /\ req[r].since <= Opened(s)
  BY <1>1, <1>2 DEF SessionInv, RequestFacts
<1>8. RequestFacts(r)'
  BY <1>3, <1>4, <1>5, <1>6, <1>7 DEF RequestFacts, Carried, Opened
<1> QED
  BY <1>2, <1>3, <1>4, <1>6, <1>8, RowStep

\* A dead session is found out, and its cookie cleared.
LEMMA GetSessionInvalidStep ==
  ASSUME SessionInv, NEW r \in Requests, GetSessionInvalid(r)
  PROVE  SessionInv'
<1>1. /\ req[r].pc = "resolve" /\ ClearSessionCookie(r) /\ clock' = clock
      /\ UNCHANGED <<clock, attempts, sessions, codes, tokens, auditTrail, answers>>
  BY DEF GetSessionInvalid, loginRest, attemptVars, rowVars
<1>2. RowsEvolve
  BY <1>1 DEF RowsEvolve
<1>3. cookie \in [Browsers -> DOMAIN sessions \cup {NoOne}]
  BY DEF SessionInv, RowFacts
<1>4. cookie' \in [Browsers -> DOMAIN sessions \cup {NoOne}] /\ \A b \in Browsers : cookie'[b] \in {cookie[b], NoOne}
  BY <1>1, <1>3 DEF ClearSessionCookie
<1>5. RowFacts'
  BY <1>1, <1>4 DEF SessionInv, RowFacts, SessionFacts, Opened
<1>6. AnswerFacts'
  BY <1>1, <1>2, <1>4, AnswersKept
<1>7. CASE req' = Answer(r)
  BY <1>1, <1>2, <1>5, <1>6, <1>7, Answered, RowStep
<1>8. CASE req' = [Advance(r, "create") EXCEPT ![r].state = NoOne]
  <2>1. req = [q \in Requests |-> req[q]] /\ RequestFacts(r) /\ clock \in Nat
    BY DEF SessionInv
  <2>2. PICK p : p = req[r]
    OBVIOUS
  <2>3. Shaped(p) /\ Timely(p)
    BY <1>1, <2>1, <2>2 DEF RequestFacts
  <2>4. PICK y : y = [p EXCEPT !.pc = "create", !.now = clock, !.state = NoOne]
    OBVIOUS
  <2>5. y = [pc |-> "create", kind |-> p.kind, browser |-> p.browser, state |-> NoOne, code |-> p.code,
             since |-> p.since, now |-> clock, owner |-> p.owner, scopeSum |-> p.scopeSum, browserSum |-> p.browserSum]
    BY <2>3, <2>4 DEF Shaped
  <2>6. Shaped(y) /\ y.pc = "create" /\ y.now = clock /\ y.browser = p.browser /\ y.since = p.since
    BY <2>5 DEF Shaped
  <2>7. Becomes(r) /\ req'[r] = y
    BY <1>8, <2>1, <2>2, <2>4 DEF Becomes, Advance
  <2>8. Timely(req[r])'
    BY <1>1, <2>1, <2>3, <2>6, <2>7, TimelyNow
  <2>9. RequestFacts(r)'
    BY <2>6, <2>7, <2>8 DEF RequestFacts, Holding
  <2> QED
    BY <1>1, <1>2, <1>5, <1>6, <2>6, <2>7, <2>9, RowStep
<1> QED
  BY <1>7, <1>8 DEF GetSessionInvalid

-----------------------------------------------------------------------------
\* Revoking a session ends it for everyone.
LEMMA Revokes ==
  ASSUME SessionInv, NEW s \in DOMAIN sessions, sessions' = [sessions EXCEPT ![s].revoked = TRUE],
         UNCHANGED <<clock, attempts, codes, tokens>>, cookie' \in [Browsers -> DOMAIN sessions \cup {NoOne}]
  PROVE  RowsEvolve /\ RowFacts' /\ DOMAIN sessions' = DOMAIN sessions /\ sessions'[s].revoked
<1>1. PICK p : p = sessions[s]
  OBVIOUS
<1>2. SessionFacts(s)
  BY DEF SessionInv, RowFacts
<1>3. PICK row : row = [p EXCEPT !.revoked = TRUE]
  OBVIOUS
<1>4. row \in SessionRows /\ row.browser = p.browser /\ row.absolute = p.absolute /\ row.revoked /\ row.idle = p.idle
  BY <1>1, <1>2, <1>3 DEF SessionFacts, SessionRows
<1>5. sessions' = [sessions EXCEPT ![s] = row]
  BY <1>1, <1>3
<1>6. Rewrites(s, row)
  BY <1>1, <1>2, <1>4, <1>5 DEF Rewrites, SessionFacts
<1>7. RowsEvolve /\ RowFacts' /\ DOMAIN sessions' = DOMAIN sessions /\ sessions'[s] = row
  BY <1>6, RowRewritten
<1> QED
  BY <1>4, <1>7

\* RevokeAndGetBrowserSession finds a session that can be used, or leaves it.
LEMMA RevokesIfUsable ==
  ASSUME SessionInv, NEW s \in DOMAIN sessions, NEW now, RevokeAndGetBrowserSession(s, now),
         UNCHANGED <<clock, attempts, codes, tokens>>, cookie' \in [Browsers -> DOMAIN sessions \cup {NoOne}]
  PROVE  /\ RowsEvolve /\ RowFacts' /\ DOMAIN sessions' = DOMAIN sessions
         /\ Usable(s, now) => sessions'[s].revoked
         /\ ~Usable(s, now) => sessions' = sessions
<1>1. CASE Usable(s, now)
  BY <1>1, Revokes DEF RevokeAndGetBrowserSession
<1>2. CASE ~Usable(s, now)
  <2>1. sessions' = sessions
    BY <1>2 DEF RevokeAndGetBrowserSession
  <2>2. RowsEvolve
    BY <2>1 DEF RowsEvolve
  <2>3. RowFacts'
    BY <2>1 DEF SessionInv, RowFacts, SessionFacts, Opened
  <2> QED
    BY <1>2, <2>1, <2>2, <2>3
<1> QED
  BY <1>1, <1>2

\* The clean-up sees its session before its first idle timeout.
LEMMA CleanUpStep ==
  ASSUME SessionInv, NEW r \in Requests, CleanUp(r)
  PROVE  SessionInv'
<1>1. PICK s, now : s = req[r].state /\ now = req[r].now
  OBVIOUS
<1>2. /\ req[r].pc \in {"clean", "clean again"} /\ RevokeAndGetBrowserSession(s, now) /\ req' = Answer(r)
      /\ answers' = answers \cup {<<"abandoned", s>>}
      /\ UNCHANGED <<clock, attempts, codes, tokens, cookie, auditTrail>>
  BY <1>1 DEF CleanUp, loginRest, attemptVars, Stop
<1>3. s \in DOMAIN sessions /\ s \in States /\ now \in Nat /\ now <= clock /\ clock \in Nat
  BY <1>1, <1>2, Holds DEF Holding, SessionInv
<1>4. cookie \in [Browsers -> DOMAIN sessions \cup {NoOne}] /\ SessionFacts(s)
  BY <1>3 DEF SessionInv, RowFacts
<1>5. /\ RowsEvolve /\ RowFacts' /\ DOMAIN sessions' = DOMAIN sessions
      /\ Usable(s, now) => sessions'[s].revoked
      /\ ~Usable(s, now) => sessions' = sessions
  BY <1>2, <1>3, <1>4, RevokesIfUsable
<1>6. now < sessions[s].idle
  <2>1. req[r].since <= Opened(s) /\ Timely(req[r])
    BY <1>1, <1>2 DEF SessionInv, RequestFacts
  <2>2. PICK o, b, i : o = Opened(s) /\ b = req[r].since /\ i = sessions[s].idle
    OBVIOUS
  <2>3. b \in Nat /\ clock <= b + 1 /\ b <= o /\ i \in Nat /\ o + IdleTimeout <= i
    BY <1>4, <2>1, <2>2 DEF Timely, SessionFacts, SessionRows
  <2>4. IdleTimeout \in Nat /\ 1 < IdleTimeout /\ AbsoluteTimeout \in Nat
    BY TimeoutsValid DEF Timeouts
  <2>5. o \in Int
    BY <1>4, <2>2, <2>4 DEF Opened, SessionFacts, SessionRows
  <2>6. now < i
    BY <1>3, <2>3, <2>4, <2>5
  <2> QED
    BY <2>2, <2>6
<1>7. Dead(s)'
  <2>1. CASE Usable(s, now)
    BY <1>5, <2>1 DEF Dead
  <2>2. CASE ~Usable(s, now)
    <3>1. sessions[s].revoked \/ ~(now < sessions[s].absolute)
      BY <1>3, <1>6, <2>2 DEF Usable
    <3>2. sessions[s].absolute \in Nat
      BY <1>4 DEF SessionFacts, SessionRows
    <3>3. sessions' = sessions /\ clock' = clock
      BY <1>2, <1>5, <2>2
    <3>4. sessions[s].revoked \/ sessions[s].absolute =< clock
      <4>1. PICK e : e = sessions[s].absolute
        OBVIOUS
      <4>2. now \in Nat /\ now <= clock /\ clock \in Nat /\ e \in Nat /\ (sessions[s].revoked \/ ~(now < e))
        BY <1>3, <3>1, <3>2, <4>1
      <4>3. ~(now < e) => e =< clock
        BY <4>2
      <4> QED
        BY <4>1, <4>2, <4>3
    <3> QED
      BY <3>3, <3>4 DEF Dead
  <2> QED
    BY <2>1, <2>2
<1>8. AnswerFacts'
  <2>1. \A t \in States : \/ <<"abandoned", t>> \in answers' => <<"abandoned", t>> \in answers
                          \/ t \in DOMAIN sessions' /\ Dead(t)'
    BY <1>2, <1>3, <1>5, <1>7
  <2>2. \A t \in States : /\ <<"served revoked", t>> \in answers' => <<"served revoked", t>> \in answers
                          /\ <<"signed out", t>> \in answers' => <<"signed out", t>> \in answers
    BY <1>2
  <2>3. \A c \in Codes : <<"token signed out", c>> \in answers' => <<"token signed out", c>> \in answers
    BY <1>2
  <2> QED
    BY <1>2, <1>4, <1>5, <2>1, <2>2, <2>3, AnswersKept
<1> QED
  BY <1>2, <1>5, <1>8, Answered, RowStep

\* A logout finds the session it has resolved, revoked meanwhile or over.
LEMMA LogoutStep ==
  ASSUME SessionInv, NEW r \in Requests, LogoutBrowserSession(r)
  PROVE  SessionInv'
<1>1. PICK s, now : s = req[r].state /\ now = req[r].now
  OBVIOUS
<1>2. /\ req[r].pc = "revoke" /\ RevokeAndGetBrowserSession(s, now) /\ req' = Answer(r)
      /\ answers' = answers \cup {<<"signed out", s>>} /\ auditTrail \subseteq auditTrail'
      /\ ClearSessionCookie(r) /\ UNCHANGED <<clock, attempts, codes, tokens>>
  BY <1>1 DEF LogoutBrowserSession, loginRest, attemptVars, Stop
<1>3. s \in DOMAIN sessions /\ s \in States /\ now \in Nat /\ now <= clock /\ clock \in Nat
  BY <1>1, <1>2, Holds DEF Holding, SessionInv
<1>4. cookie \in [Browsers -> DOMAIN sessions \cup {NoOne}] /\ SessionFacts(s)
  BY <1>3 DEF SessionInv, RowFacts
<1>5. cookie' \in [Browsers -> DOMAIN sessions \cup {NoOne}] /\ \A b \in Browsers : cookie'[b] \in {cookie[b], NoOne}
  BY <1>2, <1>4 DEF ClearSessionCookie
<1>6. /\ RowsEvolve /\ RowFacts' /\ DOMAIN sessions' = DOMAIN sessions
      /\ Usable(s, now) => sessions'[s].revoked
      /\ ~Usable(s, now) => sessions' = sessions
  BY <1>2, <1>3, <1>5, RevokesIfUsable
<1>7. Dead(s)'
  <2>1. CASE Usable(s, now)
    BY <1>6, <2>1 DEF Dead
  <2>2. CASE ~Usable(s, now)
    <3>1. now < sessions[s].idle \/ sessions[s].idle = sessions[s].absolute
      BY <1>1, <1>2 DEF SessionInv, RequestFacts
    <3>2. sessions[s].revoked \/ ~(now < sessions[s].absolute)
      BY <1>3, <2>2, <3>1 DEF Usable
    <3>3. sessions[s].absolute \in Nat
      BY <1>4 DEF SessionFacts, SessionRows
    <3>4. sessions' = sessions /\ clock' = clock
      BY <1>2, <1>6, <2>2
    <3>5. sessions[s].revoked \/ sessions[s].absolute =< clock
      <4>1. PICK e : e = sessions[s].absolute
        OBVIOUS
      <4>2. now \in Nat /\ now <= clock /\ clock \in Nat /\ e \in Nat /\ (sessions[s].revoked \/ ~(now < e))
        BY <1>3, <3>2, <3>3, <4>1
      <4>3. ~(now < e) => e =< clock
        BY <4>2
      <4> QED
        BY <4>1, <4>2, <4>3
    <3> QED
      BY <3>4, <3>5 DEF Dead
  <2> QED
    BY <2>1, <2>2
<1>8. AnswerFacts'
  <2>1. \A t \in States : \/ <<"signed out", t>> \in answers' => <<"signed out", t>> \in answers
                          \/ t \in DOMAIN sessions' /\ Dead(t)'
    BY <1>2, <1>3, <1>6, <1>7
  <2>2. \A t \in States : /\ <<"served revoked", t>> \in answers' => <<"served revoked", t>> \in answers
                          /\ <<"abandoned", t>> \in answers' => <<"abandoned", t>> \in answers
    BY <1>2
  <2>3. \A c \in Codes : <<"token signed out", c>> \in answers' => <<"token signed out", c>> \in answers
    BY <1>2
  <2> QED
    BY <1>2, <1>5, <1>6, <2>1, <2>2, <2>3, AnswersKept
<1> QED
  BY <1>2, <1>6, <1>8, Answered, RowStep

\* The creation is audited before the cookie is set.
LEMMA AppendAuditStep ==
  ASSUME SessionInv, NEW r \in Requests, AppendBrowserAudit(r)
  PROVE  SessionInv'
<1>1. PICK s, b : s = req[r].state /\ b = req[r].browser
  OBVIOUS
<1>2. /\ req[r].pc = "audit" /\ req' = Answer(r)
      /\ auditTrail' = auditTrail \cup {<<"create", s>>} /\ cookie' = [cookie EXCEPT ![b] = s]
      /\ UNCHANGED <<clock, attempts, sessions, codes, tokens, answers>>
  BY <1>1 DEF AppendBrowserAudit, loginRest, attemptVars, rowVars, Stop
<1>3. s \in DOMAIN sessions /\ sessions[s].browser = b
  BY <1>1, <1>2 DEF SessionInv, RequestFacts, Holding
<1>4. cookie \in [Browsers -> DOMAIN sessions \cup {NoOne}] /\ cookie' \in [Browsers -> DOMAIN sessions \cup {NoOne}]
  BY <1>2, <1>3 DEF SessionInv, RowFacts
<1>5. RowsEvolve
  BY <1>2 DEF RowsEvolve
<1>6. RowFacts'
  BY <1>2, <1>4 DEF SessionInv, RowFacts, SessionFacts, Opened
<1>7. AnswerFacts'
  <2>1. ASSUME NEW d \in Browsers
        PROVE  \/ cookie'[d] \in {cookie[d], NoOne}
               \/ sessions'[cookie'[d]].browser = d /\ <<"create", cookie'[d]>> \in auditTrail'
    BY <1>2, <1>3, <1>4
  <2> QED
    BY <1>2, <1>4, <1>5, <2>1, AnswersKept
<1> QED
  BY <1>2, <1>5, <1>6, <1>7, Answered, RowStep

\* A logout by token revokes the session that the token belongs to.
LEMMA TokenRevokeStep ==
  ASSUME SessionInv, NEW r \in Requests, RevokeAndGetBrowserSessionByAccessToken(r)
  PROVE  SessionInv'
<1>1. PICK s : s = req[r].state
  OBVIOUS
<1>2. /\ req[r].pc = "token revoke" /\ sessions' = [sessions EXCEPT ![s].revoked = TRUE]
      /\ req' = Advance(r, "token audit")
      /\ UNCHANGED <<clock, attempts, codes, tokens, cookie, auditTrail, answers>>
  BY <1>1 DEF RevokeAndGetBrowserSessionByAccessToken, loginRest, attemptVars
<1>3. s \in DOMAIN sessions /\ Opened(s) <= clock /\ clock' = clock /\ req[r].pc # "idle"
  BY <1>1, <1>2, Holds DEF Holding
<1>4. cookie \in [Browsers -> DOMAIN sessions \cup {NoOne}]
  BY DEF SessionInv, RowFacts
<1>5. RowsEvolve /\ RowFacts' /\ DOMAIN sessions' = DOMAIN sessions /\ sessions'[s].revoked
  BY <1>2, <1>3, <1>4, Revokes
<1>6. AnswerFacts'
  BY <1>2, <1>4, <1>5, AnswersKept
<1>7. sessions'[s].absolute = sessions[s].absolute
  BY <1>3, <1>5 DEF RowsEvolve
<1>8. /\ Becomes(r) /\ Carried(r) /\ req'[r].pc = "token audit" /\ req'[r].now = clock
      /\ req'[r].state = s /\ Timely(req[r])'
  BY <1>1, <1>2, <1>3, Advanced
<1>9. req[r].code \in DOMAIN tokens /\ tokens[req[r].code].session = s
  BY <1>1, <1>2 DEF SessionInv, RequestFacts
<1>10. RequestFacts(r)'
  BY <1>2, <1>3, <1>5, <1>7, <1>8, <1>9 DEF RequestFacts, Carried, Opened
<1> QED
  BY <1>2, <1>3, <1>5, <1>6, <1>8, <1>10, RowStep

\* No row: the session is revoked or over, unless this is the retry.
LEMMA TokenAlreadyDeadStep ==
  ASSUME SessionInv, NEW r \in Requests, TokenAlreadyDead(r)
  PROVE  SessionInv'
<1>1. PICK s, c, now : s = req[r].state /\ c = req[r].code /\ now = req[r].now
  OBVIOUS
<1>2. /\ req[r].pc = "token revoke" /\ ~RevocableByToken(c, now) /\ req' = Answer(r)
      /\ answers' = IF req[r].kind = "retry" THEN answers ELSE answers \cup {<<"token signed out", c>>}
      /\ UNCHANGED <<clock, attempts, sessions, codes, tokens, cookie, auditTrail>>
  BY <1>1 DEF TokenAlreadyDead, loginRest, attemptVars, rowVars, Stop
<1>3. s \in DOMAIN sessions /\ now \in Nat /\ now <= clock /\ clock \in Nat
  BY <1>1, <1>2, Holds DEF Holding, SessionInv
<1>4. c \in DOMAIN tokens /\ tokens[c].session = s
  BY <1>1, <1>2 DEF SessionInv, RequestFacts
<1>5. tokens[c].expires = sessions[s].absolute /\ SessionFacts(s) /\ c \in Codes
  BY <1>3, <1>4, TokenFacts DEF SessionInv, RowFacts
<1>6. sessions[s].absolute \in Nat
  BY <1>5 DEF SessionFacts, SessionRows
<1>7. req[r].kind # "retry" => sessions[s].absolute <= clock
  <2> SUFFICES ASSUME req[r].kind # "retry" PROVE sessions[s].absolute <= clock
    OBVIOUS
  <2>1. now < sessions[s].idle \/ sessions[s].idle = sessions[s].absolute
    BY <1>1, <1>2 DEF SessionInv, RequestFacts
  <2>2. ~(now < sessions[s].absolute)
    BY <1>2, <1>3, <1>4, <1>5, <2>1 DEF RevocableByToken, Usable
  <2> QED
    BY <1>3, <1>6, <2>2
<1>8. RowsEvolve
  BY <1>2 DEF RowsEvolve
<1>9. RowFacts'
  BY <1>2 DEF SessionInv, RowFacts, SessionFacts, Opened
<1>10. cookie' \in [Browsers -> DOMAIN sessions' \cup {NoOne}]
  BY <1>9 DEF RowFacts
<1>11. AnswerFacts'
  <2>1. ASSUME NEW d \in Codes
        PROVE  \/ <<"token signed out", d>> \in answers' => <<"token signed out", d>> \in answers
               \/ /\ d \in DOMAIN tokens' /\ Dead(tokens[d].session)'
                  /\ <<"token logout", d>> \in auditTrail' \/ tokens'[d].expires <= clock
    <3>1. CASE d = c /\ req[r].kind # "retry"
      BY <1>2, <1>4, <1>5, <1>7, <3>1 DEF Dead
    <3>2. CASE ~(d = c /\ req[r].kind # "retry")
      BY <1>2, <3>2
    <3> QED
      BY <3>1, <3>2
  <2>2. \A t \in States : /\ <<"served revoked", t>> \in answers' => <<"served revoked", t>> \in answers
                          /\ <<"abandoned", t>> \in answers' => <<"abandoned", t>> \in answers
                          /\ <<"signed out", t>> \in answers' => <<"signed out", t>> \in answers
    BY <1>2
  <2> QED
    BY <1>2, <1>8, <1>10, <2>1, <2>2, AnswersKept
<1> QED
  BY <1>2, <1>8, <1>9, <1>11, Answered, RowStep

\* The audit row of a logout by token, once.
LEMMA TokenAuditStep ==
  ASSUME SessionInv, NEW r \in Requests, AppendIdempotentAccessLogoutAudit(r)
  PROVE  SessionInv'
<1>1. PICK s, c : s = req[r].state /\ c = req[r].code
  OBVIOUS
<1>2. /\ req[r].pc = "token audit" /\ req' = Answer(r)
      /\ auditTrail' = auditTrail \cup {<<"token logout", c>>}
      /\ answers' = answers \cup {<<"token signed out", c>>}
      /\ UNCHANGED <<clock, attempts, sessions, codes, tokens, cookie>>
  BY <1>1 DEF AppendIdempotentAccessLogoutAudit, loginRest, attemptVars, rowVars, Stop
<1>3. c \in DOMAIN tokens /\ tokens[c].session = s /\ sessions[s].revoked
  BY <1>1, <1>2 DEF SessionInv, RequestFacts
<1>4. RowsEvolve
  BY <1>2 DEF RowsEvolve
<1>5. RowFacts'
  BY <1>2 DEF SessionInv, RowFacts, SessionFacts, Opened
<1>6. cookie' \in [Browsers -> DOMAIN sessions' \cup {NoOne}]
  BY <1>5 DEF RowFacts
<1>7. AnswerFacts'
  <2>1. ASSUME NEW d \in Codes
        PROVE  \/ <<"token signed out", d>> \in answers' => <<"token signed out", d>> \in answers
               \/ /\ d \in DOMAIN tokens' /\ Dead(tokens[d].session)'
                  /\ <<"token logout", d>> \in auditTrail' \/ tokens'[d].expires <= clock
    <3>1. CASE d = c
      BY <1>2, <1>3, <3>1 DEF Dead
    <3>2. CASE d # c
      BY <1>2, <3>2
    <3> QED
      BY <3>1, <3>2
  <2>2. \A t \in States : /\ <<"served revoked", t>> \in answers' => <<"served revoked", t>> \in answers
                          /\ <<"abandoned", t>> \in answers' => <<"abandoned", t>> \in answers
                          /\ <<"signed out", t>> \in answers' => <<"signed out", t>> \in answers
    BY <1>2
  <2> QED
    BY <1>2, <1>4, <1>6, <2>1, <2>2, AnswersKept
<1> QED
  BY <1>2, <1>4, <1>5, <1>7, Answered, RowStep

-----------------------------------------------------------------------------
(* Codes, and the opening of a session                                       *)

\* A code is stored for its session.
LEMMA CreateCodeStep ==
  ASSUME SessionInv, NEW r \in Requests, CreateAuthorizationCode(r)
  PROVE  SessionInv'
<1>1. PICK s, c, row : /\ s = req[r].state /\ c = Fresh(Codes \ DOMAIN codes)
                       /\ row = [session |-> s, browser |-> req[r].browser,
                                 expires |-> clock + CodeTimeout, consumed |-> FALSE]
  OBVIOUS
<1>2. /\ req[r].pc = "code" /\ Codes # DOMAIN codes /\ codes' = With(codes, c, row)
      /\ UNCHANGED <<clock, attempts, sessions, tokens, cookie, auditTrail, answers>>
  BY <1>1 DEF CreateAuthorizationCode, loginRest, attemptVars
<1>3. RowFacts /\ AnswerFacts /\ clock \in Nat
  BY DEF SessionInv
<1>4. c \in Codes \ DOMAIN codes
  <2>1. Codes \ DOMAIN codes # {}
    BY <1>2, <1>3 DEF RowFacts
  <2> QED
    BY <1>1, <2>1 DEF Fresh
<1>5. s \in DOMAIN sessions /\ Timely(req[r]) /\ Opened(s) <= clock /\ req[r].pc # "idle"
  BY <1>1, <1>2, Holds DEF Holding
<1>6. row \in [session : DOMAIN sessions, browser : Browsers, expires : Nat, consumed : BOOLEAN]
  <2>1. CodeTimeout \in Nat
    BY TimeoutsValid DEF Timeouts
  <2> QED
    BY <1>1, <1>3, <1>5, <2>1 DEF Timely
<1>7. /\ codes' = [d \in DOMAIN codes' |-> codes'[d]] /\ DOMAIN codes' = DOMAIN codes \cup {c} /\ codes'[c] = row
      /\ \A d \in DOMAIN codes : codes'[d] = codes[d]
  BY <1>2, <1>4 DEF With
<1>8. \A d \in DOMAIN tokens : codes'[d] = codes[d]
  BY <1>3, <1>7 DEF RowFacts
<1>9. tokens' = [d \in DOMAIN tokens' |->
                  [session |-> codes'[d].session, expires |-> sessions'[codes'[d].session].absolute]]
  BY <1>2, <1>3, <1>8 DEF RowFacts
<1>10. \A d \in DOMAIN codes' :
         codes'[d] \in [session : DOMAIN sessions', browser : Browsers, expires : Nat, consumed : BOOLEAN]
  BY <1>2, <1>3, <1>6, <1>7 DEF RowFacts
<1>11. RowFacts'
  BY <1>2, <1>3, <1>4, <1>7, <1>9, <1>10 DEF RowFacts, SessionFacts, Opened
<1>12. RowsEvolve
  BY <1>2, <1>7 DEF RowsEvolve
<1>13. AnswerFacts'
  BY <1>2, <1>3 DEF AnswerFacts, CookieIsOwnAndAudited, ServedIsUnrevoked, Dead
<1>14. CASE req' = Answer(r)
  BY <1>2, <1>11, <1>12, <1>13, <1>14, Answered, RowStep
<1>15. CASE req[r].kind = "callback" /\ req' = Advance(r, "audit")
  <2>1. /\ Becomes(r) /\ Carried(r) /\ req'[r].pc = "audit" /\ req'[r].now = clock
        /\ req'[r].state = s /\ Timely(req[r])'
    BY <1>1, <1>2, <1>5, <1>15, Advanced
  <2>2. sessions[s].browser = req[r].browser /\ req[r].since <= Opened(s)
    BY <1>1, <1>2, <1>15 DEF SessionInv, RequestFacts
  <2>3. RequestFacts(r)'
    BY <1>2, <1>5, <2>1, <2>2 DEF RequestFacts, Carried, Opened
  <2> QED
    BY <1>2, <1>11, <1>12, <1>13, <2>1, <2>3, RowStep
<1> QED
  BY <1>14, <1>15 DEF CreateAuthorizationCode, Stop

\* A code is exchanged once, for a token of its session.
LEMMA ExchangeStep ==
  ASSUME SessionInv, NEW r \in Requests, ExchangeAuthorizationCode(r)
  PROVE  SessionInv'
<1>1. PICK c, s : c = req[r].code /\ s = codes[c].session
  OBVIOUS
<1>2. /\ req[r].pc = "exchange" /\ Usable(s, req[r].now) /\ req' = Answer(r)
      /\ codes' = [codes EXCEPT ![c].consumed = TRUE]
      /\ tokens' = With(tokens, c, [session |-> s, expires |-> sessions[s].absolute])
      /\ UNCHANGED <<clock, attempts, sessions, cookie, auditTrail>>
  BY <1>1 DEF ExchangeAuthorizationCode, GetBrowserSessionForUpdate, ConsumeAuthorizationCode,
              CreateBrowserAccessToken, Stop, loginRest, attemptVars
<1>3. answers' = answers
  BY <1>1, <1>2 DEF ExchangeAuthorizationCode, Serve, Usable
<1>4. RowFacts /\ AnswerFacts /\ c \in DOMAIN codes
  BY <1>1, <1>2 DEF SessionInv, RequestFacts
<1>5. PICK p, y : p = codes[c] /\ y = [p EXCEPT !.consumed = TRUE]
  OBVIOUS
<1>6. y \in [session : DOMAIN sessions, browser : Browsers, expires : Nat, consumed : BOOLEAN] /\ y.session = s
  BY <1>1, <1>4, <1>5 DEF RowFacts
<1>7. /\ codes' = [d \in DOMAIN codes |-> codes'[d]] /\ DOMAIN codes' = DOMAIN codes /\ codes'[c] = y
      /\ \A d \in DOMAIN codes : d # c => codes'[d] = codes[d]
  BY <1>2, <1>4, <1>5 DEF RowFacts
<1>8. \A d \in DOMAIN codes : codes'[d].session = codes[d].session
  BY <1>1, <1>6, <1>7
<1>9. \A d \in DOMAIN codes' :
        codes'[d] \in [session : DOMAIN sessions', browser : Browsers, expires : Nat, consumed : BOOLEAN]
  BY <1>2, <1>4, <1>6, <1>7 DEF RowFacts
<1> DEFINE T(d) == [session |-> codes[d].session, expires |-> sessions[codes[d].session].absolute]
<1>10. tokens = [d \in DOMAIN tokens |-> T(d)] /\ DOMAIN tokens \subseteq DOMAIN codes
  BY <1>4 DEF RowFacts
<1>11. tokens' = With(tokens, c, T(c))
  BY <1>1, <1>2
<1>12. \A d \in DOMAIN codes : [session |-> codes'[d].session, expires |-> sessions'[codes'[d].session].absolute] = T(d)
  BY <1>2, <1>8
<1> HIDE DEF T
<1>13. tokens' = [d \in DOMAIN tokens \cup {c} |-> T(d)]
  BY <1>10, <1>11 DEF With
<1>14. tokens' = [d \in DOMAIN tokens' |->
                   [session |-> codes'[d].session, expires |-> sessions'[codes'[d].session].absolute]]
  BY <1>4, <1>10, <1>12, <1>13
<1>15. RowFacts'
  <2>1. /\ DOMAIN attempts' \subseteq States /\ sessions' = [t \in DOMAIN sessions' |-> sessions'[t]]
        /\ cookie' \in [Browsers -> DOMAIN sessions' \cup {NoOne}]
    BY <1>2, <1>4 DEF RowFacts
  <2>2. \A t \in DOMAIN sessions' : SessionFacts(t)'
    BY <1>2, <1>4 DEF RowFacts, SessionFacts, Opened
  <2>3. codes' = [d \in DOMAIN codes' |-> codes'[d]] /\ DOMAIN codes' \subseteq Codes
    BY <1>4, <1>7 DEF RowFacts
  <2>4. DOMAIN tokens' \subseteq DOMAIN codes'
    BY <1>4, <1>7, <1>10, <1>13
  <2> QED
    BY <1>9, <1>14, <2>1, <2>2, <2>3, <2>4 DEF RowFacts
<1>16. RowsEvolve
  BY <1>2, <1>7, <1>10, <1>13 DEF RowsEvolve
<1>17. cookie' \in [Browsers -> DOMAIN sessions' \cup {NoOne}]
  BY <1>15 DEF RowFacts
<1>18. AnswerFacts'
  BY <1>2, <1>3, <1>16, <1>17, AnswersKept
<1> QED
  BY <1>2, <1>15, <1>16, <1>18, Answered, RowStep

\* The login is over: its name becomes the session's.
LEMMA CreateSessionStep ==
  ASSUME SessionInv, NEW r \in Requests, CreateSession(r)
  PROVE  SessionInv'
<1>1. PICK s, row : s = req[r].state /\ row = NewSession(r)
  OBVIOUS
<1>2. /\ req[r].pc = "consumed" /\ sessions' = With(sessions, s, row) /\ req' = Advance(r, "issue")
      /\ UNCHANGED <<clock, attempts, codes, tokens, cookie, auditTrail, answers>>
  BY <1>1 DEF CreateSession, CreateBrowserSession, loginRest, attemptVars
<1>3. RowFacts /\ AnswerFacts /\ clock \in Nat /\ RequestFacts(r)
  BY DEF SessionInv
<1>4. /\ s \in States \ (DOMAIN attempts \cup DOMAIN sessions) /\ req[r].owner = req[r].browser
      /\ Timely(req[r]) /\ req[r].pc # "idle"
  BY <1>1, <1>2, <1>3 DEF RequestFacts
<1>5. IdleTimeout \in Nat /\ AbsoluteTimeout \in Nat
  BY TimeoutsValid DEF Timeouts
<1>6. PICK n : n = req[r].now
  OBVIOUS
<1>7. n \in Nat /\ n <= clock /\ req[r].since <= n /\ req[r].browser \in Browsers
  BY <1>4, <1>6 DEF Timely
<1>8. /\ row \in SessionRows /\ row.browser = req[r].browser
      /\ row.idle = n + IdleTimeout /\ row.absolute = n + AbsoluteTimeout
  BY <1>1, <1>4, <1>5, <1>6, <1>7 DEF NewSession, SessionRows
<1>9. row.absolute - AbsoluteTimeout = n
  BY <1>5, <1>7, <1>8
<1>10. /\ sessions' = [t \in DOMAIN sessions' |-> sessions'[t]] /\ DOMAIN sessions' = DOMAIN sessions \cup {s}
       /\ sessions'[s] = row /\ \A t \in DOMAIN sessions : sessions'[t] = sessions[t]
  BY <1>2, <1>4 DEF With
<1>11. ASSUME NEW t \in DOMAIN sessions' PROVE SessionFacts(t)'
  <2>1. CASE t = s
    <3>1. sessions'[t].absolute - AbsoluteTimeout = n /\ sessions'[t].idle = n + IdleTimeout
          /\ sessions'[t] \in SessionRows /\ clock' = clock /\ attempts' = attempts
      BY <1>2, <1>8, <1>9, <1>10, <2>1
    <3> QED
      BY <1>4, <1>5, <1>7, <2>1, <3>1 DEF SessionFacts, Opened
  <2>2. CASE t # s
    <3>1. t \in DOMAIN sessions /\ sessions'[t] = sessions[t]
      BY <1>10, <2>2
    <3> QED
      BY <1>2, <1>3, <3>1 DEF SessionFacts, RowFacts, Opened
  <2> QED
    BY <2>1, <2>2
<1>12. \A c \in DOMAIN tokens : sessions'[codes[c].session] = sessions[codes[c].session]
  BY <1>3, <1>10 DEF RowFacts
<1>13. tokens' = [c \in DOMAIN tokens' |->
                   [session |-> codes'[c].session, expires |-> sessions'[codes'[c].session].absolute]]
  BY <1>2, <1>3, <1>12 DEF RowFacts
<1>14. \A c \in DOMAIN codes' :
         codes'[c] \in [session : DOMAIN sessions', browser : Browsers, expires : Nat, consumed : BOOLEAN]
  BY <1>2, <1>3, <1>10 DEF RowFacts
<1>15. RowFacts'
  BY <1>2, <1>3, <1>10, <1>11, <1>13, <1>14 DEF RowFacts
<1>16. RowsEvolve
  BY <1>2, <1>10 DEF RowsEvolve
<1>17. cookie' \in [Browsers -> DOMAIN sessions' \cup {NoOne}]
  BY <1>15 DEF RowFacts
<1>18. AnswerFacts'
  BY <1>2, <1>16, <1>17, AnswersKept
<1>19. /\ Becomes(r) /\ Carried(r) /\ req'[r].pc = "issue" /\ req'[r].now = clock
       /\ req'[r].state = s /\ Timely(req[r])'
  BY <1>1, <1>2, <1>4, Advanced
<1>20. RequestFacts(r)'
  <2>1. sessions'[s].browser = req'[r].browser /\ sessions'[s].absolute - AbsoluteTimeout = n
    BY <1>8, <1>9, <1>10, <1>19 DEF Carried
  <2> QED
    BY <1>7, <1>10, <1>19, <2>1 DEF RequestFacts, Carried, Opened
<1>21. \A q \in Requests \ {r} : req[q].pc = "consumed" =>
         req[q].state \notin DOMAIN attempts' \cup DOMAIN sessions'
  BY <1>1, <1>2, <1>10 DEF SessionInv, RequestFacts
<1> QED
  BY <1>2, <1>15, <1>16, <1>18, <1>19, <1>20, <1>21, RequestStep

-----------------------------------------------------------------------------
(* The login steps, the clock and the theorems                               *)

\* A login step touches attempts alone.
LEMMA LoginRows ==
  ASSUME SessionInv, UNCHANGED <<clock, sessionVars>>, DOMAIN attempts' \subseteq States \ DOMAIN sessions
  PROVE  RowsEvolve /\ RowFacts' /\ AnswerFacts' /\ UNCHANGED <<clock, sessions, codes, tokens, cookie, auditTrail, answers>>
<1>1. UNCHANGED <<clock, sessions, codes, tokens, cookie, auditTrail, answers>>
  BY DEF sessionVars
<1>2. RowsEvolve
  BY <1>1 DEF RowsEvolve
<1>3. RowFacts /\ AnswerFacts
  BY DEF SessionInv
<1>4. \A s \in DOMAIN sessions' : SessionFacts(s)'
  BY <1>1, <1>3 DEF RowFacts, SessionFacts, Opened
<1>5. RowFacts'
  BY <1>1, <1>3, <1>4 DEF RowFacts
<1>6. AnswerFacts'
  BY <1>1, <1>3 DEF AnswerFacts, CookieIsOwnAndAudited, ServedIsUnrevoked, Dead
<1> QED
  BY <1>1, <1>2, <1>5, <1>6

\* The names of the attempts are no sessions'.
LEMMA AttemptNames ==
  ASSUME SessionInv
  PROVE  DOMAIN attempts \subseteq States \ DOMAIN sessions
BY DEF SessionInv, RowFacts, SessionFacts

\* A login step before the callback has consumed its attempt.
LEMMA LoginMove ==
  ASSUME SessionInv, NEW r \in Requests, UNCHANGED <<clock, sessionVars>>, Becomes(r), RequestFacts(r)',
         req'[r].pc # "consumed", DOMAIN attempts' \subseteq States \ DOMAIN sessions,
         \A q \in Requests \ {r} : req[q].pc = "consumed" => req[q].state \notin DOMAIN attempts'
  PROVE  SessionInv'
<1>1. RowsEvolve /\ RowFacts' /\ AnswerFacts' /\ clock' = clock /\ sessions' = sessions
  BY LoginRows
<1>2. \A q \in Requests \ {r} : req[q].pc = "consumed" =>
        req[q].state \notin DOMAIN attempts' \cup DOMAIN sessions'
  BY <1>1 DEF SessionInv, RequestFacts
<1> QED
  BY <1>1, <1>2, RequestStep

\* One that leaves the attempts as they are, or fewer.
LEMMA LoginShrinks ==
  ASSUME SessionInv, NEW r \in Requests, UNCHANGED <<clock, sessionVars>>, Becomes(r), RequestFacts(r)',
         req'[r].pc # "consumed", DOMAIN attempts' \subseteq DOMAIN attempts
  PROVE  SessionInv'
<1>1. DOMAIN attempts' \subseteq States \ DOMAIN sessions
  BY AttemptNames
<1>2. \A q \in Requests \ {r} : req[q].pc = "consumed" => req[q].state \notin DOMAIN attempts'
  BY DEF SessionInv, RequestFacts
<1> QED
  BY <1>1, <1>2, LoginMove

\* A browser without a session asks to authorize.
LEMMA AuthorizeStep ==
  ASSUME SessionInv, NEW r \in Requests, NEW b \in Browsers, Authorize(r, b), UNCHANGED sessionVars
  PROVE  SessionInv'
<1>1. Begin(r, "rate", "authorize", b, NoOne, NoOne) /\ clock' = clock /\ attempts' = attempts
  BY DEF Authorize, attemptVars
<1>2. Becomes(r) /\ Shaped(req'[r]) /\ Timely(req[r])' /\ req'[r].pc = "rate" /\ req'[r].kind = "authorize"
  BY <1>1, Begun
<1>3. RequestFacts(r)'
  BY <1>2 DEF RequestFacts, Browsing, Holding
<1> QED
  BY <1>1, <1>2, <1>3, LoginShrinks

\* The identity provider sends the browser back.
LEMMA CallbackStep ==
  ASSUME SessionInv, NEW r \in Requests, NEW b \in Browsers, NEW s \in States, Callback(r, b, s), UNCHANGED sessionVars
  PROVE  SessionInv'
<1>1. Begin(r, "scoped", "callback", b, s, NoOne) /\ clock' = clock /\ attempts' = attempts
  BY DEF Callback, attemptVars
<1>2. Becomes(r) /\ Shaped(req'[r]) /\ Timely(req[r])' /\ req'[r].pc = "scoped"
  BY <1>1, Begun
<1>3. RequestFacts(r)'
  BY <1>2 DEF RequestFacts, Holding
<1> QED
  BY <1>1, <1>2, <1>3, LoginShrinks

\* A request is admitted, and counted in the window of the time it read.
LEMMA AllowAuthorizeStep ==
  ASSUME SessionInv, NEW r \in Requests, AllowAuthorize(r), UNCHANGED sessionVars
  PROVE  SessionInv'
<1>1. req[r].pc = "rate" /\ req' = Advance(r, "admitted") /\ clock' = clock /\ attempts' = attempts
  BY DEF AllowAuthorize, attemptVars
<1>2. Becomes(r) /\ Carried(r) /\ req'[r].pc = "admitted" /\ Timely(req[r])'
  BY <1>1, Advanced
<1>3. req[r].kind \in Browsing
  BY <1>1 DEF SessionInv, RequestFacts
<1>4. RequestFacts(r)'
  BY <1>2, <1>3 DEF RequestFacts, Carried, Holding
<1> QED
  BY <1>1, <1>2, <1>4, LoginShrinks

\* A browser without a session goes on to the identity provider.
LEMMA StartLoginStep ==
  ASSUME SessionInv, NEW r \in Requests, StartLogin(r), UNCHANGED sessionVars
  PROVE  SessionInv'
<1>1. req[r].pc = "admitted" /\ req' = Advance(r, "create") /\ clock' = clock /\ attempts' = attempts
  BY DEF StartLogin, attemptVars
<1>2. Becomes(r) /\ Carried(r) /\ req'[r].pc = "create" /\ Timely(req[r])'
  BY <1>1, Advanced
<1>3. RequestFacts(r)'
  BY <1>2 DEF RequestFacts, Carried, Holding
<1> QED
  BY <1>1, <1>2, <1>3, LoginShrinks

\* A login counts what lives, and creates its attempt or not.
LEMMA CountStep ==
  ASSUME SessionInv, NEW r \in Requests, CountAttempts(r), UNCHANGED sessionVars
  PROVE  SessionInv'
<1>1. PICK m, n : /\ m = SumActiveOIDCLoginAttemptScope(req[r].now)
                  /\ n = SumActiveOIDCLoginAttemptBrowser(req[r].browser, req[r].now)
  OBVIOUS
<1>2. /\ req[r].pc = "create" /\ clock' = clock /\ attempts' = attempts
      /\ req' = [req EXCEPT ![r].pc = "locked", ![r].scopeSum = m, ![r].browserSum = n]
  BY <1>1 DEF CountAttempts
<1>3. req = [q \in Requests |-> req[q]] /\ RequestFacts(r) /\ clock \in Nat
  BY DEF SessionInv
<1>4. PICK p : p = req[r]
  OBVIOUS
<1>5. Shaped(p) /\ Timely(p)
  BY <1>2, <1>3, <1>4 DEF RequestFacts
<1>6. PICK y : y = [p EXCEPT !.pc = "locked", !.scopeSum = m, !.browserSum = n]
  OBVIOUS
<1>7. y = [pc |-> "locked", kind |-> p.kind, browser |-> p.browser, state |-> p.state, code |-> p.code,
           since |-> p.since, now |-> p.now, owner |-> p.owner, scopeSum |-> m, browserSum |-> n]
  BY <1>5, <1>6 DEF Shaped
<1>8. Shaped(y) /\ y.pc = "locked" /\ y.now = p.now /\ y.browser = p.browser /\ y.since = p.since
  BY <1>7 DEF Shaped
<1>9. Becomes(r) /\ req'[r] = y
  BY <1>2, <1>3, <1>4, <1>6 DEF Becomes
<1>10. Timely(req[r])'
  BY <1>2, <1>5, <1>8, <1>9 DEF Timely
<1>11. RequestFacts(r)'
  BY <1>8, <1>9, <1>10 DEF RequestFacts, Holding
<1> QED
  BY <1>2, <1>8, <1>9, <1>11, LoginShrinks

\* A new attempt takes a name that nothing bears.
LEMMA CreateAttemptStep ==
  ASSUME SessionInv, NEW r \in Requests, CreateLoginAttempt(r, DOMAIN sessions), UNCHANGED sessionVars
  PROVE  SessionInv'
<1>1. PICK s, row : s = Fresh(Unused(DOMAIN sessions)) /\ row = NewLoginAttempt(r)
  OBVIOUS
<1>2. PICK D : attempts' = With(Without(attempts, D), s, row)
  BY <1>1 DEF CreateLoginAttempt, CreateOIDCLoginAttempt
<1>3. req' = Answer(r) /\ clock' = clock /\ Unused(DOMAIN sessions) # {}
  BY DEF CreateLoginAttempt
<1>4. s \in Unused(DOMAIN sessions)
  BY <1>1, <1>3 DEF Fresh
<1>5. s \in States \ DOMAIN sessions /\ \A q \in Requests : req[q].pc = "consumed" => req[q].state # s
  BY <1>4 DEF Unused, Busy
<1>6. DOMAIN attempts' \subseteq DOMAIN attempts \cup {s}
  BY <1>2 DEF With, Without, Restrict
<1>7. DOMAIN attempts' \subseteq States \ DOMAIN sessions
  BY <1>5, <1>6, AttemptNames
<1>8. \A q \in Requests \ {r} : req[q].pc = "consumed" => req[q].state \notin DOMAIN attempts'
  BY <1>5, <1>6 DEF SessionInv, RequestFacts
<1> QED
  BY <1>3, <1>7, <1>8, Answered, LoginMove

\* A consumed attempt is one request's alone.
LEMMA ConsumeStep ==
  ASSUME SessionInv, NEW r \in Requests, ConsumeLoginAttempt(r), UNCHANGED sessionVars
  PROVE  SessionInv'
<1>1. PICK s : s = req[r].state
  OBVIOUS
<1>2. /\ req[r].pc = "scoped" /\ s \in DOMAIN attempts /\ attempts[s].browser = req[r].browser /\ clock' = clock
      /\ attempts' = Without(attempts, {s})
      /\ req' = [Advance(r, "consumed") EXCEPT ![r].owner = attempts[s].browser]
  BY <1>1 DEF ConsumeLoginAttempt, GetOIDCLoginAttemptForUpdate, BindingMatches, DeleteOIDCLoginAttempt
<1>3. req = [q \in Requests |-> req[q]] /\ RequestFacts(r) /\ clock \in Nat
  BY DEF SessionInv
<1>4. PICK p : p = req[r]
  OBVIOUS
<1>5. Shaped(p) /\ Timely(p)
  BY <1>2, <1>3, <1>4 DEF RequestFacts
<1>6. PICK y : y = [p EXCEPT !.pc = "consumed", !.now = clock, !.owner = p.browser]
  OBVIOUS
<1>7. y = [pc |-> "consumed", kind |-> p.kind, browser |-> p.browser, state |-> p.state, code |-> p.code,
           since |-> p.since, now |-> clock, owner |-> p.browser, scopeSum |-> p.scopeSum, browserSum |-> p.browserSum]
  BY <1>5, <1>6 DEF Shaped
<1>8. /\ Shaped(y) /\ y.pc = "consumed" /\ y.now = clock /\ y.browser = p.browser /\ y.since = p.since
      /\ y.state = s /\ y.owner = y.browser
  BY <1>1, <1>4, <1>7 DEF Shaped
<1>9. Becomes(r) /\ req'[r] = y
  BY <1>2, <1>3, <1>4, <1>6 DEF Becomes, Advance
<1>10. Timely(req[r])'
  BY <1>2, <1>3, <1>5, <1>8, <1>9, TimelyNow
<1>11. DOMAIN attempts' = DOMAIN attempts \ {s}
  BY <1>2 DEF Without, Restrict
<1>12. DOMAIN attempts' \subseteq States \ DOMAIN sessions /\ s \in States \ DOMAIN sessions
  BY <1>2, <1>11, AttemptNames
<1>13. RowsEvolve /\ RowFacts' /\ AnswerFacts' /\ sessions' = sessions
  BY <1>2, <1>12, LoginRows
<1>14. RequestFacts(r)'
  BY <1>8, <1>9, <1>10, <1>11, <1>12, <1>13 DEF RequestFacts, Holding
<1>15. \A q \in Requests \ {r} : req[q].pc = "consumed" =>
         req[q].state \notin DOMAIN attempts \cup DOMAIN sessions
  BY DEF SessionInv, RequestFacts
<1> QED
  BY <1>2, <1>8, <1>9, <1>11, <1>13, <1>14, <1>15, RequestStep

\* A callback finds no attempt that lives.
LEMMA ConsumeExpiredStep ==
  ASSUME SessionInv, NEW r \in Requests, ConsumeExpired(r), UNCHANGED sessionVars
  PROVE  SessionInv'
<1>1. req' = Answer(r) /\ clock' = clock /\ attempts' = Without(attempts, {req[r].state})
  BY DEF ConsumeExpired, DeleteOIDCLoginAttempt
<1>2. DOMAIN attempts' \subseteq DOMAIN attempts
  BY <1>1 DEF Without, Restrict
<1> QED
  BY <1>1, <1>2, Answered, LoginShrinks

\* A login request dies or is answered.
LEMMA GiveUpStep ==
  ASSUME SessionInv, NEW r \in Requests, GiveUp(r), UNCHANGED sessionVars
  PROVE  SessionInv'
<1>1. req' = Answer(r) /\ clock' = clock /\ attempts' = attempts
  BY DEF GiveUp
<1> QED
  BY <1>1, Answered, LoginShrinks

\* The clock waits for every request to see it at most once.
LEMMA TickStep ==
  ASSUME SessionInv, Tick, UNCHANGED sessionVars
  PROVE  SessionInv'
<1>1. /\ clock' = clock + 1 /\ clock \in Nat /\ \A r \in Requests : req[r].pc # "idle" => req[r].since = clock
      /\ UNCHANGED <<req, attempts, sessions, codes, tokens, cookie, auditTrail, answers>>
  BY DEF Tick, SessionInv, Busy, attemptVars, sessionVars
<1>2. RowsEvolve
  BY <1>1 DEF RowsEvolve
<1>3. RowFacts /\ AnswerFacts
  BY DEF SessionInv
<1>4. ASSUME NEW s \in DOMAIN sessions' PROVE SessionFacts(s)'
  <2>1. SessionFacts(s) /\ AbsoluteTimeout \in Nat
    BY <1>1, <1>3, TimeoutsValid DEF RowFacts, Timeouts
  <2>2. PICK o : o = Opened(s)
    OBVIOUS
  <2>3. o \in Int /\ o <= clock
    BY <2>1, <2>2 DEF SessionFacts, SessionRows, Opened
  <2>4. o <= clock + 1
    BY <1>1, <2>3
  <2> QED
    BY <1>1, <2>1, <2>2, <2>4 DEF SessionFacts, Opened
<1>5. RowFacts'
  BY <1>1, <1>3, <1>4 DEF RowFacts
<1>6. ASSUME NEW s \in DOMAIN sessions, Dead(s) PROVE Dead(s)'
  <2>1. sessions[s].absolute \in Nat
    BY <1>3 DEF RowFacts, SessionFacts, SessionRows
  <2> QED
    BY <1>1, <1>6, <2>1 DEF Dead
<1>7. AnswerFacts'
  <2>1. CookieIsOwnAndAudited' /\ ServedIsUnrevoked'
    BY <1>1, <1>3 DEF AnswerFacts, CookieIsOwnAndAudited, ServedIsUnrevoked
  <2>2. \A s \in States : <<"signed out", s>> \in answers' \/ <<"abandoned", s>> \in answers' =>
          s \in DOMAIN sessions' /\ Dead(s)'
    BY <1>1, <1>3, <1>6 DEF AnswerFacts
  <2>3. ASSUME NEW c \in Codes, <<"token signed out", c>> \in answers'
        PROVE  /\ c \in DOMAIN tokens' /\ Dead(tokens[c].session)'
               /\ <<"token logout", c>> \in auditTrail' \/ tokens'[c].expires <= clock'
    <3>1. /\ c \in DOMAIN tokens /\ Dead(tokens[c].session)
          /\ <<"token logout", c>> \in auditTrail \/ tokens[c].expires <= clock
      BY <1>1, <1>3, <2>3 DEF AnswerFacts
    <3>2. tokens[c].session \in DOMAIN sessions /\ tokens[c].expires = sessions[tokens[c].session].absolute
      BY <1>3, <3>1, TokenFacts
    <3>3. tokens[c].expires \in Nat
      BY <1>3, <3>2 DEF RowFacts, SessionFacts, SessionRows
    <3>4. tokens[c].expires <= clock => tokens[c].expires <= clock + 1
      BY <1>1, <3>3
    <3>5. sessions[tokens[c].session].revoked \/ sessions[tokens[c].session].absolute =< clock + 1
      BY <3>1, <3>2, <3>3, <3>4 DEF Dead
    <3> QED
      BY <1>1, <3>1, <3>4, <3>5 DEF Dead
  <2> QED
    BY <2>1, <2>2, <2>3 DEF AnswerFacts
<1>8. ASSUME NEW r \in Requests PROVE RequestFacts(r)'
  <2>1. RequestFacts(r)
    BY DEF SessionInv
  <2>2. req[r].pc # "idle" => Timely(req[r])'
    <3> SUFFICES ASSUME req[r].pc # "idle" PROVE Timely(req[r])'
      OBVIOUS
    <3>1. PICK p, b, n : p = req[r] /\ b = p.since /\ n = p.now
      OBVIOUS
    <3>2. b = clock /\ n \in Nat /\ b <= n /\ n <= clock /\ p.browser \in Browsers
      BY <1>1, <2>1, <3>1 DEF RequestFacts, Timely
    <3>3. n <= clock + 1 /\ clock + 1 <= b + 1 /\ b \in Nat
      BY <1>1, <3>2
    <3>4. req'[r] = p /\ clock' = clock + 1
      BY <1>1, <3>1
    <3> QED
      BY <3>1, <3>2, <3>3, <3>4 DEF Timely
  <2>3. clock' \in Nat
    BY <1>1
  <2>4. req[r].pc = "consumed" => req[r].state \notin DOMAIN attempts' \cup DOMAIN sessions'
    BY <1>1, <2>1 DEF RequestFacts
  <2> QED
    BY <1>1, <1>2, <2>1, <2>2, <2>3, <2>4, RequestKept
<1> QED
  BY <1>1, <1>5, <1>7, <1>8 DEF SessionInv

\* Nobody is logged in, and nothing is stored, at first.
LEMMA SessionInitInv ==
  ASSUME LoginInit, SessionInit
  PROVE  SessionInv
<1>1. /\ clock = 0 /\ attempts = <<>> /\ sessions = <<>> /\ codes = <<>> /\ tokens = <<>>
      /\ cookie = [b \in Browsers |-> NoOne] /\ auditTrail = {} /\ answers = {}
      /\ req = [r \in Requests |-> Idle]
  BY DEF LoginInit, SessionInit
<1>2. \A f : f = <<>> => DOMAIN f = {} /\ f = [x \in DOMAIN f |-> f[x]]
  OBVIOUS
<1>3. RowFacts
  <2>1. /\ DOMAIN attempts = {} /\ DOMAIN sessions = {} /\ DOMAIN codes = {} /\ DOMAIN tokens = {}
        /\ sessions = [s \in DOMAIN sessions |-> sessions[s]] /\ codes = [c \in DOMAIN codes |-> codes[c]]
    BY <1>1, <1>2
  <2>2. tokens = [c \in DOMAIN tokens |->
                   [session |-> codes[c].session, expires |-> sessions[codes[c].session].absolute]]
    BY <1>1, <2>1
  <2>3. cookie \in [Browsers -> DOMAIN sessions \cup {NoOne}]
    BY <1>1
  <2> QED
    BY <2>1, <2>2, <2>3 DEF RowFacts
<1>4. AnswerFacts
  <2>1. CookieIsOwnAndAudited
    BY <1>1 DEF CookieIsOwnAndAudited
  <2>2. ServedIsUnrevoked
    BY <1>1 DEF ServedIsUnrevoked
  <2> QED
    BY <1>1, <2>1, <2>2 DEF AnswerFacts
<1>5. \A r \in Requests : req[r].pc = "idle" /\ RequestFacts(r)
  BY <1>1 DEF RequestFacts, Idle, Holding
<1> QED
  BY <1>1, <1>3, <1>4, <1>5 DEF SessionInv

\* Every step of a login keeps the session invariant.
LEMMA LoginStepInv ==
  ASSUME SessionInv, NEW r \in Requests, LoginStep(r, DOMAIN sessions), UNCHANGED sessionVars
  PROVE  SessionInv'
<1>1. ASSUME NEW b \in Browsers, Authorize(r, b) PROVE SessionInv'
  BY <1>1, AuthorizeStep
<1>2. ASSUME NEW b \in Browsers, NEW s \in States, Callback(r, b, s) PROVE SessionInv'
  BY <1>2, CallbackStep
<1>3. CASE AllowAuthorize(r)
  BY <1>3, AllowAuthorizeStep
<1>4. CASE StartLogin(r)
  BY <1>4, StartLoginStep
<1>5. CASE CountAttempts(r)
  BY <1>5, CountStep
<1>6. CASE CreateLoginAttempt(r, DOMAIN sessions)
  BY <1>6, CreateAttemptStep
<1>7. CASE ConsumeLoginAttempt(r)
  BY <1>7, ConsumeStep
<1>8. CASE ConsumeExpired(r)
  BY <1>8, ConsumeExpiredStep
<1>9. CASE GiveUp(r)
  BY <1>9, GiveUpStep
<1> QED
  BY <1>1, <1>2, <1>3, <1>4, <1>5, <1>6, <1>7, <1>8, <1>9 DEF LoginStep

\* Every step on a session keeps the session invariant.
LEMMA SessionStepInv ==
  ASSUME SessionInv, NEW r \in Requests, SessionStep(r)
  PROVE  SessionInv'
<1>1. ASSUME NEW b \in Browsers, NEW kind \in {"me", "logout"}, PresentCookie(r, b, kind) PROVE SessionInv'
  BY <1>1, PresentCookieStep
<1>2. ASSUME NEW b \in Browsers, NEW c \in Codes, StartExchange(r, b, c) PROVE SessionInv'
  BY <1>2, StartExchangeStep
<1>3. CASE AuthorizeWithCookie(r) \/ GetSession(r) \/ GetSessionInvalid(r) \/ IssueCode(r)
  BY <1>3, AuthorizeWithCookieStep, GetSessionStep, GetSessionInvalidStep, IssueCodeStep
<1>4. ASSUME NEW c \in Codes, NEW kind \in {"me", "logout"}, PresentToken(r, c, kind) PROVE SessionInv'
  BY <1>4, PresentTokenStep
<1>5. CASE CreateAuthorizationCode(r) \/ ExchangeAuthorizationCode(r) \/ CreateSession(r) \/ AppendBrowserAudit(r)
  BY <1>5, CreateCodeStep, ExchangeStep, CreateSessionStep, AppendAuditStep
<1>6. CASE CallbackFails(r) \/ CleanUp(r) \/ CleanUpUnavailable(r) \/ LogoutBrowserSession(r)
  BY <1>6, CallbackFailsStep, CleanUpStep, CleanUpUnavailableStep, LogoutStep
<1>7. CASE GetActiveBrowserAccessToken(r) \/ UseAccessToken(r) \/ TokenRejected(r)
  BY <1>7, LookupStep, UseAccessTokenStep, TokenRejectedStep
<1>8. CASE RevokeAndGetBrowserSessionByAccessToken(r) \/ TokenAlreadyDead(r)
  BY <1>8, TokenRevokeStep, TokenAlreadyDeadStep
<1>9. CASE AppendIdempotentAccessLogoutAudit(r) \/ GiveUpSession(r)
  BY <1>9, TokenAuditStep, GiveUpSessionStep
<1> QED
  BY <1>1, <1>2, <1>3, <1>4, <1>5, <1>6, <1>7, <1>8, <1>9 DEF SessionStep

\* So does every step of the whole.
LEMMA SessionsNextInv ==
  ASSUME SessionInv, [SessionsNext]_<<loginVars, sessionVars>>
  PROVE  SessionInv'
<1>1. CASE UNCHANGED <<loginVars, sessionVars>>
  <2>1. UNCHANGED <<clock, req, attempts, sessions, codes, tokens, cookie, auditTrail, answers>>
    BY <1>1 DEF loginVars, attemptVars, sessionVars
  <2>2. RowFacts' /\ AnswerFacts'
    BY <2>1 DEF SessionInv, RowFacts, SessionFacts, Opened, AnswerFacts, CookieIsOwnAndAudited, ServedIsUnrevoked, Dead
  <2>3. \A r \in Requests : RequestFacts(r)'
    BY <2>1 DEF SessionInv, RequestFacts, Timely, Opened
  <2> QED
    BY <2>1, <2>2, <2>3 DEF SessionInv
<1>2. ASSUME NEW r \in Requests, SessionStep(r) PROVE SessionInv'
  BY <1>2, SessionStepInv
<1>3. ASSUME NEW r \in Requests, LoginStep(r, DOMAIN sessions), UNCHANGED sessionVars PROVE SessionInv'
  BY <1>3, LoginStepInv
<1>4. CASE Tick /\ UNCHANGED sessionVars
  BY <1>4, TickStep
<1> QED
  BY <1>1, <1>2, <1>3, <1>4 DEF SessionsNext

\* The invariant of logins and sessions, whatever requests are in flight
\* (browserauth and browser_auth.go).
THEOREM SessionInvariant == SessionsSpec => []SessionInv
<1>1. LoginInit /\ SessionInit => SessionInv
  BY SessionInitInv
<1>2. SessionInv /\ [SessionsNext]_<<loginVars, sessionVars>> => SessionInv'
  BY SessionsNextInv
<1> QED
  BY <1>1, <1>2, PTL DEF SessionsSpec

\* Whoever was told that a session ended finds it ended for good, and nothing
\* is served on a revoked session, though its row, the time a request compares
\* with and its cookie were read in different transactions (logout, callback,
\* UseSession and UseAccessToken).
THEOREM SessionsStayEnded == SessionsSpec => []EndedStaysEnded
<1>1. SessionInv => EndedStaysEnded
  BY DEF SessionInv, AnswerFacts, EndedStaysEnded, SignedOutIsOver, AbandonedIsDead
<1> QED
  BY <1>1, SessionInvariant, PTL

\* A cookie is an audited session of the browser itself, and a confirmed logout
\* by token is in the audit trail or its token had run out (callback and
\* LogoutBrowserAccessToken).
THEOREM AccountedSessions == SessionsSpec => []SessionsAreAccounted
<1>1. SessionInv => SessionsAreAccounted
  <2> SUFFICES ASSUME SessionInv PROVE SessionsAreAccounted
    OBVIOUS
  <2>1. SessionTypeOK
    BY DEF SessionInv, RowFacts, SessionFacts, SessionRows, SessionTypeOK
  <2> QED
    BY <2>1 DEF SessionInv, AnswerFacts, SessionsAreAccounted, TokenLogoutAudited
<1> QED
  BY <1>1, SessionInvariant, PTL


\* Objects that are told apart by key, at most table[k] of them under each key k,
\* are no more than the sum of the table.
LEMMA SumCovers ==
  ASSUME NEW S, IsFiniteSet(S), NEW K, IsFiniteSet(K), NEW table, NEW key \in [S -> K],
         \A k \in K : table[k] \in Nat /\ Cardinality({s \in S : key[s] = k}) <= table[k]
  PROVE  /\ Cardinality(Slots(table, K)) \in Nat
         /\ Cardinality(S) <= Cardinality(Slots(table, K))
<1> DEFINE T(k) == {s \in S : key[s] = k}
           n(k) == Cardinality(T(k))
           F == [k \in K |-> CHOOSE f \in [T(k) -> 1..n(k)] : \A s, t \in T(k) : f[s] = f[t] => s = t]
           g == [s \in S |-> <<key[s], F[key[s]][s]>>]
<1>1. ASSUME NEW k \in K
      PROVE  /\ n(k) \in Nat
             /\ F[k] \in [T(k) -> 1..n(k)] /\ \A s, t \in T(k) : F[k][s] = F[k][t] => s = t
  <2>1. IsFiniteSet(T(k)) /\ T(k) \in SUBSET S
    BY FS_Subset
  <2>2. n(k) \in Nat /\ ExistsBijection(1..n(k), T(k))
    BY <2>1, FS_CardinalityType
  <2>3. IsFiniteSet(1..n(k)) /\ Cardinality(1..n(k)) = n(k)
    BY <2>2, FS_Interval
  <2>4. ExistsBijection(T(k), 1..n(k))
    BY <2>1, <2>3, FS_SameCardinalityBij
  <2>5. \E f \in [T(k) -> 1..n(k)] : \A s, t \in T(k) : f[s] = f[t] => s = t
    BY <2>4, Zenon DEF ExistsBijection, Bijection, Injection, IsInjective
  <2> QED
    BY <2>2, <2>5
<1>2. ASSUME NEW k \in K PROVE IsFiniteSet({k} \X (1..table[k]))
  <2>1. IsFiniteSet({k})
    BY FS_Singleton
  <2>2. PICK m \in Nat : m = table[k]
    OBVIOUS
  <2>3. IsFiniteSet(1..m)
    BY <2>2, FS_Interval
  <2> QED
    BY <2>1, <2>2, <2>3, FS_Product
<1>3. IsFiniteSet(Slots(table, K))
  <2> DEFINE P == [k \in K |-> {k} \X (1..table[k])]
             I == {P[k] : k \in K}
  <2>1. P \in Surjection(K, I)
    BY DEF Surjection
  <2>2. IsFiniteSet(I)
    BY <2>1, FS_Surjection
  <2>3. \A X \in I : IsFiniteSet(X)
    BY <1>2
  <2>4. Slots(table, K) = UNION I
    BY DEF Slots
  <2> QED
    BY <2>2, <2>3, <2>4, FS_UNION
<1>4. g \in [S -> Slots(table, K)]
  <2> SUFFICES ASSUME NEW s \in S PROVE g[s] \in Slots(table, K)
    OBVIOUS
  <2>1. PICK k \in K : k = key[s]
    OBVIOUS
  <2>2. s \in T(k)
    BY <2>1
  <2>3. PICK i : i = F[k][s]
    OBVIOUS
  <2>4. i \in 1..n(k)
    BY <1>1, <2>2, <2>3
  <2>5. i \in 1..table[k]
    <3>1. n(k) \in Nat /\ n(k) <= table[k] /\ table[k] \in Nat
      BY <1>1
    <3> HIDE DEF n
    <3> QED
      BY <2>4, <3>1
  <2>6. g[s] = <<k, i>>
    BY <2>1, <2>3
  <2>7. <<k, i>> \in {k} \X (1..table[k])
    BY <2>5
  <2> HIDE DEF g
  <2> QED
    BY <2>6, <2>7 DEF Slots
<1>5. \A s, t \in S : g[s] = g[t] => s = t
  <2> SUFFICES ASSUME NEW s \in S, NEW t \in S, g[s] = g[t] PROVE s = t
    OBVIOUS
  <2>1. PICK k \in K : k = key[s]
    OBVIOUS
  <2>2. <<key[s], F[key[s]][s]>> = <<key[t], F[key[t]][t]>>
    OBVIOUS
  <2> HIDE DEF F, g
  <2>3. key[s] = key[t] /\ F[key[s]][s] = F[key[t]][t]
    BY <2>2
  <2>4. s \in T(k) /\ t \in T(k) /\ F[k][s] = F[k][t]
    BY <2>1, <2>3
  <2> HIDE DEF T
  <2> QED
    BY <1>1, <2>4
<1>6. g \in Injection(S, Slots(table, K))
  <2> HIDE DEF g
  <2>1. DOMAIN g = S
    BY <1>4
  <2> QED
    BY <1>4, <1>5, <2>1 DEF Injection, IsInjective
<1> QED
  BY <1>3, <1>6, FS_Injection, FS_CardinalityType

-----------------------------------------------------------------------------
(* Windows                                                                   *)

\* Arithmetic: a later window starts after the earlier one ended.
LEMMA Multiples ==
  ASSUME NEW w \in Nat, NEW p \in Int, NEW q \in Int, p < q
  PROVE  w * p + w <= w * q
<1>1. PICK d \in Nat : q = p + 1 + d
  <2>1. q - p - 1 \in Nat /\ q = p + 1 + (q - p - 1)
    OBVIOUS
  <2> QED
    BY <2>1
<1>2. w * q = w * p + w + w * d
  BY <1>1
<1>3. w * d >= 0 /\ w * p \in Int /\ w * d \in Int
  BY SMT
<1> QED
  BY <1>2, <1>3

\* Arithmetic: an instant is in the window that division says.
LEMMA Divided ==
  ASSUME NEW w \in Nat \ {0}, NEW t \in Nat
  PROVE  /\ t \div w \in Int /\ (t % w) \in 0..(w - 1)
         /\ t = w * (t \div w) + (t % w)
         /\ (t % w) <= t
OBVIOUS

\* A window starts no later than the times in it, and never before an earlier one.
LEMMA WindowsAdvance ==
  ASSUME NEW t \in Nat
  PROVE  /\ WindowStart(t) \in Nat /\ WindowStart(t) <= t
         /\ WindowStart(t + 1) \in Nat /\ WindowStart(t) <= WindowStart(t + 1)
<1>1. Window \in Nat \ {0}
  BY LimitsValid DEF Limits
<1>2. PICK p \in Int, i \in 0..(Window - 1) : t = Window * p + i /\ i <= t /\ WindowStart(t) = t - i
  BY <1>1, Divided DEF WindowStart
<1>3. PICK q \in Int, j \in 0..(Window - 1) :
        t + 1 = Window * q + j /\ j <= t + 1 /\ WindowStart(t + 1) = (t + 1) - j
  <2>1. t + 1 \in Nat
    OBVIOUS
  <2>2. PICK u \in Nat : u = t + 1
    BY <2>1
  <2>3. \E q \in Int, j \in 0..(Window - 1) : u = Window * q + j /\ j <= u /\ WindowStart(u) = u - j
    BY <1>1, Divided DEF WindowStart
  <2> QED
    BY <2>2, <2>3
<1>4. PICK x, y : x = Window * p /\ y = Window * q
  OBVIOUS
<1>5. x \in Int /\ y \in Int
  BY <1>1, <1>4
<1>6. p <= q
  <2> SUFFICES ASSUME q < p PROVE FALSE
    OBVIOUS
  <2>1. y + Window <= x
    BY <1>1, <1>4, Multiples
  <2> QED
    BY <1>1, <1>2, <1>3, <1>4, <1>5, <2>1
<1>7. x <= y
  <2>1. CASE p = q
    BY <1>4, <1>5, <2>1
  <2>2. CASE p < q
    BY <1>1, <1>4, <1>5, <2>2, Multiples
  <2> QED
    BY <1>6, <2>1, <2>2
<1>8. t = x + i /\ t + 1 = y + j
  BY <1>2, <1>3, <1>4
<1>9. WindowStart(t) = x /\ WindowStart(t + 1) = y
  BY <1>1, <1>2, <1>3, <1>5, <1>8
<1>10. 0 <= t - i
  BY <1>1, <1>2
<1> QED
  BY <1>1, <1>2, <1>5, <1>7, <1>8, <1>9, <1>10

-----------------------------------------------------------------------------
(* Rows                                                                      *)

\* A table without some rows is a table of the others.
LEMMA WithoutRows ==
  ASSUME NEW T, NEW table, table \in [DOMAIN table -> T], IsFiniteSet(DOMAIN table), NEW D, NEW t, t = Without(table, D)
  PROVE  /\ t \in [DOMAIN t -> T] /\ DOMAIN t = DOMAIN table \ D /\ IsFiniteSet(DOMAIN t)
         /\ \A k \in DOMAIN t : t[k] = table[k]
<1>1. t = [k \in DOMAIN table \ D |-> table[k]]
  <2>1. DOMAIN table \ (DOMAIN table \cap D) = DOMAIN table \ D
    OBVIOUS
  <2> QED
    BY <2>1 DEF Without, Restrict
<1>2. DOMAIN t = DOMAIN table \ D /\ DOMAIN t \in SUBSET DOMAIN table
  BY <1>1
<1>3. IsFiniteSet(DOMAIN t)
  BY <1>2, FS_Subset
<1> QED
  BY <1>1, <1>2, <1>3

\* A table with a row more, or another, is a table.
LEMMA WithRow ==
  ASSUME NEW T, NEW table, table \in [DOMAIN table -> T], IsFiniteSet(DOMAIN table), NEW k, NEW row \in T,
         NEW t, t = With(table, k, row)
  PROVE  /\ t \in [DOMAIN t -> T] /\ DOMAIN t = DOMAIN table \cup {k} /\ IsFiniteSet(DOMAIN t)
         /\ t[k] = row /\ \A j \in DOMAIN table \ {k} : t[j] = table[j]
<1>1. IsFiniteSet(DOMAIN table \cup {k})
  BY FS_AddElement
<1>2. t = [j \in DOMAIN table \cup {k} |-> IF j = k THEN row ELSE table[j]]
  BY DEF With
<1> QED
  BY <1>1, <1>2

\* A table of counters.
Counter(table) == table \in [DOMAIN table -> Nat] /\ IsFiniteSet(DOMAIN table)

Incremented(table, k) == IF k \in DOMAIN table THEN [table EXCEPT ![k] = @ + 1] ELSE With(table, k, 1)

\* A counter incremented is a counter.
LEMMA Increments ==
  ASSUME NEW table, Counter(table), NEW k
  PROVE  Counter(Incremented(table, k)) /\ DOMAIN Incremented(table, k) = DOMAIN table \cup {k}
<1>1. CASE k \in DOMAIN table
  BY <1>1 DEF Incremented, Counter
<1>2. CASE k \notin DOMAIN table
  <2>1. IsFiniteSet(DOMAIN table \cup {k}) /\ table \in [DOMAIN table -> Nat]
    BY FS_AddElement DEF Counter
  <2>2. Incremented(table, k) = [j \in DOMAIN table \cup {k} |-> IF j = k THEN 1 ELSE table[j]]
    BY <1>2 DEF Incremented, With
  <2> QED
    BY <2>1, <2>2 DEF Counter
<1> QED
  BY <1>1, <1>2

\* Incrementing counts one more at its key, and the same elsewhere.
LEMMA CountedIncrement ==
  ASSUME NEW table, Counter(table), NEW k, NEW j
  PROVE  Counted(Incremented(table, k), j) = IF j = k THEN Counted(table, k) + 1 ELSE Counted(table, j)
<1>1. CASE k \in DOMAIN table
  BY <1>1 DEF Incremented, Counter, Counted
<1>2. CASE k \notin DOMAIN table
  <2>1. Incremented(table, k) = [i \in DOMAIN table \cup {k} |-> IF i = k THEN 1 ELSE table[i]]
    BY <1>2 DEF Incremented, With
  <2> QED
    BY <1>2, <2>1 DEF Counter, Counted
<1> QED
  BY <1>1, <1>2

Decremented(table, k) == [table EXCEPT ![k] = @ - 1]

\* A counter decremented where it is positive is a counter.
LEMMA Decrements ==
  ASSUME NEW table, Counter(table), NEW k \in DOMAIN table, table[k] > 0
  PROVE  Counter(Decremented(table, k)) /\ DOMAIN Decremented(table, k) = DOMAIN table
<1>1. table \in [DOMAIN table -> Nat] /\ table[k] - 1 \in Nat
  BY DEF Counter
<1> QED
  BY <1>1 DEF Counter, Decremented

\* Decrementing counts one less at its key, and the same elsewhere.
LEMMA CountedDecrement ==
  ASSUME NEW table, Counter(table), NEW k \in DOMAIN table, NEW j
  PROVE  Counted(Decremented(table, k), j) = IF j = k THEN Counted(table, k) - 1 ELSE Counted(table, j)
BY DEF Counter, Counted, Decremented

\* A clean-up takes only rows that are due.
LEMMA CleanedUp ==
  ASSUME NEW f, NEW D \in Batches(f)
  PROVE  D \subseteq DOMAIN f
BY DEF Batches, kSubset

\* Counters of rows that are not cleaned up keep their value.
LEMMA CountersWithout ==
  ASSUME NEW table, Counter(table), NEW D
  PROVE  Counter(Without(table, D)) /\ DOMAIN Without(table, D) = DOMAIN table \ D
BY WithoutRows DEF Counter

\* A clean-up leaves the counts of the keys it does not take.
LEMMA CountedWithout ==
  ASSUME NEW table, Counter(table), NEW D, NEW k, k \notin D
  PROVE  Counted(Without(table, D), k) = Counted(table, k)
<1>1. DOMAIN table \ (DOMAIN table \cap D) = DOMAIN table \ D
  OBVIOUS
<1>2. Without(table, D) = [j \in DOMAIN table \ D |-> table[j]]
  BY <1>1 DEF Without, Restrict
<1> QED
  BY <1>2 DEF Counted

-----------------------------------------------------------------------------
(* What upholds the limits                                                   *)

Attempts == [browser : Browsers, expires : Nat]

LimitTypes ==
  /\ clock \in 0..MaxTime
  /\ DOMAIN attempts \subseteq States /\ IsFiniteSet(DOMAIN attempts) /\ attempts \in [DOMAIN attempts -> Attempts]
  /\ Counter(scopeCounters) /\ Counter(browserCounters) /\ DOMAIN browserCounters \subseteq Browsers \X Nat
  /\ scopeLock \in Requests \cup {NoOne}
  /\ Counter(rate) /\ admitted \in [0..MaxTime -> Nat]

OutstandingOf(b, e) == {s \in Outstanding(e) : attempts[s].browser = b}

\* The counters of every expiry that is still to come are exact.
Exact ==
  \A e \in Nat : clock < e =>
    /\ Counted(scopeCounters, e) = Cardinality(Outstanding(e))
    /\ \A b \in Browsers : Counted(browserCounters, <<b, e>>) = Cardinality(OutstandingOf(b, e))

Live == {s \in DOMAIN attempts : attempts[s].expires > clock}

LiveOf(b) == {s \in Live : attempts[s].browser = b}

Quota == Cardinality(Live) <= Global /\ \A b \in Browsers : Cardinality(LiveOf(b)) <= PerBrowser

\* While a creator holds the scope's lock, what it counted covers what lives.
LockFacts(r) ==
  req[r].pc = "locked" =>
    /\ scopeLock = r /\ req[r].scopeSum \in Nat /\ req[r].browserSum \in Nat
    /\ Cardinality(Live) <= req[r].scopeSum /\ Cardinality(LiveOf(req[r].browser)) <= req[r].browserSum

\* The row of a window that has not passed counts all that it admitted.
RateFacts ==
  \A w \in 0..MaxTime :
    admitted[w] <= RateLimit /\ (WindowStart(clock) <= w => admitted[w] <= Counted(rate, w))

LimitInv == LimitTypes /\ Exact /\ Quota /\ (\A r \in Requests : LockFacts(r)) /\ RateFacts

\* What the limits and timeouts are assumed to be.
LEMMA LimitConstants ==
  /\ Global \in Nat /\ PerBrowser \in Nat /\ RateLimit \in Nat \ {0} /\ LoginTimeout \in Nat /\ LoginTimeout >= 2
  /\ NoOne \notin Requests /\ MaxTime \in Nat
BY LimitsValid DEF Limits

\* Sets of attempts are finite.
LEMMA AttemptSets ==
  ASSUME LimitTypes
  PROVE  /\ \A S \in SUBSET DOMAIN attempts : IsFiniteSet(S) /\ Cardinality(S) \in Nat
         /\ \A S \in SUBSET DOMAIN attempts : \A T \in SUBSET S : Cardinality(T) <= Cardinality(S)
         /\ \A e : Outstanding(e) \in SUBSET DOMAIN attempts
         /\ \A b, e : OutstandingOf(b, e) \in SUBSET DOMAIN attempts
         /\ Live \in SUBSET DOMAIN attempts /\ \A b : LiveOf(b) \in SUBSET DOMAIN attempts
<1>1. ASSUME NEW S \in SUBSET DOMAIN attempts PROVE IsFiniteSet(S) /\ Cardinality(S) \in Nat
  BY FS_Subset, FS_CardinalityType DEF LimitTypes
<1>2. ASSUME NEW S \in SUBSET DOMAIN attempts, NEW T \in SUBSET S PROVE Cardinality(T) <= Cardinality(S)
  BY <1>1, FS_Subset
<1> QED
  BY <1>1, <1>2 DEF Outstanding, OutstandingOf, Live, LiveOf

\* Fewer attempts, or a later clock, leave fewer that live.
LEMMA FewerLive ==
  ASSUME LimitInv, LimitTypes', clock <= clock', DOMAIN attempts' \subseteq DOMAIN attempts,
         \A s \in DOMAIN attempts' : attempts'[s] = attempts[s]
  PROVE  /\ Cardinality(Live') <= Cardinality(Live) /\ Cardinality(Live) \in Nat /\ Cardinality(Live') \in Nat
         /\ \A b : /\ Cardinality(LiveOf(b)') <= Cardinality(LiveOf(b))
                   /\ Cardinality(LiveOf(b)) \in Nat /\ Cardinality(LiveOf(b)') \in Nat
<1>1. LimitTypes /\ clock \in Nat /\ clock' \in Nat /\ \A s \in DOMAIN attempts : attempts[s].expires \in Nat
  BY DEF LimitInv, LimitTypes, Attempts
<1>2. Live' \in SUBSET Live /\ Live \in SUBSET DOMAIN attempts /\ Live' \in SUBSET DOMAIN attempts'
  BY <1>1 DEF Live
<1>3. \A b : LiveOf(b)' \in SUBSET LiveOf(b) /\ LiveOf(b) \in SUBSET DOMAIN attempts
  BY <1>2 DEF LiveOf
<1> QED
  BY <1>1, <1>2, <1>3, AttemptSets

\* A request moves on without counting anything, and the others keep the lock.
LEMMA LocksKept ==
  ASSUME LimitInv, LimitTypes', NEW r \in Requests, Becomes(r), clock' = clock,
         DOMAIN attempts' \subseteq DOMAIN attempts, \A s \in DOMAIN attempts' : attempts'[s] = attempts[s],
         req'[r].pc # "locked", scopeLock' = scopeLock \/ scopeLock \in {NoOne, r}
  PROVE  Quota' /\ \A q \in Requests : LockFacts(q)'
<1>1. /\ Cardinality(Live') <= Cardinality(Live) /\ Cardinality(Live) \in Nat /\ Cardinality(Live') \in Nat
      /\ \A b : /\ Cardinality(LiveOf(b)') <= Cardinality(LiveOf(b))
                /\ Cardinality(LiveOf(b)) \in Nat /\ Cardinality(LiveOf(b)') \in Nat
  <2>1. clock <= clock'
    BY DEF LimitInv, LimitTypes
  <2> QED
    BY <2>1, FewerLive
<1>2. Quota'
  BY <1>1, LimitConstants DEF LimitInv, Quota
<1>3. ASSUME NEW q \in Requests, req'[q].pc = "locked" PROVE LockFacts(q)'
  <2>1. q # r /\ req'[q] = req[q]
    BY <1>3 DEF Becomes
  <2>2. LockFacts(q) /\ req[q].pc = "locked"
    BY <1>3, <2>1 DEF LimitInv
  <2>3. scopeLock' = q
    BY <2>1, <2>2, LimitConstants DEF LockFacts
  <2> QED
    BY <1>1, <2>1, <2>2, <2>3 DEF LockFacts
<1> QED
  BY <1>2, <1>3 DEF LockFacts

\* Steps that have nothing to do with the limits.
LEMMA LimitsStay ==
  ASSUME LimitInv, NEW r \in Requests, Becomes(r), req'[r].pc # "locked",
         UNCHANGED <<clock, attempts, scopeCounters, browserCounters, rate, admitted>>,
         scopeLock' = scopeLock \/ (scopeLock' = NoOne /\ scopeLock = r)
  PROVE  LimitInv'
<1>1. LimitTypes'
  BY DEF LimitInv, LimitTypes, Counter
<1>2. Exact' /\ RateFacts'
  BY DEF LimitInv, Exact, RateFacts, Outstanding, OutstandingOf
<1>3. Quota' /\ \A q \in Requests : LockFacts(q)'
  BY <1>1, LocksKept
<1> QED
  BY <1>1, <1>2, <1>3 DEF LimitInv

\* A field of a request's record is changed; its pc is not "locked" before or after.
LEMMA FieldSet ==
  ASSUME SessionInv, NEW r \in Requests, req[r].pc # "idle", NEW pc, NEW p, p = req[r]
  PROVE  /\ \A n, s : [p EXCEPT !.pc = pc, !.now = n, !.state = s].pc = pc
         /\ \A n, k : [p EXCEPT !.pc = pc, !.now = n, !.kind = k].pc = pc
         /\ [p EXCEPT !.pc = pc].pc = pc
<1>1. Shaped(p)
  BY DEF SessionInv, RequestFacts
<1>2. {"pc", "now", "state", "kind"} \subseteq DOMAIN p
  BY <1>1 DEF Shaped
<1> QED
  BY <1>2

Aside(r) == Becomes(r) /\ req'[r].pc # "locked" /\ UNCHANGED loginRest

\* No step of a session takes part in the limits.
LEMMA SessionsAreElsewhere ==
  ASSUME SessionInv, NEW r \in Requests, SessionStep(r)
  PROVE  Aside(r)
<1>1. ASSUME UNCHANGED loginRest PROVE clock' = clock
  BY <1>1 DEF loginRest
<1>2. req = [q \in Requests |-> req[q]]
  BY DEF SessionInv
<1>3. ASSUME req' = Answer(r), UNCHANGED loginRest PROVE Aside(r)
  BY <1>3, Answered DEF Aside
<1>4. ASSUME NEW pc, pc # "locked", req[r].pc # "idle", req' = Advance(r, pc), UNCHANGED loginRest PROVE Aside(r)
  BY <1>1, <1>4, Advanced DEF Aside
<1>5. ASSUME NEW pc, pc # "locked", NEW kind, NEW b \in Browsers, NEW s, NEW c,
             Begin(r, pc, kind, b, s, c), UNCHANGED loginRest
      PROVE  Aside(r)
  BY <1>1, <1>5, Begun DEF Aside
<1>6. ASSUME NEW y, y.pc # "locked", req' = [req EXCEPT ![r] = y], UNCHANGED loginRest PROVE Aside(r)
  BY <1>2, <1>6 DEF Becomes, Aside
<1>7. ASSUME NEW pc, pc # "locked", req[r].pc # "idle", NEW s, req' = [Advance(r, pc) EXCEPT ![r].state = s], UNCHANGED loginRest
      PROVE  Aside(r)
  <2>1. PICK p, y : p = req[r] /\ y = [p EXCEPT !.pc = pc, !.now = clock, !.state = s]
    OBVIOUS
  <2>2. y.pc # "locked"
    BY <1>7, <2>1, FieldSet
  <2>3. req' = [req EXCEPT ![r] = y]
    BY <1>2, <1>7, <2>1 DEF Advance
  <2> QED
    BY <1>6, <1>7, <2>2, <2>3
<1>8. ASSUME NEW pc, pc # "locked", req[r].pc # "idle", NEW k, req' = [Advance(r, pc) EXCEPT ![r].kind = k], UNCHANGED loginRest
      PROVE  Aside(r)
  <2>1. PICK p, y : p = req[r] /\ y = [p EXCEPT !.pc = pc, !.now = clock, !.kind = k]
    OBVIOUS
  <2>2. y.pc # "locked"
    BY <1>8, <2>1, FieldSet
  <2>3. req' = [req EXCEPT ![r] = y]
    BY <1>2, <1>8, <2>1 DEF Advance
  <2> QED
    BY <1>6, <1>8, <2>2, <2>3
<1>9. ASSUME NEW b \in Browsers, NEW kind \in {"me", "logout"}, PresentCookie(r, b, kind) PROVE Aside(r)
  BY <1>5, <1>9 DEF PresentCookie
<1>10. ASSUME NEW b \in Browsers, NEW c \in Codes, StartExchange(r, b, c) PROVE Aside(r)
  BY <1>5, <1>10 DEF StartExchange
<1>11. CASE AuthorizeWithCookie(r)
  BY <1>7, <1>11 DEF AuthorizeWithCookie
<1>12. CASE GetSession(r)
  <2>1. req[r].kind \in Browsing /\ req[r].pc = "resolve"
    BY <1>12 DEF GetSession, SessionInv, RequestFacts
  <2>2. /\ UNCHANGED loginRest
        /\ req' = Advance(r, "issue") \/ req' = Advance(r, "revoke") \/ req' = Answer(r)
    BY <1>12, <2>1 DEF GetSession, Logout, Me, Stop, Browsing
  <2> QED
    BY <1>3, <1>4, <2>1, <2>2
<1>13. CASE GetSessionInvalid(r)
  BY <1>3, <1>7, <1>13 DEF GetSessionInvalid
<1>14. CASE IssueCode(r)
  BY <1>4, <1>14 DEF IssueCode
<1>15. ASSUME NEW c \in Codes, NEW kind \in {"me", "logout"}, PresentToken(r, c, kind) PROVE Aside(r)
  <2>1. codes[c].browser \in Browsers
    BY <1>15 DEF PresentToken, SessionInv, RowFacts
  <2> QED
    BY <1>5, <1>15, <2>1 DEF PresentToken
<1>16. CASE CreateAuthorizationCode(r)
  BY <1>3, <1>4, <1>16 DEF CreateAuthorizationCode, Stop
<1>17. CASE ExchangeAuthorizationCode(r)
  BY <1>3, <1>17 DEF ExchangeAuthorizationCode, Stop
<1>18. CASE CreateSession(r)
  BY <1>4, <1>18 DEF CreateSession
<1>19. CASE AppendBrowserAudit(r)
  BY <1>3, <1>19 DEF AppendBrowserAudit, Stop
<1>20. CASE CallbackFails(r)
  BY <1>4, <1>20 DEF CallbackFails
<1>21. CASE CleanUp(r)
  BY <1>3, <1>21 DEF CleanUp, Stop
<1>22. CASE CleanUpUnavailable(r)
  BY <1>3, <1>4, <1>22 DEF CleanUpUnavailable, Stop
<1>23. CASE LogoutBrowserSession(r)
  BY <1>3, <1>23 DEF LogoutBrowserSession, Stop
<1>24. CASE GetActiveBrowserAccessToken(r)
  <2>1. PICK p, y : p = req[r] /\ y = [p EXCEPT !.pc = "slide"]
    OBVIOUS
  <2>2. req[r].pc # "idle" /\ req' = [req EXCEPT ![r].pc = "slide"] /\ UNCHANGED loginRest
    BY <1>24 DEF GetActiveBrowserAccessToken
  <2>3. y.pc # "locked"
    BY <2>1, <2>2, FieldSet
  <2>4. req' = [req EXCEPT ![r] = y]
    BY <1>2, <2>1, <2>2
  <2> QED
    BY <1>6, <2>2, <2>3, <2>4
<1>25. CASE UseAccessToken(r)
  BY <1>3, <1>4, <1>25 DEF UseAccessToken, Logout, Me, Stop
<1>26. CASE TokenRejected(r)
  BY <1>3, <1>8, <1>26 DEF TokenRejected, Stop
<1>27. CASE RevokeAndGetBrowserSessionByAccessToken(r)
  BY <1>4, <1>27 DEF RevokeAndGetBrowserSessionByAccessToken
<1>28. CASE TokenAlreadyDead(r)
  BY <1>3, <1>28 DEF TokenAlreadyDead, Stop
<1>29. CASE AppendIdempotentAccessLogoutAudit(r)
  BY <1>3, <1>29 DEF AppendIdempotentAccessLogoutAudit, Stop
<1>30. CASE GiveUpSession(r)
  BY <1>3, <1>30 DEF GiveUpSession, Stop
<1> QED
  BY <1>9, <1>10, <1>11, <1>12, <1>13, <1>14, <1>15, <1>16, <1>17, <1>18, <1>19, <1>20, <1>21, <1>22, <1>23,
     <1>24, <1>25, <1>26, <1>27, <1>28, <1>29, <1>30 DEF SessionStep

-----------------------------------------------------------------------------
(* The rate limit                                                            *)

\* Only the rate limit's tables change.
LEMMA AttemptsStay ==
  ASSUME LimitInv, NEW r \in Requests, Becomes(r), req'[r].pc # "locked", UNCHANGED <<clock, attemptVars>>,
         Counter(rate)', admitted' \in [0..MaxTime -> Nat], RateFacts'
  PROVE  LimitInv'
<1>1. UNCHANGED <<clock, attempts, scopeCounters, browserCounters, scopeLock>>
  BY DEF attemptVars
<1>2. LimitTypes'
  BY <1>1 DEF LimitInv, LimitTypes, Counter
<1>3. Exact'
  BY <1>1 DEF LimitInv, Exact, Outstanding, OutstandingOf
<1>4. Quota' /\ \A q \in Requests : LockFacts(q)'
  BY <1>1, <1>2, LocksKept
<1> QED
  BY <1>2, <1>3, <1>4 DEF LimitInv

\* The clean-up spares the current window and those to come.
LEMMA LimitAuthorize ==
  ASSUME SessionInv, LimitInv, NEW r \in Requests, NEW b \in Browsers, Authorize(r, b)
  PROVE  LimitInv'
<1>1. Begin(r, "rate", "authorize", b, NoOne, NoOne) /\ clock' = clock /\ admitted' = admitted
      /\ UNCHANGED <<clock, attemptVars>>
  BY DEF Authorize
<1>2. Becomes(r) /\ req'[r].pc # "locked"
  BY <1>1, Begun
<1>3. PICK w : w = WindowStart(clock)
  OBVIOUS
<1>4. PICK D \in Batches([u \in {v \in DOMAIN rate : v < w} |-> u]) : rate' = Without(rate, D)
  BY <1>3 DEF Authorize, DeleteExpiredOIDCAuthorizeRateLimits
<1>5. D \subseteq {v \in DOMAIN rate : v < w}
  BY <1>4, CleanedUp
<1>6. w \in Nat
  BY <1>3, WindowsAdvance DEF SessionInv
<1>7. Counter(rate)
  BY DEF LimitInv, LimitTypes
<1>8. Counter(rate') /\ \A k : k \notin D => Counted(rate', k) = Counted(rate, k)
  <2>1. ASSUME NEW k, k \notin D PROVE Counted(rate', k) = Counted(rate, k)
    BY <1>4, <1>7, <2>1, CountedWithout
  <2> QED
    BY <1>4, <1>7, <2>1, CountersWithout
<1>9. \A v \in 0..MaxTime : w <= v => v \notin D
  BY <1>5, <1>6
<1>10. RateFacts'
  BY <1>1, <1>3, <1>8, <1>9 DEF LimitInv, RateFacts
<1>11. admitted' \in [0..MaxTime -> Nat]
  BY <1>1 DEF LimitInv, LimitTypes
<1> QED
  BY <1>1, <1>2, <1>8, <1>10, <1>11, AttemptsStay

\* One more is admitted, and counted, while there is room.
LEMMA LimitAllow ==
  ASSUME SessionInv, LimitInv, NEW r \in Requests, AllowAuthorize(r)
  PROVE  LimitInv'
<1>1. PICK w : w = WindowStart(req[r].now)
  OBVIOUS
<1>2. /\ req[r].pc = "rate" /\ req' = Advance(r, "admitted") /\ UNCHANGED <<clock, attemptVars>>
      /\ w \in DOMAIN rate => rate[w] < RateLimit
      /\ rate' = Incremented(rate, w)
      /\ admitted' = IF w = WindowStart(clock) THEN [admitted EXCEPT ![w] = @ + 1] ELSE admitted
  BY <1>1 DEF AllowAuthorize, ConsumeOIDCAuthorizeRateLimit, Incremented
<1>3. Becomes(r) /\ req'[r].pc # "locked"
  BY <1>2, Advanced
<1>4. Counter(rate) /\ admitted \in [0..MaxTime -> Nat] /\ clock \in 0..MaxTime /\ MaxTime \in Nat
  BY LimitConstants DEF LimitInv, LimitTypes
<1>5. /\ Counter(rate') /\ Counted(rate', w) = Counted(rate, w) + 1
      /\ \A v : v # w => Counted(rate', v) = Counted(rate, v)
  <2>1. ASSUME NEW v PROVE Counted(rate', v) = IF v = w THEN Counted(rate, w) + 1 ELSE Counted(rate, v)
    <3>1. rate' = Incremented(rate, w) /\ Counter(rate)
      BY <1>2, <1>4
    <3>2. Counted(Incremented(rate, w), v) = IF v = w THEN Counted(rate, w) + 1 ELSE Counted(rate, v)
      BY <3>1, CountedIncrement
    <3> QED
      BY <3>1, <3>2
  <2> QED
    BY <1>2, <1>4, <2>1, Increments
<1>6. \A v : Counted(rate, v) \in Nat
  BY <1>4 DEF Counted, Counter
<1>7. Counted(rate, w) < RateLimit
  BY <1>2, LimitConstants DEF Counted
<1>8. admitted' \in [0..MaxTime -> Nat]
  <2>1. CASE w = WindowStart(clock)
    <3>1. w \in 0..MaxTime
      BY <1>4, <2>1, WindowsAdvance
    <3> QED
      BY <1>2, <1>4, <2>1, <3>1
  <2> QED
    BY <1>2, <1>4, <2>1
<1>9. ASSUME NEW v \in 0..MaxTime
      PROVE  admitted'[v] <= RateLimit /\ (WindowStart(clock) <= v => admitted'[v] <= Counted(rate', v))
  <2>1. /\ admitted[v] \in Nat /\ admitted[v] <= RateLimit
        /\ WindowStart(clock) <= v => admitted[v] <= Counted(rate, v)
    BY <1>4 DEF LimitInv, RateFacts
  <2>2. CASE v = w /\ w = WindowStart(clock)
    <3>1. admitted'[v] = admitted[v] + 1
      BY <1>2, <1>4, <2>2
    <3>2. w \in Nat
      BY <2>2
    <3>3. PICK n, c : n = admitted[v] /\ c = Counted(rate, v)
      OBVIOUS
    <3>4. n \in Nat /\ c \in Nat /\ n <= c /\ c < RateLimit /\ RateLimit \in Nat
      BY <1>6, <1>7, <2>1, <2>2, <3>2, <3>3, LimitConstants
    <3> QED
      BY <1>5, <2>2, <3>1, <3>3, <3>4
  <2>3. CASE ~(v = w /\ w = WindowStart(clock))
    <3>1. admitted'[v] = admitted[v]
      BY <1>2, <1>4, <2>3
    <3>2. CASE v = w
      <4>1. PICK m, n, c : m = WindowStart(clock) /\ n = admitted[v] /\ c = Counted(rate, v)
        OBVIOUS
      <4>2. n \in Nat /\ c \in Nat /\ n <= RateLimit /\ (m <= v => n <= c)
        BY <1>6, <2>1, <4>1
      <4>3. m <= v => n <= c + 1
        BY <4>2
      <4> QED
        BY <1>5, <3>1, <3>2, <4>1, <4>2, <4>3
    <3>3. CASE v # w
      BY <1>5, <2>1, <3>1, <3>3
    <3> QED
      BY <3>2, <3>3
  <2> QED
    BY <2>2, <2>3
<1>10. clock' = clock
  BY <1>2
<1>11. RateFacts'
  BY <1>9, <1>10 DEF RateFacts, WindowStart
<1> QED
  BY <1>2, <1>3, <1>5, <1>8, <1>11, AttemptsStay DEF Counter

-----------------------------------------------------------------------------
(* The quotas                                                                *)

\* What lives is counted, even by a creator whose time is behind the clock.
LEMMA SumsCoverLive ==
  ASSUME LimitInv, NEW now \in Nat, now <= clock
  PROVE  /\ SumActiveOIDCLoginAttemptScope(now) \in Nat
         /\ Cardinality(Live) <= SumActiveOIDCLoginAttemptScope(now)
<1> DEFINE K == {e \in DOMAIN scopeCounters : e > now}
           key == [s \in Live |-> attempts[s].expires]
<1>1. LimitTypes /\ clock \in Nat /\ Counter(scopeCounters) /\ \A s \in DOMAIN attempts : attempts[s].expires \in Nat
  BY DEF LimitInv, LimitTypes, Attempts
<1>2. IsFiniteSet(Live) /\ \A e : IsFiniteSet(Outstanding(e)) /\ Cardinality(Outstanding(e)) \in Nat
  BY <1>1, AttemptSets
<1>3. IsFiniteSet(K)
  <2>1. K \in SUBSET DOMAIN scopeCounters
    OBVIOUS
  <2> QED
    BY <1>1, <2>1, FS_Subset DEF Counter
<1>4. ASSUME NEW s \in Live PROVE key[s] \in K
  <2>1. PICK e \in Nat : e = attempts[s].expires /\ clock < e /\ s \in Outstanding(e)
    BY <1>1 DEF Live, Outstanding
  <2>2. Cardinality(Outstanding(e)) # 0
    BY <1>2, <2>1, FS_EmptySet
  <2>3. Counted(scopeCounters, e) = Cardinality(Outstanding(e))
    BY <2>1 DEF LimitInv, Exact
  <2>4. e \in DOMAIN scopeCounters
    BY <2>2, <2>3 DEF Counted
  <2>5. e > now
    BY <1>1, <2>1
  <2> QED
    BY <2>1, <2>4, <2>5
<1>5. ASSUME NEW k \in K
      PROVE  scopeCounters[k] \in Nat /\ Cardinality({s \in Live : key[s] = k}) <= scopeCounters[k]
  <2>0. PICK X, n : X = {s \in Live : key[s] = k} /\ n = scopeCounters[k]
    OBVIOUS
  <2>1. n \in Nat
    BY <1>1, <2>0 DEF Counter
  <2> SUFFICES Cardinality(X) <= n
    BY <2>0, <2>1
  <2>2. CASE k \in Nat /\ clock < k
    <3>1. X = Outstanding(k)
      BY <1>1, <2>0, <2>2 DEF Live, Outstanding
    <3>2. Counted(scopeCounters, k) = Cardinality(Outstanding(k)) /\ Counted(scopeCounters, k) = scopeCounters[k]
      BY <2>2 DEF LimitInv, Exact, Counted
    <3>3. n = Cardinality(X)
      BY <2>0, <3>1, <3>2
    <3> QED
      BY <2>1, <3>3
  <2>3. CASE ~(k \in Nat /\ clock < k)
    <3>1. X = {}
      BY <1>1, <2>0, <2>3 DEF Live
    <3>2. Cardinality(X) = 0
      BY <3>1, FS_EmptySet
    <3> QED
      BY <2>1, <3>2
  <2> QED
    BY <2>2, <2>3
<1>6. key \in [Live -> K]
  BY <1>4
<1> HIDE DEF K, key
<1>7. Cardinality(Slots(scopeCounters, K)) \in Nat /\ Cardinality(Live) <= Cardinality(Slots(scopeCounters, K))
  BY <1>2, <1>3, <1>5, <1>6, SumCovers
<1> QED
  BY <1>7 DEF SumActiveOIDCLoginAttemptScope, K

\* The sum of a browser's counters covers its attempts that live.
LEMMA SumsCoverLiveOf ==
  ASSUME LimitInv, NEW now \in Nat, now <= clock, NEW b \in Browsers
  PROVE  /\ SumActiveOIDCLoginAttemptBrowser(b, now) \in Nat
         /\ Cardinality(LiveOf(b)) <= SumActiveOIDCLoginAttemptBrowser(b, now)
<1> DEFINE K == {k \in DOMAIN browserCounters : k[1] = b /\ k[2] > now}
           key == [s \in LiveOf(b) |-> <<b, attempts[s].expires>>]
<1>1. LimitTypes /\ clock \in Nat /\ Counter(browserCounters) /\ \A s \in DOMAIN attempts : attempts[s].expires \in Nat
  BY DEF LimitInv, LimitTypes, Attempts
<1>2. IsFiniteSet(LiveOf(b)) /\ \A e : IsFiniteSet(OutstandingOf(b, e)) /\ Cardinality(OutstandingOf(b, e)) \in Nat
  BY <1>1, AttemptSets
<1>3. IsFiniteSet(K)
  <2>1. K \in SUBSET DOMAIN browserCounters
    OBVIOUS
  <2> QED
    BY <1>1, <2>1, FS_Subset DEF Counter
<1>4. ASSUME NEW s \in LiveOf(b) PROVE key[s] \in K
  <2>1. PICK e \in Nat : e = attempts[s].expires /\ clock < e /\ s \in OutstandingOf(b, e)
    BY <1>1 DEF Live, LiveOf, Outstanding, OutstandingOf
  <2>2. Cardinality(OutstandingOf(b, e)) # 0
    BY <1>2, <2>1, FS_EmptySet
  <2>3. Counted(browserCounters, <<b, e>>) = Cardinality(OutstandingOf(b, e))
    BY <2>1 DEF LimitInv, Exact
  <2>4. <<b, e>> \in DOMAIN browserCounters
    BY <2>2, <2>3 DEF Counted
  <2>5. e > now
    BY <1>1, <2>1
  <2> QED
    BY <2>1, <2>4, <2>5
<1>5. ASSUME NEW k \in K
      PROVE  browserCounters[k] \in Nat /\ Cardinality({s \in LiveOf(b) : key[s] = k}) <= browserCounters[k]
  <2>0. PICK X, n : X = {s \in LiveOf(b) : key[s] = k} /\ n = browserCounters[k]
    OBVIOUS
  <2>1. n \in Nat
    BY <1>1, <2>0 DEF Counter
  <2> SUFFICES Cardinality(X) <= n
    BY <2>0, <2>1
  <2>2. PICK e \in Nat : k = <<b, e>>
    BY <1>1 DEF LimitTypes
  <2>3. CASE clock < e
    <3>1. X = OutstandingOf(b, e)
      BY <1>1, <2>0, <2>2, <2>3 DEF Live, LiveOf, Outstanding, OutstandingOf
    <3>2. Counted(browserCounters, k) = Cardinality(OutstandingOf(b, e)) /\ Counted(browserCounters, k) = browserCounters[k]
      BY <2>2, <2>3 DEF LimitInv, Exact, Counted
    <3>3. n = Cardinality(X)
      BY <2>0, <3>1, <3>2
    <3> QED
      BY <2>1, <3>3
  <2>4. CASE ~(clock < e)
    <3>1. X = {}
      BY <1>1, <2>0, <2>2, <2>4 DEF Live, LiveOf
    <3>2. Cardinality(X) = 0
      BY <3>1, FS_EmptySet
    <3> QED
      BY <2>1, <3>2
  <2> QED
    BY <2>3, <2>4
<1>6. key \in [LiveOf(b) -> K]
  BY <1>4
<1> HIDE DEF K, key
<1>7. /\ Cardinality(Slots(browserCounters, K)) \in Nat
      /\ Cardinality(LiveOf(b)) <= Cardinality(Slots(browserCounters, K))
  BY <1>2, <1>3, <1>5, <1>6, SumCovers
<1> QED
  BY <1>7 DEF SumActiveOIDCLoginAttemptBrowser, K

\* What the creator counted under the lock covers what lives, its own attempt with it.
LEMMA LimitCount ==
  ASSUME SessionInv, LimitInv, NEW r \in Requests, CountAttempts(r)
  PROVE  LimitInv'
<1>1. PICK m, n : /\ m = SumActiveOIDCLoginAttemptScope(req[r].now)
                  /\ n = SumActiveOIDCLoginAttemptBrowser(req[r].browser, req[r].now)
  OBVIOUS
<1>2. /\ req[r].pc = "create" /\ scopeLock = NoOne /\ scopeLock' = r
      /\ UNCHANGED <<clock, attempts, scopeCounters, browserCounters, rate, admitted>>
      /\ req' = [req EXCEPT ![r].pc = "locked", ![r].scopeSum = m, ![r].browserSum = n]
  BY <1>1 DEF CountAttempts, LockOIDCLoginAttemptScope, rateVars
<1>3. req = [q \in Requests |-> req[q]] /\ RequestFacts(r) /\ clock \in Nat
  BY DEF SessionInv
<1>4. PICK p : p = req[r]
  OBVIOUS
<1>5. Shaped(p) /\ Timely(p)
  BY <1>2, <1>3, <1>4 DEF RequestFacts
<1>6. PICK y : y = [p EXCEPT !.pc = "locked", !.scopeSum = m, !.browserSum = n]
  OBVIOUS
<1>7. y = [pc |-> "locked", kind |-> p.kind, browser |-> p.browser, state |-> p.state, code |-> p.code,
           since |-> p.since, now |-> p.now, owner |-> p.owner, scopeSum |-> m, browserSum |-> n]
  BY <1>5, <1>6 DEF Shaped
<1>8. y.browser = p.browser /\ y.scopeSum = m /\ y.browserSum = n
  BY <1>7
<1>9. req'[r] = y /\ \A q \in Requests \ {r} : req'[q] = req[q]
  BY <1>2, <1>3, <1>4, <1>6
<1>10. p.now \in Nat /\ p.now <= clock /\ p.browser \in Browsers
  BY <1>5 DEF Timely
<1>11. m \in Nat /\ Cardinality(Live) <= m
  BY <1>1, <1>4, <1>10, SumsCoverLive
<1>12. n \in Nat /\ Cardinality(LiveOf(p.browser)) <= n
  BY <1>1, <1>4, <1>10, SumsCoverLiveOf
<1>13. Live' = Live /\ \A b : LiveOf(b)' = LiveOf(b)
  BY <1>2 DEF Live, LiveOf
<1>14. LockFacts(r)'
  BY <1>2, <1>8, <1>9, <1>11, <1>12, <1>13 DEF LockFacts
<1>15. ASSUME NEW q \in Requests \ {r} PROVE LockFacts(q)'
  <2>1. req[q].pc # "locked"
    BY <1>2, LimitConstants DEF LimitInv, LockFacts
  <2> QED
    BY <1>9, <2>1 DEF LockFacts
<1>16. LimitTypes'
  BY <1>2 DEF LimitInv, LimitTypes, Counter
<1>17. Exact' /\ RateFacts' /\ Quota'
  BY <1>2, <1>13 DEF LimitInv, Exact, RateFacts, Quota, Outstanding, OutstandingOf
<1> QED
  BY <1>14, <1>15, <1>16, <1>17 DEF LimitInv

\* Sets of attempts when one is deleted.
LEMMA LimitDeleted ==
  ASSUME LimitInv, NEW s \in DOMAIN attempts, attempts' = Without(attempts, {s}), clock' = clock
  PROVE  /\ attempts' \in [DOMAIN attempts' -> Attempts] /\ DOMAIN attempts' = DOMAIN attempts \ {s}
         /\ IsFiniteSet(DOMAIN attempts')
         /\ \A a \in DOMAIN attempts' : attempts'[a] = attempts[a]
         /\ \A e : Outstanding(e)' = Outstanding(e) \ {s}
         /\ \A b, e : OutstandingOf(b, e)' = OutstandingOf(b, e) \ {s}
<1>1. DOMAIN attempts \ (DOMAIN attempts \cap {s}) = DOMAIN attempts \ {s}
  OBVIOUS
<1>2. attempts' = [a \in DOMAIN attempts \ {s} |-> attempts[a]]
  BY <1>1 DEF Without, Restrict
<1>3. attempts \in [DOMAIN attempts -> Attempts] /\ IsFiniteSet(DOMAIN attempts)
  BY DEF LimitInv, LimitTypes
<1>4. /\ attempts' \in [DOMAIN attempts' -> Attempts] /\ DOMAIN attempts' = DOMAIN attempts \ {s}
      /\ \A a \in DOMAIN attempts' : attempts'[a] = attempts[a]
  BY <1>2, <1>3
<1>5. IsFiniteSet(DOMAIN attempts')
  BY <1>3, <1>4, FS_RemoveElement
<1>6. \A e : Outstanding(e)' = Outstanding(e) \ {s}
  BY <1>4 DEF Outstanding
<1>7. \A b, e : OutstandingOf(b, e)' = OutstandingOf(b, e) \ {s}
  BY <1>4, <1>6 DEF Outstanding, OutstandingOf
<1> QED
  BY <1>4, <1>5, <1>6, <1>7

\* The counters of what had expired are of no account.
LEMMA LimitConsumeExpired ==
  ASSUME SessionInv, LimitInv, NEW r \in Requests, ConsumeExpired(r)
  PROVE  LimitInv'
<1>1. PICK s : s = req[r].state
  OBVIOUS
<1>2. /\ req[r].pc = "scoped" /\ s \in DOMAIN attempts /\ req[r].now >= attempts[s].expires
      /\ attempts' = Without(attempts, {s}) /\ req' = Answer(r)
      /\ UNCHANGED <<clock, scopeCounters, browserCounters, scopeLock, rate, admitted>>
  BY <1>1 DEF ConsumeExpired, GetOIDCLoginAttemptForUpdate, DeleteOIDCLoginAttempt, rateVars
<1>3. Becomes(r) /\ req'[r].pc # "locked"
  BY <1>2, Answered
<1>4. /\ attempts' \in [DOMAIN attempts' -> Attempts] /\ DOMAIN attempts' = DOMAIN attempts \ {s}
      /\ IsFiniteSet(DOMAIN attempts')
      /\ \A a \in DOMAIN attempts' : attempts'[a] = attempts[a]
      /\ \A e : Outstanding(e)' = Outstanding(e) \ {s}
      /\ \A b, e : OutstandingOf(b, e)' = OutstandingOf(b, e) \ {s}
  BY <1>2, LimitDeleted
<1>5. attempts[s].expires <= clock /\ clock \in Nat /\ attempts[s].expires \in Nat
  <2>1. req[r].now \in Nat /\ req[r].now <= clock
    BY <1>2 DEF SessionInv, RequestFacts, Timely
  <2>2. clock \in Nat /\ attempts[s].expires \in Nat
    BY <1>2 DEF LimitInv, LimitTypes, Attempts
  <2> QED
    BY <1>2, <2>1, <2>2
<1>6. \A e \in Nat : clock < e => s \notin Outstanding(e)
  BY <1>5 DEF Outstanding
<1>7. \A e \in Nat : clock < e => Outstanding(e)' = Outstanding(e) /\ \A b : OutstandingOf(b, e)' = OutstandingOf(b, e)
  <2> SUFFICES ASSUME NEW e \in Nat, clock < e
               PROVE  Outstanding(e)' = Outstanding(e) /\ \A b : OutstandingOf(b, e)' = OutstandingOf(b, e)
    OBVIOUS
  <2>1. s \notin Outstanding(e) /\ \A b : s \notin OutstandingOf(b, e)
    BY <1>6 DEF OutstandingOf
  <2>2. Outstanding(e)' = Outstanding(e)
    BY <1>4, <2>1
  <2>3. ASSUME NEW b PROVE OutstandingOf(b, e)' = OutstandingOf(b, e)
    BY <1>4, <2>1
  <2> QED
    BY <2>2, <2>3
<1>8. LimitTypes'
  BY <1>2, <1>4 DEF LimitInv, LimitTypes, Counter
<1>9. Exact'
  BY <1>2, <1>7 DEF LimitInv, Exact
<1>10. RateFacts'
  BY <1>2 DEF LimitInv, RateFacts
<1>11. Quota' /\ \A q \in Requests : LockFacts(q)'
  BY <1>2, <1>3, <1>4, <1>8, LocksKept
<1> QED
  BY <1>8, <1>9, <1>10, <1>11 DEF LimitInv

\* A slot is freed by a login that ends, in both tables.
LEMMA LimitConsume ==
  ASSUME SessionInv, LimitInv, NEW r \in Requests, ConsumeLoginAttempt(r)
  PROVE  LimitInv'
<1>1. PICK s, x, b : s = req[r].state /\ x = attempts[s].expires /\ b = attempts[s].browser
  OBVIOUS
<1>2. /\ req[r].pc = "scoped" /\ s \in DOMAIN attempts
      /\ attempts' = Without(attempts, {s})
      /\ req' = [Advance(r, "consumed") EXCEPT ![r].owner = b]
      /\ UNCHANGED <<clock, scopeLock, rate, admitted>>
  BY <1>1 DEF ConsumeLoginAttempt, GetOIDCLoginAttemptForUpdate, DeleteOIDCLoginAttempt, rateVars
<1>3. /\ x \in DOMAIN scopeCounters /\ scopeCounters[x] > 0 /\ scopeCounters' = Decremented(scopeCounters, x)
      /\ <<b, x>> \in DOMAIN browserCounters /\ browserCounters[<<b, x>>] > 0
      /\ browserCounters' = Decremented(browserCounters, <<b, x>>)
  BY <1>1 DEF ConsumeLoginAttempt, DecrementOIDCLoginAttemptScopeCounter, DecrementOIDCLoginAttemptBrowserCounter,
          Decremented
<1>4. Becomes(r) /\ req'[r].pc # "locked"
  <2>1. req = [q \in Requests |-> req[q]]
    BY DEF SessionInv
  <2>2. PICK p, y : p = req[r] /\ y = [p EXCEPT !.pc = "consumed", !.now = clock, !.owner = b]
    OBVIOUS
  <2>3. Shaped(p)
    BY <1>2, <2>2 DEF SessionInv, RequestFacts
  <2>4. y.pc = "consumed"
    BY <2>2, <2>3 DEF Shaped
  <2>5. Becomes(r) /\ req'[r] = y
    BY <1>2, <2>1, <2>2 DEF Becomes, Advance
  <2> QED
    BY <2>4, <2>5
<1>5. /\ attempts' \in [DOMAIN attempts' -> Attempts] /\ DOMAIN attempts' = DOMAIN attempts \ {s}
      /\ IsFiniteSet(DOMAIN attempts')
      /\ \A a \in DOMAIN attempts' : attempts'[a] = attempts[a]
      /\ \A e : Outstanding(e)' = Outstanding(e) \ {s}
      /\ \A d, e : OutstandingOf(d, e)' = OutstandingOf(d, e) \ {s}
  BY <1>2, LimitDeleted
<1>6. LimitTypes /\ Counter(scopeCounters) /\ Counter(browserCounters) /\ b \in Browsers /\ x \in Nat /\ clock' = clock
  BY <1>1, <1>2 DEF LimitInv, LimitTypes, Attempts
<1>7. Counter(scopeCounters') /\ DOMAIN scopeCounters' = DOMAIN scopeCounters
  BY <1>3, <1>6, Decrements
<1>8. Counter(browserCounters') /\ DOMAIN browserCounters' = DOMAIN browserCounters
  BY <1>3, <1>6, Decrements
<1>9. ASSUME NEW e
      PROVE  Counted(scopeCounters', e) = IF e = x THEN Counted(scopeCounters, x) - 1 ELSE Counted(scopeCounters, e)
  BY <1>3, <1>6, CountedDecrement
<1>10. ASSUME NEW k
       PROVE  Counted(browserCounters', k) =
                IF k = <<b, x>> THEN Counted(browserCounters, <<b, x>>) - 1 ELSE Counted(browserCounters, k)
  BY <1>3, <1>6, CountedDecrement
<1>11. LimitTypes'
  BY <1>2, <1>5, <1>7, <1>8 DEF LimitInv, LimitTypes, Counter
<1>12. ASSUME NEW e \in Nat, clock < e
       PROVE  Counted(scopeCounters', e) = Cardinality(Outstanding(e)')
  <2>1. Counted(scopeCounters, e) = Cardinality(Outstanding(e)) /\ IsFiniteSet(Outstanding(e))
    BY <1>6, <1>12, AttemptSets DEF LimitInv, Exact
  <2>2. s \in Outstanding(e) <=> e = x
    BY <1>1, <1>2 DEF Outstanding
  <2>3. PICK S : S = Outstanding(e)
    OBVIOUS
  <2>4. Cardinality(S \ {s}) = IF s \in S THEN Cardinality(S) - 1 ELSE Cardinality(S)
    BY <2>1, <2>3, FS_RemoveElement
  <2>5. Outstanding(e)' = S \ {s}
    BY <1>5, <2>3
  <2> QED
    BY <1>9, <2>1, <2>2, <2>3, <2>4, <2>5
<1>13. ASSUME NEW e \in Nat, clock < e, NEW d \in Browsers
       PROVE  Counted(browserCounters', <<d, e>>) = Cardinality(OutstandingOf(d, e)')
  <2>1. Counted(browserCounters, <<d, e>>) = Cardinality(OutstandingOf(d, e)) /\ IsFiniteSet(OutstandingOf(d, e))
    BY <1>6, <1>13, AttemptSets DEF LimitInv, Exact
  <2>2. s \in OutstandingOf(d, e) <=> e = x /\ d = b
    BY <1>1, <1>2 DEF Outstanding, OutstandingOf
  <2>3. PICK S : S = OutstandingOf(d, e)
    OBVIOUS
  <2>4. Cardinality(S \ {s}) = IF s \in S THEN Cardinality(S) - 1 ELSE Cardinality(S)
    BY <2>1, <2>3, FS_RemoveElement
  <2>5. OutstandingOf(d, e)' = S \ {s}
    BY <1>5, <2>3
  <2>6. <<d, e>> = <<b, x>> <=> e = x /\ d = b
    OBVIOUS
  <2> QED
    BY <1>10, <2>1, <2>2, <2>3, <2>4, <2>5, <2>6
<1>14. Exact'
  BY <1>6, <1>12, <1>13 DEF Exact
<1>15. RateFacts'
  BY <1>2 DEF LimitInv, RateFacts
<1>16. Quota' /\ \A q \in Requests : LockFacts(q)'
  BY <1>2, <1>4, <1>5, <1>11, LocksKept
<1> QED
  BY <1>11, <1>14, <1>15, <1>16 DEF LimitInv

\* The sets of attempts that live, when one more does.
LEMMA LimitCreated ==
  ASSUME LimitInv, NEW s, s \notin DOMAIN attempts, NEW row \in Attempts, NEW D,
         \A a \in D : a \in DOMAIN attempts => attempts[a].expires <= clock,
         attempts' = With(Without(attempts, D), s, row), clock' = clock, clock < row.expires
  PROVE  /\ attempts' \in [DOMAIN attempts' -> Attempts] /\ DOMAIN attempts' = (DOMAIN attempts \ D) \cup {s}
         /\ IsFiniteSet(DOMAIN attempts')
         /\ \A e \in Nat : clock < e =>
              Outstanding(e)' = IF e = row.expires THEN Outstanding(e) \cup {s} ELSE Outstanding(e)
         /\ \A b \in Browsers, e \in Nat : clock < e =>
              OutstandingOf(b, e)' = IF e = row.expires /\ b = row.browser THEN OutstandingOf(b, e) \cup {s}
                                     ELSE OutstandingOf(b, e)
         /\ Live' = Live \cup {s}
         /\ \A b \in Browsers : LiveOf(b)' = IF b = row.browser THEN LiveOf(b) \cup {s} ELSE LiveOf(b)
<1>1. DOMAIN attempts \ (DOMAIN attempts \cap D) = DOMAIN attempts \ D
  OBVIOUS
<1>2. attempts' = [a \in (DOMAIN attempts \ D) \cup {s} |-> IF a = s THEN row ELSE attempts[a]]
  BY <1>1 DEF Without, Restrict, With
<1>3. attempts \in [DOMAIN attempts -> Attempts] /\ IsFiniteSet(DOMAIN attempts) /\ clock \in Nat
  BY DEF LimitInv, LimitTypes
<1>4. /\ attempts' \in [DOMAIN attempts' -> Attempts] /\ DOMAIN attempts' = (DOMAIN attempts \ D) \cup {s}
      /\ attempts'[s] = row /\ \A a \in DOMAIN attempts \ D : attempts'[a] = attempts[a]
  BY <1>2, <1>3
<1>5. IsFiniteSet(DOMAIN attempts')
  <2>1. IsFiniteSet(DOMAIN attempts \ D)
    BY <1>3, FS_Difference
  <2> QED
    BY <1>4, <2>1, FS_AddElement
<1>6. \A a \in DOMAIN attempts : attempts[a].expires \in Nat
  BY <1>3 DEF Attempts
<1>7. \A a \in DOMAIN attempts : clock < attempts[a].expires => a \notin D
  BY <1>3, <1>6
<1>8. ASSUME NEW e \in Nat, clock < e
      PROVE  Outstanding(e)' = IF e = row.expires THEN Outstanding(e) \cup {s} ELSE Outstanding(e)
  BY <1>4, <1>7, <1>8 DEF Outstanding
<1>9. ASSUME NEW b \in Browsers, NEW e \in Nat, clock < e
      PROVE  OutstandingOf(b, e)' = IF e = row.expires /\ b = row.browser THEN OutstandingOf(b, e) \cup {s}
                                    ELSE OutstandingOf(b, e)
  BY <1>4, <1>7, <1>9 DEF Outstanding, OutstandingOf
<1>10. Live' = Live \cup {s}
  BY <1>3, <1>4, <1>6, <1>7 DEF Live
<1>11. ASSUME NEW b \in Browsers PROVE LiveOf(b)' = IF b = row.browser THEN LiveOf(b) \cup {s} ELSE LiveOf(b)
  <2>1. \A a \in Live : a \in DOMAIN attempts /\ a \notin D /\ a # s
    BY <1>6, <1>7 DEF Live
  <2> QED
    BY <1>4, <1>10, <2>1 DEF LiveOf
<1> QED
  BY <1>4, <1>5, <1>8, <1>9, <1>10, <1>11

\* One more attempt, counted in both tables, under the limits.
LEMMA LimitCreate ==
  ASSUME SessionInv, LimitInv, NEW r \in Requests, CreateLoginAttempt(r, DOMAIN sessions)
  PROVE  LimitInv'
<1>1. PICK s, row, p : s = Fresh(Unused(DOMAIN sessions)) /\ row = NewLoginAttempt(r) /\ p = req[r]
  OBVIOUS
<1>2. /\ p.pc = "locked" /\ Unused(DOMAIN sessions) # {} /\ p.scopeSum < Global /\ p.browserSum < PerBrowser
      /\ scopeLock' = NoOne /\ req' = Answer(r) /\ UNCHANGED <<clock, rate, admitted>>
  BY <1>1 DEF CreateLoginAttempt, WithinLimits, rateVars
<1>3. PICK D \in DeleteExpiredOIDCLoginAttemptsBatch(p.now) : attempts' = With(Without(attempts, D), s, row)
  BY <1>1 DEF CreateLoginAttempt, CreateOIDCLoginAttempt
<1>4. PICK E \in DeleteExpiredOIDCLoginAttemptScopeCountersBatch(p.now) :
        scopeCounters' = Incremented(Without(scopeCounters, E), row.expires)
  BY <1>1 DEF CreateLoginAttempt, IncrementOIDCLoginAttemptScopeCounter, Incremented
<1>5. PICK F \in DeleteExpiredOIDCLoginAttemptBrowserCountersBatch(p.now) :
        browserCounters' = Incremented(Without(browserCounters, F), <<row.browser, row.expires>>)
  BY <1>1 DEF CreateLoginAttempt, IncrementOIDCLoginAttemptBrowserCounter, Incremented
<1>6. s \in States /\ s \notin DOMAIN attempts
  <2>1. s \in Unused(DOMAIN sessions)
    BY <1>1, <1>2 DEF Fresh
  <2> QED
    BY <2>1 DEF Unused
<1>7. /\ p.now \in Nat /\ p.now <= clock /\ clock <= p.now + 1 /\ p.browser \in Browsers /\ clock \in Nat
  <2>1. Timely(p) /\ clock \in Nat
    BY <1>1, <1>2 DEF SessionInv, RequestFacts
  <2>2. PICK u, n : u = p.since /\ n = p.now
    OBVIOUS
  <2>3. u \in Nat /\ n \in Nat /\ u <= n /\ n <= clock /\ clock <= u + 1
    BY <2>1, <2>2 DEF Timely
  <2>4. clock <= n + 1
    BY <2>1, <2>3
  <2> QED
    BY <2>1, <2>2, <2>3, <2>4 DEF Timely
<1>8. row = [browser |-> p.browser, expires |-> p.now + LoginTimeout]
  BY <1>1 DEF NewLoginAttempt
<1>9. row \in Attempts /\ row.browser = p.browser /\ row.browser \in Browsers /\ row.expires \in Nat /\ clock < row.expires
  BY <1>7, <1>8, LimitConstants DEF Attempts
<1>10. \A a \in D : a \in DOMAIN attempts /\ attempts[a].expires <= clock
  <2>1. D \subseteq {a \in DOMAIN attempts : attempts[a].expires <= p.now}
    BY <1>3, CleanedUp DEF DeleteExpiredOIDCLoginAttemptsBatch
  <2>2. \A a \in DOMAIN attempts : attempts[a].expires \in Nat
    BY DEF LimitInv, LimitTypes, Attempts
  <2> QED
    BY <1>7, <2>1, <2>2
<1>11. \A e \in Nat : clock < e => e \notin E
  <2>1. E \subseteq {e \in DOMAIN scopeCounters : e <= p.now}
    BY <1>4, CleanedUp DEF DeleteExpiredOIDCLoginAttemptScopeCountersBatch
  <2> QED
    BY <1>7, <2>1
<1>12. \A b, e : e \in Nat /\ clock < e => <<b, e>> \notin F
  <2>1. F \subseteq {k \in DOMAIN browserCounters : k[2] <= p.now}
    BY <1>5, CleanedUp DEF DeleteExpiredOIDCLoginAttemptBrowserCountersBatch
  <2> QED
    BY <1>7, <2>1
<1>13. /\ attempts' \in [DOMAIN attempts' -> Attempts] /\ DOMAIN attempts' = (DOMAIN attempts \ D) \cup {s}
       /\ IsFiniteSet(DOMAIN attempts')
       /\ \A e \in Nat : clock < e =>
            Outstanding(e)' = IF e = row.expires THEN Outstanding(e) \cup {s} ELSE Outstanding(e)
       /\ \A b \in Browsers, e \in Nat : clock < e =>
            OutstandingOf(b, e)' = IF e = row.expires /\ b = row.browser THEN OutstandingOf(b, e) \cup {s}
                                   ELSE OutstandingOf(b, e)
       /\ Live' = Live \cup {s}
       /\ \A b \in Browsers : LiveOf(b)' = IF b = row.browser THEN LiveOf(b) \cup {s} ELSE LiveOf(b)
  <2>1. clock' = clock
    BY <1>2
  <2>2. \A a \in D : a \in DOMAIN attempts => attempts[a].expires <= clock
    BY <1>10
  <2> QED
    BY <1>3, <1>6, <1>9, <2>1, <2>2, LimitCreated
<1>14. LimitTypes /\ Counter(scopeCounters) /\ Counter(browserCounters)
  BY DEF LimitInv, LimitTypes
<1>15. Counter(scopeCounters') /\ DOMAIN scopeCounters' = (DOMAIN scopeCounters \ E) \cup {row.expires}
  <2>1. PICK t, k : t = Without(scopeCounters, E) /\ k = row.expires
    OBVIOUS
  <2>2. Counter(t) /\ DOMAIN t = DOMAIN scopeCounters \ E
    BY <1>14, <2>1, CountersWithout
  <2>3. Counter(Incremented(t, k)) /\ DOMAIN Incremented(t, k) = DOMAIN t \cup {k}
    BY <2>2, Increments
  <2> QED
    BY <1>4, <2>1, <2>2, <2>3
<1>16. /\ Counter(browserCounters')
       /\ DOMAIN browserCounters' = (DOMAIN browserCounters \ F) \cup {<<row.browser, row.expires>>}
  <2>1. PICK t, k : t = Without(browserCounters, F) /\ k = <<row.browser, row.expires>>
    OBVIOUS
  <2>2. Counter(t) /\ DOMAIN t = DOMAIN browserCounters \ F
    BY <1>14, <2>1, CountersWithout
  <2>3. Counter(Incremented(t, k)) /\ DOMAIN Incremented(t, k) = DOMAIN t \cup {k}
    BY <2>2, Increments
  <2> QED
    BY <1>5, <2>1, <2>2, <2>3
<1>17. LimitTypes'
  <2>1. DOMAIN browserCounters' \subseteq Browsers \X Nat
    BY <1>9, <1>14, <1>16 DEF LimitTypes
  <2>2. DOMAIN attempts' \subseteq States
    BY <1>6, <1>13, <1>14 DEF LimitTypes
  <2>3. Counter(rate)' /\ admitted' \in [0..MaxTime -> Nat] /\ clock' \in 0..MaxTime /\ scopeLock' \in Requests \cup {NoOne}
    BY <1>2, <1>14 DEF LimitTypes, Counter
  <2> QED
    BY <1>13, <1>15, <1>16, <2>1, <2>2, <2>3 DEF LimitTypes, Counter
<1>18. ASSUME NEW e \in Nat, clock < e
       PROVE  Counted(scopeCounters', e) = Cardinality(Outstanding(e)')
  <2>1. PICK t, S, n : t = Without(scopeCounters, E) /\ S = Outstanding(e) /\ n = Counted(scopeCounters, e)
    OBVIOUS
  <2>2. Counter(t) /\ Counted(t, e) = n
    BY <1>11, <1>14, <1>18, <2>1, CountersWithout, CountedWithout
  <2>3. Counted(Incremented(t, row.expires), e) = IF e = row.expires THEN Counted(t, row.expires) + 1 ELSE Counted(t, e)
    BY <2>2, CountedIncrement
  <2>4. Counted(scopeCounters', e) = IF e = row.expires THEN n + 1 ELSE n
    BY <1>4, <2>1, <2>2, <2>3
  <2>5. n = Cardinality(S) /\ IsFiniteSet(S) /\ s \notin S
    BY <1>6, <1>14, <1>18, <2>1, AttemptSets DEF LimitInv, Exact, Outstanding
  <2>6. Cardinality(S \cup {s}) = n + 1
    BY <2>5, FS_AddElement
  <2>7. Outstanding(e)' = IF e = row.expires THEN S \cup {s} ELSE S
    BY <1>13, <1>18, <2>1
  <2> QED
    BY <2>4, <2>5, <2>6, <2>7
<1>19. ASSUME NEW e \in Nat, clock < e, NEW b \in Browsers
       PROVE  Counted(browserCounters', <<b, e>>) = Cardinality(OutstandingOf(b, e)')
  <2>1. PICK t, S, k, n : /\ t = Without(browserCounters, F) /\ S = OutstandingOf(b, e) /\ k = <<b, e>>
                          /\ n = Counted(browserCounters, k)
    OBVIOUS
  <2>2. Counter(t) /\ Counted(t, k) = n
    BY <1>12, <1>14, <1>19, <2>1, CountersWithout, CountedWithout
  <2>3. PICK j : j = <<row.browser, row.expires>>
    OBVIOUS
  <2>4. Counted(Incremented(t, j), k) = IF k = j THEN Counted(t, j) + 1 ELSE Counted(t, k)
    BY <2>2, CountedIncrement
  <2>5. Counted(browserCounters', k) = IF k = j THEN n + 1 ELSE n
    BY <1>5, <2>1, <2>2, <2>3, <2>4
  <2>6. k = j <=> e = row.expires /\ b = row.browser
    BY <2>1, <2>3
  <2>7. n = Cardinality(S) /\ IsFiniteSet(S) /\ s \notin S
    BY <1>6, <1>14, <1>19, <2>1, AttemptSets DEF LimitInv, Exact, Outstanding, OutstandingOf
  <2>8. Cardinality(S \cup {s}) = n + 1
    BY <2>7, FS_AddElement
  <2>9. OutstandingOf(b, e)' = IF e = row.expires /\ b = row.browser THEN S \cup {s} ELSE S
    BY <1>13, <1>19, <2>1
  <2> QED
    BY <2>1, <2>5, <2>6, <2>7, <2>8, <2>9
<1>20. Exact'
  BY <1>2, <1>18, <1>19 DEF Exact
<1>21. LockFacts(r) /\ req[r].pc = "locked"
  BY <1>1, <1>2 DEF LimitInv
<1>22. /\ scopeLock = r /\ p.scopeSum \in Nat /\ p.browserSum \in Nat
       /\ Cardinality(Live) <= p.scopeSum /\ Cardinality(LiveOf(p.browser)) <= p.browserSum
  BY <1>1, <1>21 DEF LockFacts
<1>23. Quota'
  <2>1. IsFiniteSet(Live) /\ Cardinality(Live) \in Nat /\ s \notin Live
    BY <1>6, <1>14, AttemptSets DEF Live
  <2>2. Cardinality(Live') = Cardinality(Live) + 1
    BY <1>13, <2>1, FS_AddElement
  <2>3. Cardinality(Live') <= Global
    BY <1>2, <1>22, <2>1, <2>2, LimitConstants
  <2>4. ASSUME NEW b \in Browsers PROVE Cardinality(LiveOf(b)') <= PerBrowser
    <3>1. IsFiniteSet(LiveOf(b)) /\ Cardinality(LiveOf(b)) \in Nat /\ s \notin LiveOf(b)
      BY <1>14, <2>1, AttemptSets DEF LiveOf
    <3>2. CASE b = row.browser
      <4>1. Cardinality(LiveOf(b)') = Cardinality(LiveOf(b)) + 1
        BY <1>13, <3>1, <3>2, FS_AddElement
      <4> QED
        BY <1>2, <1>9, <1>22, <3>1, <3>2, <4>1, LimitConstants
    <3>3. CASE b # row.browser
      BY <1>13, <3>3 DEF LimitInv, Quota
    <3> QED
      BY <3>2, <3>3
  <2> QED
    BY <2>3, <2>4 DEF Quota
<1>24. ASSUME NEW q \in Requests PROVE LockFacts(q)'
  <2>1. CASE q = r
    BY <1>2, <2>1, Answered DEF LockFacts
  <2>2. CASE q # r
    <3>1. req'[q] = req[q] /\ req[q].pc # "locked"
      BY <1>2, <1>22, <2>2, Answered DEF LimitInv, LockFacts, Becomes
    <3> QED
      BY <3>1 DEF LockFacts
  <2> QED
    BY <2>1, <2>2
<1>25. RateFacts'
  BY <1>2 DEF LimitInv, RateFacts
<1> QED
  BY <1>17, <1>20, <1>23, <1>24, <1>25 DEF LimitInv

\* What lives, or may still be admitted, can only expire.
LEMMA LimitTick ==
  ASSUME SessionInv, LimitInv, Tick
  PROVE  LimitInv'
<1>1. /\ clock < MaxTime /\ clock' = clock + 1
      /\ UNCHANGED <<req, attempts, scopeCounters, browserCounters, scopeLock, rate, admitted>>
  BY DEF Tick, attemptVars, rateVars
<1>2. clock \in 0..MaxTime /\ clock \in Nat /\ MaxTime \in Nat /\ clock + 1 \in 0..MaxTime
  BY <1>1, LimitConstants DEF LimitInv, LimitTypes
<1>3. LimitTypes'
  BY <1>1, <1>2 DEF LimitInv, LimitTypes, Counter
<1>4. \A e : Outstanding(e)' = Outstanding(e) /\ \A b : OutstandingOf(b, e)' = OutstandingOf(b, e)
  BY <1>1 DEF Outstanding, OutstandingOf
<1>5. \A e \in Nat : clock' < e => clock < e
  BY <1>1, <1>2
<1>6. Exact'
  BY <1>1, <1>4, <1>5 DEF LimitInv, Exact
<1>7. /\ Cardinality(Live') <= Cardinality(Live) /\ Cardinality(Live) \in Nat /\ Cardinality(Live') \in Nat
      /\ \A b : /\ Cardinality(LiveOf(b)') <= Cardinality(LiveOf(b))
                /\ Cardinality(LiveOf(b)) \in Nat /\ Cardinality(LiveOf(b)') \in Nat
  BY <1>1, <1>2, <1>3, FewerLive
<1>8. Quota'
  BY <1>7, LimitConstants DEF LimitInv, Quota
<1>9. ASSUME NEW r \in Requests PROVE LockFacts(r)'
  BY <1>1, <1>7 DEF LimitInv, LockFacts
<1>10. RateFacts'
  <2>1. WindowStart(clock) \in Nat /\ WindowStart(clock + 1) \in Nat /\ WindowStart(clock) <= WindowStart(clock + 1)
    BY <1>2, WindowsAdvance
  <2>2. PICK u, v : u = WindowStart(clock) /\ v = WindowStart(clock + 1)
    OBVIOUS
  <2>3. WindowStart(clock)' = v
    BY <1>1, <2>2 DEF WindowStart
  <2>4. \A w \in 0..MaxTime : v <= w => u <= w
    BY <1>2, <2>1, <2>2
  <2> QED
    BY <1>1, <2>2, <2>3, <2>4 DEF LimitInv, RateFacts
<1> QED
  BY <1>3, <1>6, <1>8, <1>9, <1>10 DEF LimitInv

\* Every step of a login keeps the limits.
LEMMA LimitLoginStep ==
  ASSUME SessionInv, LimitInv, NEW r \in Requests, LoginStep(r, DOMAIN sessions)
  PROVE  LimitInv'
<1>1. ASSUME NEW b \in Browsers, NEW s \in States, Callback(r, b, s) PROVE LimitInv'
  <2>1. /\ Begin(r, "scoped", "callback", b, s, NoOne) /\ clock' = clock
        /\ UNCHANGED <<clock, attempts, scopeCounters, browserCounters, scopeLock, rate, admitted>>
    BY <1>1 DEF Callback, attemptVars, rateVars
  <2>2. Becomes(r) /\ req'[r].pc # "locked"
    BY <2>1, Begun
  <2> QED
    BY <2>1, <2>2, LimitsStay
<1>2. CASE StartLogin(r)
  <2>1. /\ req[r].pc = "admitted" /\ req' = Advance(r, "create") /\ clock' = clock
        /\ UNCHANGED <<clock, attempts, scopeCounters, browserCounters, scopeLock, rate, admitted>>
    BY <1>2 DEF StartLogin, attemptVars, rateVars
  <2>2. Becomes(r) /\ req'[r].pc # "locked"
    BY <2>1, Advanced
  <2> QED
    BY <2>1, <2>2, LimitsStay
<1>3. CASE GiveUp(r)
  <2>1. /\ req' = Answer(r) /\ scopeLock' = (IF scopeLock = r THEN NoOne ELSE scopeLock)
        /\ UNCHANGED <<clock, attempts, scopeCounters, browserCounters, rate, admitted>>
    BY <1>3 DEF GiveUp, rateVars
  <2>2. Becomes(r) /\ req'[r].pc # "locked"
    BY <2>1, Answered
  <2> QED
    BY <2>1, <2>2, LimitsStay
<1> QED
  BY <1>1, <1>2, <1>3, LimitAuthorize, LimitAllow, LimitCount, LimitCreate, LimitConsume, LimitConsumeExpired DEF LoginStep

\* So does every step of the whole.
LEMMA LimitNextInv ==
  ASSUME SessionInv, LimitInv, [SessionsNext]_<<loginVars, sessionVars>>
  PROVE  LimitInv'
<1>1. ASSUME NEW r \in Requests, SessionStep(r) PROVE LimitInv'
  <2>1. Becomes(r) /\ req'[r].pc # "locked"
        /\ UNCHANGED <<clock, attempts, scopeCounters, browserCounters, scopeLock, rate, admitted>>
    BY <1>1, SessionsAreElsewhere DEF Aside, loginRest, attemptVars, rateVars
  <2> QED
    BY <2>1, LimitsStay
<1>2. ASSUME NEW r \in Requests, LoginStep(r, DOMAIN sessions) PROVE LimitInv'
  BY <1>2, LimitLoginStep
<1>3. CASE Tick
  BY <1>3, LimitTick
<1>4. CASE UNCHANGED <<loginVars, sessionVars>>
  <2>1. UNCHANGED <<clock, req, attempts, scopeCounters, browserCounters, scopeLock, rate, admitted>>
    BY <1>4 DEF loginVars, attemptVars, rateVars
  <2> QED
    BY <2>1 DEF LimitInv, LimitTypes, Counter, Exact, Quota, LockFacts, RateFacts, Live, LiveOf, Outstanding, OutstandingOf
<1> QED
  BY <1>1, <1>2, <1>3, <1>4 DEF SessionsNext

\* Nothing is counted at first.
LEMMA LimitInitInv ==
  ASSUME LoginInit
  PROVE  LimitInv
<1>1. /\ clock = 0 /\ req = [r \in Requests |-> Idle] /\ scopeLock = NoOne /\ admitted = [t \in 0..MaxTime |-> 0]
      /\ attempts = <<>> /\ scopeCounters = <<>> /\ browserCounters = <<>> /\ rate = <<>>
  BY DEF LoginInit
<1>2. DOMAIN attempts = {} /\ DOMAIN scopeCounters = {} /\ DOMAIN browserCounters = {} /\ DOMAIN rate = {}
  BY <1>1
<1>3. /\ attempts \in [DOMAIN attempts -> Attempts] /\ scopeCounters \in [DOMAIN scopeCounters -> Nat]
      /\ browserCounters \in [DOMAIN browserCounters -> Nat] /\ rate \in [DOMAIN rate -> Nat]
  BY <1>1
<1>4. LimitTypes
  BY <1>1, <1>2, <1>3, FS_EmptySet, LimitConstants DEF LimitTypes, Counter
<1>5. \A b, e : Outstanding(e) = {} /\ OutstandingOf(b, e) = {}
  BY <1>2 DEF Outstanding, OutstandingOf
<1>6. Live = {} /\ \A b : LiveOf(b) = {}
  BY <1>2 DEF Live, LiveOf
<1>7. Exact
  BY <1>2, <1>5, FS_EmptySet DEF Exact, Counted
<1>8. Quota
  BY <1>6, FS_EmptySet, LimitConstants DEF Quota
<1>9. \A r \in Requests : LockFacts(r)
  BY <1>1 DEF LockFacts, Idle
<1>10. RateFacts
  BY <1>1, <1>2, LimitConstants DEF RateFacts, Counted
<1> QED
  BY <1>4, <1>7, <1>8, <1>9, <1>10 DEF LimitInv

\* The invariant that the scope's lock upholds: what a creator counted covers
\* what lives until it commits (CreateLoginAttempt of postgres_store.go).
THEOREM LimitInvariant == SessionsSpec => []LimitInv
<1>1. LoginInit => LimitInv
  BY LimitInitInv
<1>2. SessionInv /\ LimitInv /\ [SessionsNext]_<<loginVars, sessionVars>> => LimitInv'
  BY LimitNextInv
<1> QED
  BY <1>1, <1>2, SessionInvariant, PTL DEF SessionsSpec

\* The limits on logins hold at their bound and the counters agree with the
\* attempts they stand for, for any limits, browsers and requests
\* (CreateLoginAttempt, ConsumeLoginAttempt and AllowAuthorize).
THEOREM LimitsAreKept == SessionsSpec => []LimitsHold
<1>1. SessionInv /\ LimitInv => LimitsHold
  <2> SUFFICES ASSUME SessionInv, LimitInv PROVE LimitsHold
    OBVIOUS
  <2>1. LoginTypeOK
    <3>1. DOMAIN req = Requests
      BY DEF SessionInv
    <3> QED
      BY <3>1 DEF LimitInv, LimitTypes, LoginTypeOK, Counter, Attempts
  <2>2. CountersMatchAttempts
    <3>1. \A e \in (clock + 1)..(clock + LoginTimeout) : e \in Nat /\ clock < e
      BY LimitConstants DEF SessionInv
    <3> QED
      BY <3>1 DEF LimitInv, Exact, OutstandingOf, CountersMatchAttempts
  <2>3. QuotaHolds
    BY DEF LimitInv, Quota, Live, LiveOf, QuotaHolds
  <2>4. RateHolds
    BY DEF LimitInv, LimitTypes, RateFacts, RateHolds
  <2> QED
    BY <2>1, <2>2, <2>3, <2>4 DEF LimitsHold
<1> QED
  BY <1>1, LimitInvariant, SessionInvariant, PTL

\* The resolver admits a request under the one credential it presents when
\* that may speak for it, and refuses every other (resolve).
LEMMA ResolveMeets ==
  ASSUME NEW request \in IngressRequests
  PROVE  /\ Resolve(request).admitted <=>
              \E i \in DOMAIN Presented(request) : Authentic(request, Presented(request)[i])
         /\ Resolve(request).admitted => \A i \in DOMAIN Presented(request) : Resolve(request).identity = Presented(request)[i].scheme
<1> DEFINE presented == Presented(request)
<1>1. PICK cookies, authorizations : cookies = request.cookies /\ authorizations = request.authorizations
  OBVIOUS
<1>2. cookies \in Seq(Credentials) /\ authorizations \in Seq(Credentials)
  BY <1>1 DEF IngressRequests, Cookies
<1>3. presented = cookies \o authorizations
  BY <1>1 DEF Presented
<1>4. PICK k \in Nat, a \in Nat : k = Len(cookies) /\ a = Len(authorizations) /\ Len(presented) = k + a
  BY <1>2, <1>3
<1>5. \/ Len(presented) # 1
      \/ Len(cookies) = 1 /\ Len(authorizations) = 0
      \/ Len(cookies) = 0 /\ Len(authorizations) = 1
  BY <1>4
<1>6. DOMAIN presented = 1..Len(presented)
  BY <1>2, <1>3
<1> HIDE DEF presented
<1>7. CASE Len(presented) # 1
  <2>1. \A i \in DOMAIN presented : ~Authentic(request, presented[i])
    BY <1>7 DEF Authentic, presented
  <2>2. Conflicting(cookies, authorizations) \/ (Len(cookies) = 0 /\ Len(authorizations) = 0)
    BY <1>4, <1>7 DEF Conflicting
  <2>3. ~Resolve(request).admitted
    BY <1>1, <2>2 DEF Resolve, Refuse
  <2> QED
    BY <2>1, <2>3 DEF presented
<1>8. ASSUME NEW c, presented = <<c>>,
             Resolve(request) = Verified(request, c) \/ (~Resolve(request).admitted /\ c.scheme \notin Schemes)
      PROVE  /\ Resolve(request).admitted <=> \E i \in DOMAIN presented : Authentic(request, presented[i])
             /\ Resolve(request).admitted => \A i \in DOMAIN presented : Resolve(request).identity = presented[i].scheme
  <2> SUFFICES /\ Resolve(request).admitted <=> Authentic(request, c)
               /\ Resolve(request).admitted => Resolve(request).identity = c.scheme
    BY <1>6, <1>8
  <2>1. CASE c.scheme \notin Configured \/ ~c.wellFormed \/ c.verdict # "ok"
    BY <1>8, <2>1, SourcesKnown DEF Verified, Refuse, CredentialFailure, Authentic, Verifiers, presented
  <2>2. CASE c.scheme \in Configured /\ c.wellFormed /\ c.verdict = "ok"
    <3>1. Resolve(request) = PrincipalContext(request, c)
      BY <1>8, <2>2, SourcesKnown DEF Verified, Verifiers
    <3>2. CASE c.tenant # Tenant \/ ~c.canonical
      BY <1>8, <3>1, <3>2 DEF PrincipalContext, Refuse, Authentic, presented
    <3>3. CASE c.tenant = Tenant /\ c.canonical
      BY <1>8, <2>2, <3>1, <3>3 DEF PrincipalContext, Refuse, Authentic, Expiring, presented
    <3> QED
      BY <3>2, <3>3
  <2> QED
    BY <2>1, <2>2
<1>9. CASE Len(cookies) = 1 /\ Len(authorizations) = 0
  <2>1. presented = <<cookies[1]>>
    <3>1. authorizations = <<>>
      BY <1>2, <1>9
    <3> QED
      BY <1>2, <1>9, <1>3, <3>1
  <2>2. Resolve(request) = Verified(request, cookies[1])
    BY <1>1, <1>9 DEF Resolve, ResolveSession, Conflicting
  <2> QED
    BY <1>8, <2>1, <2>2 DEF presented
<1>10. CASE Len(cookies) = 0 /\ Len(authorizations) = 1
  <2>1. presented = <<authorizations[1]>>
    <3>1. cookies = <<>>
      BY <1>2, <1>10
    <3> QED
      BY <1>2, <1>10, <1>3, <3>1
  <2>2. Resolve(request) = ResolveAuthorization(request, authorizations[1])
    BY <1>1, <1>10 DEF Resolve, Conflicting
  <2>3. \/ Resolve(request) = Verified(request, authorizations[1])
        \/ ~Resolve(request).admitted /\ authorizations[1].scheme \notin Schemes
    BY <2>2 DEF ResolveAuthorization, Refuse
  <2> QED
    BY <1>8, <2>1, <2>3 DEF presented
<1> QED
  BY <1>5, <1>7, <1>9, <1>10

\* What an origin can change of what the resolver answers: nothing but the
\* connector capability, which one can only take away (principalContext).
LEMMA OriginOnlyLowersCapability ==
  ASSUME NEW request \in IngressRequests, OriginDeclared(request.origins), Resolve(request).admitted
  PROVE  LET silent == Resolve([request EXCEPT !.origins = <<>>]) IN
         /\ silent.admitted /\ silent.identity = Resolve(request).identity
         /\ Resolve(request).connectors => silent.connectors /\ request.origins \notin
              {<<"astraclaw">>, <<"AstraClaw">>, <<"xiaozhi">>}
<1> DEFINE quiet == [request EXCEPT !.origins = <<>>]
<1>1. /\ quiet.cookies = request.cookies /\ quiet.authorizations = request.authorizations
      /\ quiet.org = request.org /\ quiet.origins = <<>>
  BY DEF IngressRequests
<1>2. ASSUME NEW c, Verified(request, c).admitted
      PROVE  LET silent == Verified(quiet, c) IN
             /\ silent.admitted /\ silent.identity = Verified(request, c).identity
             /\ Verified(request, c).connectors => silent.connectors /\ request.origins \notin
                  {<<"astraclaw">>, <<"AstraClaw">>, <<"xiaozhi">>}
  <2>1. Verified(request, c) = PrincipalContext(request, c) /\ Verified(quiet, c) = PrincipalContext(quiet, c)
    BY <1>2 DEF Verified, Refuse, CredentialFailure
  <2>2. /\ PrincipalContext(request, c).identity = c.scheme /\ PrincipalContext(quiet, c).identity = c.scheme
        /\ PrincipalContext(quiet, c).admitted
        /\ PrincipalContext(request, c).connectors = ConnectorCapabilityAllowed(c.scheme, request.origins)
        /\ PrincipalContext(quiet, c).connectors = ConnectorCapabilityAllowed(c.scheme, <<>>)
    BY <1>1, <1>2, <2>1 DEF PrincipalContext, Refuse
  <2>3. ConnectorCapabilityAllowed(c.scheme, request.origins) =>
          /\ ConnectorCapabilityAllowed(c.scheme, <<>>)
          /\ request.origins \notin {<<"astraclaw">>, <<"AstraClaw">>, <<"xiaozhi">>}
    BY DEF ConnectorCapabilityAllowed
  <2> QED
    BY <2>1, <2>2, <2>3
<1>3. CASE ~Conflicting(request.cookies, request.authorizations) /\ Len(request.cookies) = 1
  <2>1. /\ Resolve(request) = Verified(request, request.cookies[1])
        /\ Resolve(quiet) = Verified(quiet, request.cookies[1])
    BY <1>1, <1>3 DEF Resolve, ResolveSession
  <2> QED
    BY <1>2, <2>1
<1>4. CASE /\ ~Conflicting(request.cookies, request.authorizations) /\ Len(request.cookies) # 1
           /\ Len(request.authorizations) = 1 /\ request.authorizations[1].scheme \in Schemes
  <2>1. /\ Resolve(request) = Verified(request, request.authorizations[1])
        /\ Resolve(quiet) = Verified(quiet, request.authorizations[1])
    BY <1>1, <1>4 DEF Resolve, ResolveAuthorization
  <2> QED
    BY <1>2, <2>1
<1> QED
  BY <1>3, <1>4 DEF Resolve, ResolveAuthorization, Refuse

\* A protected request is served exactly when it presents one verified
\* credential of this tenant that lives, under that credential's identity, and
\* what it says of its origin only lowers what it may do: for any tenant, any
\* set of wired sources and any request (Middleware and ResolveBrowserRequest).
THEOREM IngressIsExact == IngressSpec => []IngressMeetsReference
<1>1. ASSUME NEW request \in IngressRequests
      PROVE  AdmitsExactlyAuthentic(request)
  <2> DEFINE entitled == {i \in DOMAIN Presented(request) : Authentic(request, Presented(request)[i])}
             clean == ~request.forged /\ OriginDeclared(request.origins)
  <2>1. /\ Resolve(request).admitted <=> entitled # {}
        /\ Resolve(request).admitted => \A i \in entitled : Resolve(request).identity = Presented(request)[i].scheme
    BY ResolveMeets
  <2>2. CASE ~clean
    <3>1. ~Middleware(request).admitted /\ ~ResolveBrowserRequest(request).admitted
      BY <2>2 DEF Middleware, ResolveBrowserRequest, Refuse
    <3> QED
      BY <2>2, <3>1 DEF AdmitsExactlyAuthentic
  <2>3. CASE clean
    <3>1. request.protected => Middleware(request) = Resolve(request)
      BY <2>3 DEF Middleware
    <3>2. ResolveBrowserRequest(request).admitted <=>
            Resolve(request).admitted /\ Resolve(request).identity \in {"cookie", "Bearer"}
      BY <2>3 DEF ResolveBrowserRequest, Refuse
    <3> QED
      BY <2>1, <2>3, <3>1, <3>2 DEF AdmitsExactlyAuthentic
  <2> QED
    BY <2>2, <2>3
<1>2. ASSUME NEW request \in IngressRequests
      PROVE  OriginOnlyLowers(request)
  <2> DEFINE quiet == [request EXCEPT !.origins = <<>>]
  <2>1. /\ quiet.forged = request.forged /\ quiet.protected = request.protected /\ OriginDeclared(quiet.origins)
    BY DEF IngressRequests, OriginDeclared
  <2>2. CASE request.forged \/ ~OriginDeclared(request.origins)
    BY <2>2 DEF OriginOnlyLowers, Middleware, Refuse
  <2>3. CASE ~request.forged /\ OriginDeclared(request.origins) /\ ~request.protected
    BY <2>1, <2>3 DEF OriginOnlyLowers, Middleware
  <2>4. CASE ~request.forged /\ OriginDeclared(request.origins) /\ request.protected
    <3>1. Middleware(request) = Resolve(request) /\ Middleware(quiet) = Resolve(quiet)
      BY <2>1, <2>4 DEF Middleware
    <3> QED
      BY <2>4, <3>1, OriginOnlyLowersCapability DEF OriginOnlyLowers
  <2> QED
    BY <2>2, <2>3, <2>4
<1>3. ingress \in IngressRequests => IngressMeetsReference
  BY <1>1, <1>2 DEF IngressMeetsReference
<1>4. ingress \in IngressRequests /\ [ingress' \in IngressRequests]_ingress => (ingress \in IngressRequests)'
  OBVIOUS
<1> QED
  BY <1>3, <1>4, PTL DEF IngressSpec
=============================================================================
