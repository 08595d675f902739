---------------------------- MODULE LoginAttempts ----------------------------
(* Login attempts of one enterprise and one console client                   *)
(* (internal/browserauth): the per-source rate limit of /oauth2/authorize,   *)
(* the attempts themselves and the two tables of counters, one row per       *)
(* expiry, that bound how many attempts are outstanding in the scope and per *)
(* browser.  A state secret stands for its attempt, and the browser for its  *)
(* binding cookie.  Every request reads the time before it waits for         *)
(* anything, so what it compares with may be stale; a request sees at most   *)
(* one tick (browserRequestTimeout is 20 s, a login attempt lives 5 min and *)
(* an idle session 8 h).                                                     *)
EXTENDS Integers, FiniteSets, FiniteSetsExt, Functions

CONSTANTS Requests,      \* handlers running at one time
          Browsers, States, NoOne,
          LoginTimeout,  \* life of an attempt, in ticks
          PerBrowser, Global,   \* LoginAttemptLimits
          CleanupBatch,  \* rows one clean-up deletes (256)
          Window,        \* ticks of a rate window
          RateLimit,     \* requests per window and source
          MaxTime        \* bound on the clock

\* NewLoginAttemptLimits, and the constants of the rate limiter and the store.
Limits ==
  /\ PerBrowser \in Nat \ {0} /\ Global \in Nat /\ PerBrowser =< Global
  /\ RateLimit \in Nat \ {0} /\ Window \in Nat \ {0}
  /\ LoginTimeout \in Nat \ {0, 1} /\ CleanupBatch \in Nat \ {0}
  /\ NoOne \notin Requests /\ MaxTime \in Nat

ASSUME LimitsValid == Limits

VARIABLES clock,
          req,              \* what each handler is doing
          attempts,         \* rows of oidc_login_attempts, by state
          scopeCounters,    \* rows, by expiry
          browserCounters,  \* rows, by <<browser, expiry>>
          scopeLock,        \* holder of the scope's advisory lock
          rate,             \* rows of oidc_authorize_rate_limits, by window
          admitted          \* admissions of each window while it was the current one

attemptVars == <<attempts, scopeCounters, browserCounters, scopeLock>>
rateVars == <<rate, admitted>>
loginVars == <<clock, req, attemptVars, rateVars>>

-----------------------------------------------------------------------------
Idle == [pc |-> "idle"]

Busy == {r \in Requests : req[r].pc # "idle"}

\* Advance(r, pc) ends a step of r and reads the time for the next one.
Advance(r, pc) == [req EXCEPT ![r].pc = pc, ![r].now = clock]

Answer(r) == [req EXCEPT ![r] = Idle]

\* A handler starts: of browser b, with what the request presents.
Begin(r, pc, kind, b, state, code) ==
  /\ req[r].pc = "idle"
  /\ req' = [req EXCEPT ![r] = [pc |-> pc, kind |-> kind, browser |-> b, state |-> state, code |-> code,
                                since |-> clock, now |-> clock, owner |-> NoOne, scopeSum |-> 0, browserSum |-> 0]]

Without(table, rows) == Restrict(table, DOMAIN table \ rows)

With(table, key, row) == [k \in DOMAIN table \cup {key} |-> IF k = key THEN row ELSE table[k]]

\* The batches a clean-up may delete: the oldest CleanupBatch rows due, ties
\* broken either way.
Batches(expiry) ==
  LET due == DOMAIN expiry IN
  {D \in kSubset(IF Cardinality(due) < CleanupBatch THEN Cardinality(due) ELSE CleanupBatch, due) :
     \A kept \in due \ D, gone \in D : expiry[gone] =< expiry[kept]}

-----------------------------------------------------------------------------
(* Rate limit                                                                *)

WindowStart(t) == t - (t % Window)

DeleteExpiredOIDCAuthorizeRateLimits(window) ==
  \E D \in Batches([w \in {v \in DOMAIN rate : v < window} |-> w]) : rate' = Without(rate, D)

\* authorize up to the clean-up of AllowAuthorize; a malformed request or an
\* unusable source never gets here and changes nothing.
Authorize(r, b) ==
  /\ Begin(r, "rate", "authorize", b, NoOne, NoOne)
  /\ DeleteExpiredOIDCAuthorizeRateLimits(WindowStart(clock))
  /\ UNCHANGED <<clock, attemptVars, admitted>>

\* The upsert; it returns no row when the window is full.
ConsumeOIDCAuthorizeRateLimit(window) ==
  /\ window \in DOMAIN rate => rate[window] < RateLimit
  /\ rate' = IF window \in DOMAIN rate THEN [rate EXCEPT ![window] = @ + 1]
             ELSE With(rate, window, 1)

\* The rest of AllowAuthorize, admitting the request.
AllowAuthorize(r) ==
  LET window == WindowStart(req[r].now) IN
  /\ req[r].pc = "rate"
  /\ ConsumeOIDCAuthorizeRateLimit(window)
  /\ admitted' = IF window = WindowStart(clock) THEN [admitted EXCEPT ![window] = @ + 1]
                 ELSE admitted
  /\ req' = Advance(r, "admitted")
  /\ UNCHANGED <<clock, attemptVars>>

-----------------------------------------------------------------------------
(* CreateLoginAttempt                                                        *)

\* A browser without a session to continue is sent to the identity provider.
StartLogin(r) ==
  /\ req[r].pc = "admitted"
  /\ req' = Advance(r, "create")
  /\ UNCHANGED <<clock, attemptVars, rateVars>>

\* Faulty variant: the transaction counts before it takes the lock.
LockOIDCLoginAttemptScope_Late(r) == scopeLock' = r

LockOIDCLoginAttemptScope(r) == scopeLock = NoOne /\ scopeLock' = r

\* What some rows have counted, one by one: as many as the sum of the rows.
Slots(table, keys) == UNION {{k} \X (1..table[k]) : k \in keys}

SumActiveOIDCLoginAttemptScope(now) ==
  Cardinality(Slots(scopeCounters, {e \in DOMAIN scopeCounters : e > now}))

SumActiveOIDCLoginAttemptBrowser(b, now) ==
  Cardinality(Slots(browserCounters, {k \in DOMAIN browserCounters : k[1] = b /\ k[2] > now}))

\* The counts the transaction reads once it holds the lock.
CountAttempts(r) ==
  /\ req[r].pc = "create"
  /\ LockOIDCLoginAttemptScope(r)
  /\ req' = [req EXCEPT ![r].pc = "locked",
                        ![r].scopeSum = SumActiveOIDCLoginAttemptScope(req[r].now),
                        ![r].browserSum = SumActiveOIDCLoginAttemptBrowser(req[r].browser, req[r].now)]
  /\ UNCHANGED <<clock, attempts, scopeCounters, browserCounters, rateVars>>

DeleteExpiredOIDCLoginAttemptsBatch(now) ==
  Batches([s \in {a \in DOMAIN attempts : attempts[a].expires =< now} |-> attempts[s].expires])

DeleteExpiredOIDCLoginAttemptScopeCountersBatch(now) ==
  Batches([e \in {c \in DOMAIN scopeCounters : c =< now} |-> e])

DeleteExpiredOIDCLoginAttemptBrowserCountersBatch(now) ==
  Batches([k \in {c \in DOMAIN browserCounters : c[2] =< now} |-> k[2]])

IncrementOIDCLoginAttemptScopeCounter(table, expires) ==
  IF expires \in DOMAIN table THEN [table EXCEPT ![expires] = @ + 1] ELSE With(table, expires, 1)

IncrementOIDCLoginAttemptBrowserCounter(table, b, expires) ==
  IF <<b, expires>> \in DOMAIN table THEN [table EXCEPT ![<<b, expires>>] = @ + 1]
  ELSE With(table, <<b, expires>>, 1)

CreateOIDCLoginAttempt(table, s, attempt) == With(table, s, attempt)

\* The record the service builds, with the time it read.
NewLoginAttempt(r) == [browser |-> req[r].browser, expires |-> req[r].now + LoginTimeout]

WithinLimits(r) == req[r].scopeSum < Global /\ req[r].browserSum < PerBrowser

\* A fresh secret, as good as any other; taken are those that named a session.
Unused(taken) == {s \in States \ taken : s \notin DOMAIN attempts /\ \A r \in Busy : req[r].state # s}

Fresh(names) == CHOOSE n \in names : TRUE

\* The commit: within the limits, and with the clean-up of what had expired.
CreateLoginAttempt(r, taken) ==
  LET s == Fresh(Unused(taken))  now == req[r].now  attempt == NewLoginAttempt(r) IN
  /\ req[r].pc = "locked"
  /\ Unused(taken) # {}
  /\ WithinLimits(r)
  /\ \E D \in DeleteExpiredOIDCLoginAttemptsBatch(now) :
       attempts' = CreateOIDCLoginAttempt(Without(attempts, D), s, attempt)
  /\ \E D \in DeleteExpiredOIDCLoginAttemptScopeCountersBatch(now) :
       scopeCounters' = IncrementOIDCLoginAttemptScopeCounter(Without(scopeCounters, D), attempt.expires)
  /\ \E D \in DeleteExpiredOIDCLoginAttemptBrowserCountersBatch(now) :
       browserCounters' = IncrementOIDCLoginAttemptBrowserCounter(
                            Without(browserCounters, D), attempt.browser, attempt.expires)
  /\ scopeLock' = NoOne
  /\ req' = Answer(r)
  /\ UNCHANGED <<clock, rateVars>>

-----------------------------------------------------------------------------
(* ConsumeLoginAttempt                                                       *)

GetOIDCLoginAttemptScope(s) == s \in DOMAIN attempts

\* The browser comes back with a state.  Clearing its binding cookie does not
\* undo the requests it has already sent.
Callback(r, b, s) ==
  /\ GetOIDCLoginAttemptScope(s)
  /\ Begin(r, "scoped", "callback", b, s, NoOne)
  /\ UNCHANGED <<clock, attemptVars, rateVars>>

GetOIDCLoginAttemptForUpdate(s) == s \in DOMAIN attempts

DecrementOIDCLoginAttemptScopeCounter(expires) ==
  /\ expires \in DOMAIN scopeCounters /\ scopeCounters[expires] > 0
  /\ scopeCounters' = [scopeCounters EXCEPT ![expires] = @ - 1]

DecrementOIDCLoginAttemptBrowserCounter(b, expires) ==
  /\ <<b, expires>> \in DOMAIN browserCounters /\ browserCounters[<<b, expires>>] > 0
  /\ browserCounters' = [browserCounters EXCEPT ![<<b, expires>>] = @ - 1]

DeleteOIDCLoginAttempt(s) == attempts' = Without(attempts, {s})

BindingMatches(r, attempt) == attempt.browser = req[r].browser

\* The attempt is the browser's and unexpired: counted down and deleted.
ConsumeLoginAttempt(r) ==
  LET s == req[r].state IN
  /\ req[r].pc = "scoped" /\ scopeLock = NoOne
  /\ GetOIDCLoginAttemptForUpdate(s)
  /\ req[r].now < attempts[s].expires
  /\ BindingMatches(r, attempts[s])
  /\ DecrementOIDCLoginAttemptScopeCounter(attempts[s].expires)
  /\ DecrementOIDCLoginAttemptBrowserCounter(attempts[s].browser, attempts[s].expires)
  /\ DeleteOIDCLoginAttempt(s)
  /\ req' = [Advance(r, "consumed") EXCEPT ![r].owner = attempts[s].browser]
  /\ UNCHANGED <<clock, scopeLock, rateVars>>

\* An expired attempt is deleted, its counters left to the clean-up.
ConsumeExpired(r) ==
  LET s == req[r].state IN
  /\ req[r].pc = "scoped" /\ scopeLock = NoOne
  /\ GetOIDCLoginAttemptForUpdate(s)
  /\ req[r].now >= attempts[s].expires
  /\ DeleteOIDCLoginAttempt(s)
  /\ req' = Answer(r)
  /\ UNCHANGED <<clock, scopeCounters, browserCounters, scopeLock, rateVars>>

-----------------------------------------------------------------------------
\* Any refusal (429, 401), error (503) or time-out: the transaction in
\* progress rolls back and its lock is released.
GiveUp(r) ==
  /\ req[r].pc \in {"rate", "admitted", "create", "locked", "scoped"}
  /\ req' = Answer(r)
  /\ scopeLock' = IF scopeLock = r THEN NoOne ELSE scopeLock
  /\ UNCHANGED <<clock, attempts, scopeCounters, browserCounters, rateVars>>

Tick ==
  /\ clock < MaxTime
  /\ \A r \in Busy : req[r].since = clock
  /\ clock' = clock + 1
  /\ UNCHANGED <<req, attemptVars, rateVars>>

LoginInit ==
  /\ clock = 0
  /\ req = [r \in Requests |-> Idle]
  /\ attempts = <<>> /\ scopeCounters = <<>> /\ browserCounters = <<>>
  /\ scopeLock = NoOne
  /\ rate = <<>> /\ admitted = [t \in 0..MaxTime |-> 0]

LoginStep(r, taken) ==
  \/ \E b \in Browsers : Authorize(r, b) \/ \E s \in States : Callback(r, b, s)
  \/ AllowAuthorize(r) \/ StartLogin(r) \/ CountAttempts(r)
  \/ CreateLoginAttempt(r, taken) \/ ConsumeLoginAttempt(r) \/ ConsumeExpired(r) \/ GiveUp(r)

-----------------------------------------------------------------------------
(* Properties                                                                *)

LoginTypeOK ==
  /\ clock \in 0..MaxTime
  /\ DOMAIN req = Requests
  /\ DOMAIN attempts \subseteq States
  /\ \A s \in DOMAIN attempts : attempts[s] \in [browser : Browsers, expires : Nat]
  /\ \A e \in DOMAIN scopeCounters : scopeCounters[e] \in Nat
  /\ \A k \in DOMAIN browserCounters : k \in Browsers \X Nat /\ browserCounters[k] \in Nat
  /\ scopeLock \in Requests \cup {NoOne}

Outstanding(e) == {s \in DOMAIN attempts : attempts[s].expires = e}

Counted(table, k) == IF k \in DOMAIN table THEN table[k] ELSE 0

\* The counters of everything unexpired agree with the attempts, whatever
\* creations, consumptions, roll-backs and partial clean-ups came between
\* (CreateLoginAttempt and ConsumeLoginAttempt of postgres_store.go): a slot is
\* neither leaked by a login that ended nor freed by one that did not.
CountersMatchAttempts ==
  \A e \in (clock + 1)..(clock + LoginTimeout) :
    /\ Counted(scopeCounters, e) = Cardinality(Outstanding(e))
    /\ \A b \in Browsers : Counted(browserCounters, <<b, e>>) =
         Cardinality({s \in Outstanding(e) : attempts[s].browser = b})

\* The limits hold of what is really outstanding, though each creator counted
\* against its own, possibly stale, time (postgres_store.go, the sums under
\* LockOIDCLoginAttemptScope).
QuotaHolds ==
  LET live == {s \in DOMAIN attempts : attempts[s].expires > clock} IN
  /\ Cardinality(live) =< Global
  /\ \A b \in Browsers : Cardinality({s \in live : attempts[s].browser = b}) =< PerBrowser

\* No more than RateLimit requests are admitted in a window while it is the
\* current one, though the clean-up and the upsert are separate statements
\* (AllowAuthorize of postgres_authorize_rate_limiter.go).
RateHolds == \A w \in DOMAIN admitted : admitted[w] =< RateLimit

\* The limits on logins hold at their bound, with counters that agree with the
\* attempts they stand for (CreateLoginAttempt, ConsumeLoginAttempt and
\* AllowAuthorize).
LimitsHold == LoginTypeOK /\ CountersMatchAttempts /\ QuotaHolds /\ RateHolds
=============================================================================
