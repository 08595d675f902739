--------------------------- MODULE BrowserSessions ---------------------------
(* Browser sessions, authorization codes and access tokens of one enterprise *)
(* and one console client (internal/browserauth and the handlers of          *)
(* internal/app/browser_auth.go), on top of the login attempts.  A session   *)
(* is named by the login attempt that opened it, a token by the code it was  *)
(* exchanged for, a code's PKCE challenge and redirect by the browser that   *)
(* asked for it.  A row's expiry is compared with the time its request read. *)
EXTENDS LoginAttempts

CONSTANTS Codes,
          IdleTimeout, AbsoluteTimeout, CodeTimeout

\* The timeouts of browserauth, in ticks.
Timeouts ==
  /\ {IdleTimeout, AbsoluteTimeout, CodeTimeout} \subseteq Nat
  /\ 1 < IdleTimeout /\ IdleTimeout =< AbsoluteTimeout /\ 0 < CodeTimeout

ASSUME TimeoutsValid == Timeouts

VARIABLES sessions,   \* rows of browser_sessions
          codes,      \* rows of oauth_authorization_codes
          tokens,     \* rows of browser_access_tokens
          cookie,     \* the session cookie of each browser
          auditTrail, \* audit rows written for sessions, as <<event, id>>
          answers     \* history: the answers properties speak of, as <<answer, id>>

rowVars == <<sessions, codes, tokens>>
sessionVars == <<sessions, codes, tokens, cookie, auditTrail, answers>>
loginRest == <<clock, attemptVars, rateVars>>

-----------------------------------------------------------------------------
Earlier(s, t) == IF s < t THEN s ELSE t

\* Neither revoked nor expired at the time a request read.
Usable(s, now) ==
  /\ s \in DOMAIN sessions
  /\ ~sessions[s].revoked
  /\ now < sessions[s].idle /\ now < sessions[s].absolute

GetBrowserSessionForUpdate(s, now) == Usable(s, now)

SlideBrowserSession(s, now) ==
  sessions' = [sessions EXCEPT ![s].idle = Earlier(now + IdleTimeout, sessions[s].absolute)]

\* The transaction of PostgresStore.UseSession.
UseSession(s, now) == GetBrowserSessionForUpdate(s, now) /\ SlideBrowserSession(s, now)

Stop(r) == req' = Answer(r)

\* Authority is given to a caller on session s.
Serve(s) == answers' = IF sessions[s].revoked THEN answers \cup {<<"served revoked", s>>} ELSE answers

-----------------------------------------------------------------------------
(* Requests that present a session cookie                                    *)

\* me, logout and the protected paths: the resolver is about to verify the cookie.
PresentCookie(r, b, kind) ==
  /\ cookie[b] # NoOne
  /\ Begin(r, "resolve", kind, b, cookie[b], NoOne)
  /\ UNCHANGED <<loginRest, sessionVars>>

\* authorize with a session cookie.
AuthorizeWithCookie(r) ==
  LET b == req[r].browser IN
  /\ req[r].pc = "admitted" /\ cookie[b] # NoOne
  /\ req' = [Advance(r, "resolve") EXCEPT ![r].state = cookie[b]]
  /\ UNCHANGED <<loginRest, sessionVars>>

\* The profile is served.
Me(r, s) == Stop(r) /\ Serve(s)

\* A resolved credential goes on to be revoked.
Logout(r, pc) == req' = Advance(r, pc) /\ UNCHANGED answers

\* GetSession finds the session: the page is served, or the handler goes on
\* to issue a code (authorize) or to revoke (logout).
GetSession(r) ==
  LET s == req[r].state IN
  /\ req[r].pc = "resolve"
  /\ UseSession(s, req[r].now)
  /\ CASE req[r].kind = "authorize" -> req' = Advance(r, "issue") /\ UNCHANGED answers
       [] req[r].kind = "logout" -> Logout(r, "revoke")
       [] req[r].kind = "me" -> Me(r, s)
  /\ UNCHANGED <<loginRest, codes, tokens, cookie, auditTrail>>

ClearSessionCookie(r) ==
  cookie' = [cookie EXCEPT ![req[r].browser] = IF @ = req[r].state THEN NoOne ELSE @]

\* GetSession finds none: the cookie is cleared; authorize starts a login.
GetSessionInvalid(r) ==
  /\ req[r].pc = "resolve"
  /\ ~Usable(req[r].state, req[r].now)
  /\ ClearSessionCookie(r)
  /\ req' = IF req[r].kind = "authorize"
            THEN [Advance(r, "create") EXCEPT ![r].state = NoOne] ELSE Answer(r)
  /\ UNCHANGED <<loginRest, rowVars, auditTrail, answers>>

-----------------------------------------------------------------------------
(* Codes                                                                     *)

\* The first transaction of IssueCode slides the session again.
IssueCode(r) ==
  /\ req[r].pc = "issue"
  /\ UseSession(req[r].state, req[r].now)
  /\ req' = Advance(r, "code")
  /\ UNCHANGED <<loginRest, codes, tokens, cookie, auditTrail, answers>>

\* The second statement stores the code, whatever became of the session.
CreateAuthorizationCode(r) ==
  LET c == Fresh(Codes \ DOMAIN codes) IN
  /\ req[r].pc = "code" /\ Codes # DOMAIN codes
  /\ codes' = With(codes, c, [session |-> req[r].state, browser |-> req[r].browser,
                              expires |-> clock + CodeTimeout, consumed |-> FALSE])
  /\ IF req[r].kind = "callback" THEN req' = Advance(r, "audit") ELSE Stop(r)
  /\ UNCHANGED <<loginRest, sessions, tokens, cookie, auditTrail, answers>>

\* The console of browser b asks for the code's tokens, with the verifier it
\* keeps: the challenge matches only the browser that asked for the code.
StartExchange(r, b, c) ==
  /\ c \in DOMAIN codes
  /\ Begin(r, "exchange", "token", b, NoOne, c)
  /\ UNCHANGED <<loginRest, sessionVars>>

GetAuthorizationCodeForUpdate(r, code) == ~code.consumed /\ req[r].now < code.expires

ChallengeMatches(r, code) == code.browser = req[r].browser

ConsumeAuthorizationCode(c) == codes' = [codes EXCEPT ![c].consumed = TRUE]

CreateBrowserAccessToken(c) ==
  tokens' = With(tokens, c, [session |-> codes[c].session, expires |-> sessions[codes[c].session].absolute])

\* The transaction of ExchangeAuthorizationCode; the answer may still be lost.
ExchangeAuthorizationCode(r) ==
  LET c == req[r].code  code == codes[c] IN
  /\ req[r].pc = "exchange"
  /\ GetAuthorizationCodeForUpdate(r, code)
  /\ GetBrowserSessionForUpdate(code.session, req[r].now)
  /\ ChallengeMatches(r, code)
  /\ ConsumeAuthorizationCode(c) /\ CreateBrowserAccessToken(c)
  /\ Serve(code.session)
  /\ Stop(r)
  /\ UNCHANGED <<loginRest, sessions, cookie, auditTrail>>

-----------------------------------------------------------------------------
(* Opening a session: the rest of callback                                   *)

NewSession(r) ==
  [browser |-> req[r].owner, revoked |-> FALSE,
   idle |-> req[r].now + IdleTimeout, absolute |-> req[r].now + AbsoluteTimeout]

CreateBrowserSession(s, session) == sessions' = With(sessions, s, session)

\* The identity provider has vouched for a known user.
CreateSession(r) ==
  /\ req[r].pc = "consumed"
  /\ CreateBrowserSession(req[r].state, NewSession(r))
  /\ req' = Advance(r, "issue")
  /\ UNCHANGED <<loginRest, codes, tokens, cookie, auditTrail, answers>>

\* The creation is audited before the browser is given the session.
AppendBrowserAudit(r) ==
  LET s == req[r].state IN
  /\ req[r].pc = "audit"
  /\ auditTrail' = auditTrail \cup {<<"create", s>>}
  /\ cookie' = [cookie EXCEPT ![req[r].browser] = s]
  /\ Stop(r)
  /\ UNCHANGED <<loginRest, rowVars, answers>>

\* Issuing the code or auditing failed: up to two attempts to revoke.
CallbackFails(r) ==
  /\ req[r].pc \in {"issue", "code", "audit"} /\ req[r].kind = "callback"
  /\ req' = Advance(r, "clean")
  /\ UNCHANGED <<loginRest, sessionVars>>

RevokeAndGetBrowserSession(s, now) ==
  sessions' = IF Usable(s, now) THEN [sessions EXCEPT ![s].revoked = TRUE] ELSE sessions

\* LogoutSession of the clean-up reaches the store.
CleanUp(r) ==
  LET s == req[r].state IN
  /\ req[r].pc \in {"clean", "clean again"}
  /\ RevokeAndGetBrowserSession(s, req[r].now)
  /\ answers' = answers \cup {<<"abandoned", s>>}
  /\ Stop(r)
  /\ UNCHANGED <<loginRest, codes, tokens, cookie, auditTrail>>

\* The store is unavailable: once more, then the session is left to expire.
CleanUpUnavailable(r) ==
  /\ req[r].pc \in {"clean", "clean again"}
  /\ IF req[r].pc = "clean" THEN req' = Advance(r, "clean again") ELSE Stop(r)
  /\ UNCHANGED <<loginRest, sessionVars>>

-----------------------------------------------------------------------------
(* Logout with a cookie                                                      *)

\* LogoutBrowserSession revokes and audits in one transaction; a session
\* revoked or expired meanwhile is answered alike.
LogoutBrowserSession(r) ==
  LET s == req[r].state IN
  /\ req[r].pc = "revoke"
  /\ RevokeAndGetBrowserSession(s, req[r].now)
  /\ auditTrail' = IF Usable(s, req[r].now) THEN auditTrail \cup {<<"logout", s>>} ELSE auditTrail
  /\ answers' = answers \cup {<<"signed out", s>>}
  /\ ClearSessionCookie(r)
  /\ Stop(r)
  /\ UNCHANGED <<loginRest, codes, tokens>>

-----------------------------------------------------------------------------
(* Requests that present an access token                                     *)

PresentToken(r, c, kind) ==
  /\ c \in DOMAIN tokens
  /\ Begin(r, "lookup", kind, codes[c].browser, tokens[c].session, c)
  /\ UNCHANGED <<loginRest, sessionVars>>

\* The unlocked read of UseAccessToken.
GetActiveBrowserAccessToken(r) ==
  /\ req[r].pc = "lookup"
  /\ Usable(req[r].state, req[r].now) /\ req[r].now < tokens[req[r].code].expires
  /\ req' = [req EXCEPT ![r].pc = "slide"]
  /\ UNCHANGED <<loginRest, sessionVars>>

\* Faulty variant: what the unlocked read saw is served.
UseAccessToken_Unlocked(r) ==
  LET s == req[r].state IN
  /\ req[r].pc = "slide"
  /\ SlideBrowserSession(s, req[r].now)
  /\ IF req[r].kind = "logout" THEN Logout(r, "token revoke") ELSE Me(r, s)
  /\ UNCHANGED <<loginRest, codes, tokens, cookie, auditTrail>>

\* The rest of UseAccessToken looks again, under the row lock.
UseAccessToken(r) ==
  LET s == req[r].state IN
  /\ req[r].pc = "slide"
  /\ UseSession(s, req[r].now)
  /\ IF req[r].kind = "logout" THEN Logout(r, "token revoke") ELSE Me(r, s)
  /\ UNCHANGED <<loginRest, codes, tokens, cookie, auditTrail>>

\* A rejected token: 401, except that a logout goes on to the retry.
TokenRejected(r) ==
  /\ req[r].pc \in {"lookup", "slide"}
  /\ ~(Usable(req[r].state, req[r].now) /\ req[r].now < tokens[req[r].code].expires)
  /\ IF req[r].kind = "logout"
     THEN req' = [Advance(r, "token revoke") EXCEPT ![r].kind = "retry"] ELSE Stop(r)
  /\ UNCHANGED <<loginRest, sessionVars>>

\* Faulty variant: like the cookie's statement, only a live session.
RevocableByToken_LiveOnly(c, now) == now < tokens[c].expires /\ Usable(tokens[c].session, now)

\* A token may end a session that is revoked already.
RevocableByToken(c, now) ==
  LET s == tokens[c].session IN
  now < tokens[c].expires /\ (sessions[s].revoked \/ Usable(s, now))

\* The revocation of LogoutBrowserAccessToken commits by itself.
RevokeAndGetBrowserSessionByAccessToken(r) ==
  LET c == req[r].code  s == req[r].state IN
  /\ req[r].pc = "token revoke"
  /\ RevocableByToken(c, req[r].now)
  /\ sessions' = [sessions EXCEPT ![s].revoked = TRUE]
  /\ req' = Advance(r, "token audit")
  /\ UNCHANGED <<loginRest, codes, tokens, cookie, auditTrail, answers>>

\* No row: 204 from logout itself, 401 from its retry.
TokenAlreadyDead(r) ==
  /\ req[r].pc = "token revoke"
  /\ ~RevocableByToken(req[r].code, req[r].now)
  /\ answers' = IF req[r].kind = "retry" THEN answers ELSE answers \cup {<<"token signed out", req[r].code>>}
  /\ Stop(r)
  /\ UNCHANGED <<loginRest, rowVars, cookie, auditTrail>>

\* The audit row's id comes from the token, so a repetition finds it written.
AppendIdempotentAccessLogoutAudit(r) ==
  /\ req[r].pc = "token audit"
  /\ auditTrail' = auditTrail \cup {<<"token logout", req[r].code>>}
  /\ answers' = answers \cup {<<"token signed out", req[r].code>>}
  /\ Stop(r)
  /\ UNCHANGED <<loginRest, rowVars, cookie>>

-----------------------------------------------------------------------------
\* A refusal, an error answer, a time-out or a crash anywhere after the login
\* itself.  callback alone cleans up before it answers an error.
GiveUpSession(r) ==
  /\ req[r].pc \in {"resolve", "issue", "code", "exchange", "consumed", "clean", "clean again", "audit",
                    "revoke", "lookup", "slide", "token revoke", "token audit"}
  /\ Stop(r)
  /\ UNCHANGED <<loginRest, sessionVars>>

SessionInit ==
  /\ sessions = <<>> /\ codes = <<>> /\ tokens = <<>>
  /\ cookie = [b \in Browsers |-> NoOne]
  /\ auditTrail = {} /\ answers = {}

SessionStep(r) ==
  \/ \E b \in Browsers : \/ \E kind \in {"me", "logout"} : PresentCookie(r, b, kind)
                         \/ \E c \in Codes : StartExchange(r, b, c)
  \/ AuthorizeWithCookie(r) \/ GetSession(r) \/ GetSessionInvalid(r) \/ IssueCode(r)
  \/ \E c \in Codes, kind \in {"me", "logout"} : PresentToken(r, c, kind)
  \/ CreateAuthorizationCode(r) \/ ExchangeAuthorizationCode(r) \/ CreateSession(r) \/ AppendBrowserAudit(r)
  \/ CallbackFails(r) \/ CleanUp(r) \/ CleanUpUnavailable(r) \/ LogoutBrowserSession(r)
  \/ GetActiveBrowserAccessToken(r) \/ UseAccessToken(r) \/ TokenRejected(r)
  \/ RevokeAndGetBrowserSessionByAccessToken(r) \/ TokenAlreadyDead(r)
  \/ AppendIdempotentAccessLogoutAudit(r) \/ GiveUpSession(r)

\* Logins and sessions together.
SessionsNext ==
  \/ \E r \in Requests : SessionStep(r) \/ (LoginStep(r, DOMAIN sessions) /\ UNCHANGED sessionVars)
  \/ Tick /\ UNCHANGED sessionVars

SessionsSpec == LoginInit /\ SessionInit /\ [][SessionsNext]_<<loginVars, sessionVars>>

-----------------------------------------------------------------------------
(* Properties                                                                *)

SessionTypeOK ==
  /\ DOMAIN sessions \subseteq States
  /\ \A s \in DOMAIN sessions :
       sessions[s] \in [browser : Browsers, revoked : BOOLEAN, idle : Nat, absolute : Nat]
  /\ DOMAIN codes \subseteq Codes /\ DOMAIN tokens \subseteq DOMAIN codes
  /\ cookie \in [Browsers -> DOMAIN sessions \cup {NoOne}]

Dead(s) == sessions[s].revoked \/ sessions[s].absolute =< clock

\* A browser's cookie is a session that the browser itself asked to open, and
\* whose creation is in the audit trail (callback of browser_auth.go: the
\* binding cookie, and the audit before the Set-Cookie).
CookieIsOwnAndAudited ==
  \A b \in Browsers : cookie[b] # NoOne =>
    sessions[cookie[b]].browser = b /\ <<"create", cookie[b]>> \in auditTrail

\* Once a caller was told it is signed out, the session is revoked or over, so
\* that no request in flight can bring it back (logout of browser_auth.go; a
\* slide uses the time its request read).
SignedOutIsOver ==
  /\ \A s \in States : <<"signed out", s>> \in answers => Dead(s)
  /\ \A c \in Codes : <<"token signed out", c>> \in answers => Dead(tokens[c].session)

\* A token's logout that was confirmed is in the audit trail under the token's
\* own event, unless the token had run out, whichever logouts it raced with and
\* however often its audit failed before (LogoutBrowserAccessToken).
TokenLogoutAudited ==
  \A c \in Codes : <<"token signed out", c>> \in answers =>
    <<"token logout", c>> \in auditTrail \/ tokens[c].expires =< clock

\* A callback that failed after it opened the session, and whose clean-up
\* reached the store, leaves no live session behind (fail of callback).
AbandonedIsDead == \A s \in States : <<"abandoned", s>> \in answers => Dead(s)

\* Nothing is served and no code is exchanged on a session that is revoked at
\* that moment, though it was checked in an earlier transaction (UseSession,
\* UseAccessToken and ExchangeAuthorizationCode).
ServedIsUnrevoked == \A s \in States : <<"served revoked", s>> \notin answers

\* A session that was ended stays ended for everyone: the caller who was told
\* so, the callback that gave up, and every request in flight (logout,
\* callback, UseSession and UseAccessToken).
EndedStaysEnded == SignedOutIsOver /\ AbandonedIsDead /\ ServedIsUnrevoked

\* Every session in use and every confirmed logout can be traced to the browser
\* or the token it belongs to, in the audit trail (callback and
\* LogoutBrowserAccessToken).
SessionsAreAccounted == SessionTypeOK /\ CookieIsOwnAndAudited /\ TokenLogoutAudited
=============================================================================
