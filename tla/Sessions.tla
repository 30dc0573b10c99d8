-------------------------------- MODULE Sessions --------------------------------
(***************************************************************************)
(* Logins, from the first token to the last: access tokens and the list of *)
(* revoked ones (in memory, and in a table for the next start), refresh    *)
(* tokens that are replaced at every use, and the sessions in memory that  *)
(* hold both for a browser.                                                *)
(*                                                                         *)
(* A login is a bearer's, who keeps its tokens itself, or a browser's.     *)
(* Tokens are numbered as they are issued: token n is the refresh token of *)
(* row n and the access token issued with it.                              *)
(*                                                                         *)
(* Sources: api/auth.go, auth/jwt.go, auth/bff_session.go,                 *)
(* middleware/auth.go.                                                     *)
(***************************************************************************)
EXTENDS Naturals, Sequences, FiniteSets

CONSTANTS
  Client,     \* requests that may be at work at once
  MaxLogins,  \* bound on logins
  MaxTokens,  \* bound on tokens
  MaxNow,     \* bound on the clock
  AccessTTL, RefreshTTL,
  MaxRestarts,
  NoSession

VARIABLES
  now,        \* the clock
  rows,       \* refresh_tokens: [login, issued, revoked], row n for token n
  blacklist,  \* in memory: until when each token is listed, or 0
  revokedTokens, \* revoked_tokens: the same, in the database
  session,    \* in memory, for each login: NoSession or [token, access, refresh]
  request,    \* what each client's request is doing
  logins,     \* for each login whether it is a browser's
  loggedOut,  \* history: the access tokens that were logged out
  unsaved,    \* history: those of them whose insert failed
  ended,      \* history: the logins whose session was logged out
  disturbed,  \* history: the logins two requests were at work for, or one failed
  restarts

vars == <<now, rows, blacklist, revokedTokens, session, request, logins, loggedOut,
          unsaved, ended, disturbed, restarts>>
tokens == <<rows, logins>>
lists  == <<blacklist, revokedTokens>>
past   == <<loggedOut, unsaved, ended>>

Login  == 1..MaxLogins
Token  == 1..MaxTokens
Issued == DOMAIN rows
Held   == {n \in Issued : ~logins[rows[n].login]} \* by bearers
Idle   == [at |-> "idle", browser |-> FALSE, login |-> 0, token |-> 0]

At(c)     == request[c].at
Mine(c)   == request[c].token
Of(c)     == request[c].login
Go(c, to) == request' = [request EXCEPT ![c].at = to]
Finish(c) == request' = [request EXCEPT ![c] = Idle]

Busy(l) == {c \in Client : At(c) # "idle" /\ Of(c) = l}

\* A request for login l begins at the step "to".
Begin(c, to, browser, l, n) ==
  /\ request' = [request EXCEPT ![c] =
                   [at |-> to, browser |-> browser, login |-> l, token |-> n]]
  /\ disturbed' = IF Busy(l) = {} THEN disturbed ELSE disturbed \cup {l}

\* A request that is one step disturbs those at work.
Meets(l) == disturbed' = IF Busy(l) = {} THEN disturbed ELSE disturbed \cup {l}

Init ==
  /\ now = 1 /\ rows = <<>> /\ logins = <<>> /\ restarts = 0
  /\ blacklist = [n \in Token |-> 0] /\ revokedTokens = [n \in Token |-> 0]
  /\ session = [l \in Login |-> NoSession]
  /\ request = [c \in Client |-> Idle]
  /\ loggedOut = {} /\ unsaved = {} /\ ended = {} /\ disturbed = {}

NewRow(l) == [login |-> l, issued |-> now, revoked |-> FALSE]

NewSession(n) == [token |-> n, access |-> now + AccessTTL, refresh |-> now + RefreshTTL]

Usable(n) == ~rows[n].revoked /\ rows[n].issued + RefreshTTL > now

\* ValidateAccessToken: the list in memory, then the token's own time.
Validates(n) == blacklist[n] = 0 /\ now < rows[n].issued + AccessTTL

\* AuthMiddleware: a bearer shows his token, a browser names a session.
Admitted ==
  LET named == {session[l].token : l \in {k \in DOMAIN logins : session[k] # NoSession}} IN
  {n \in Held \cup named : Validates(n)}
-----------------------------------------------------------------------------
(***************************************************************************)
(* Login and SessionLogin: a row, and for a browser a session.             *)
(***************************************************************************)
LogIn(browser) ==
  /\ Len(logins) < MaxLogins /\ Len(rows) < MaxTokens
  /\ logins' = Append(logins, browser)
  /\ rows' = Append(rows, NewRow(Len(logins')))
  /\ session' = IF browser THEN [session EXCEPT ![Len(logins')] = NewSession(Len(rows'))]
                ELSE session
  /\ UNCHANGED <<now, lists, request, past, disturbed, restarts>>

(***************************************************************************)
(* Refresh: a bearer brings one of its tokens.                             *)
(***************************************************************************)
Refresh(c, n) ==
  /\ At(c) = "idle" /\ n \in Held
  /\ Usable(n)
  /\ Begin(c, "revoke", FALSE, rows[n].login, n)
  /\ UNCHANGED <<now, tokens, lists, session, past, restarts>>

\* In Refresh and SessionRefresh.
RevokeOld(c) ==
  /\ At(c) = "revoke"
  /\ rows' = [rows EXCEPT ![Mine(c)].revoked = TRUE]
  /\ Go(c, "create")
  /\ UNCHANGED <<now, logins, lists, session, past, disturbed, restarts>>

CreateNew(c) ==
  /\ At(c) = "create" /\ Len(rows) < MaxTokens
  /\ rows' = Append(rows, NewRow(Of(c)))
  /\ IF request[c].browser
     THEN request' = [request EXCEPT ![c].at = "update", ![c].token = Len(rows')]
     ELSE Finish(c)
  /\ UNCHANGED <<now, logins, lists, session, past, disturbed, restarts>>

\* A statement fails: the answer is an error, and what was done remains.
RefreshFails(c) ==
  /\ At(c) \in {"revoke", "create"}
  /\ Finish(c)
  /\ disturbed' = disturbed \cup {Of(c)}
  /\ UNCHANGED <<now, tokens, lists, session, past, restarts>>

(***************************************************************************)
(* SessionRefresh: the token is the session's.                             *)
(***************************************************************************)
\* GetSession deletes a session past its time; one whose access token is
\* still good needs no refresh.
SessionRefresh(c, l) ==
  /\ At(c) = "idle" /\ session[l] # NoSession
  /\ IF now > session[l].refresh
     THEN session' = [session EXCEPT ![l] = NoSession] /\ Meets(l) /\ UNCHANGED request
     ELSE /\ now >= session[l].access
          /\ Begin(c, "find", TRUE, l, session[l].token)
          /\ UNCHANGED session
  /\ UNCHANGED <<now, tokens, lists, past, restarts>>

FindRow(c) ==
  /\ At(c) = "find"
  /\ IF Usable(Mine(c))
     THEN Go(c, "revoke") /\ UNCHANGED session
     ELSE session' = [session EXCEPT ![Of(c)] = NoSession] /\ Finish(c)
  /\ UNCHANGED <<now, tokens, lists, past, disturbed, restarts>>

\* Mutant: UpdateAccessToken, which keeps the old refresh token.
UpdateAccessToken(c) ==
  /\ At(c) = "update"
  /\ session' = IF session[Of(c)] = NoSession THEN session
                ELSE [session EXCEPT ![Of(c)].access = now + AccessTTL]
  /\ Finish(c)
  /\ UNCHANGED <<now, tokens, lists, past, disturbed, restarts>>

\* A session that is gone stays gone.
UpdateRefreshToken(c) ==
  /\ At(c) = "update"
  /\ LET l == Of(c) IN
       session' = [session EXCEPT ![l] = IF @ = NoSession THEN NoSession
                                         ELSE IF now > @.refresh THEN NoSession
                                         ELSE NewSession(Mine(c))]
  /\ Finish(c)
  /\ UNCHANGED <<now, tokens, lists, past, disturbed, restarts>>

SessionLogout(l) ==
  /\ l \in DOMAIN logins /\ logins[l]
  /\ session' = [session EXCEPT ![l] = NoSession]
  /\ ended' = ended \cup {l}
  /\ Meets(l)
  /\ UNCHANGED <<now, tokens, lists, request, loggedOut, unsaved, restarts>>

(***************************************************************************)
(* Logout: the row, the list in memory, then the table.                    *)
(***************************************************************************)
Logout(c, n) ==
  /\ At(c) = "idle" /\ n \in Held
  /\ rows' = [rows EXCEPT ![n].revoked = TRUE]
  /\ Begin(c, "list", FALSE, rows[n].login, n)
  /\ UNCHANGED <<now, logins, lists, session, past, restarts>>

BlacklistAccessToken(c) ==
  /\ At(c) = "list"
  /\ blacklist' = [blacklist EXCEPT ![Mine(c)] = now + AccessTTL]
  /\ Go(c, "insert")
  /\ UNCHANGED <<now, tokens, revokedTokens, session, past, disturbed, restarts>>

\* Mutant: the table is not written.
InsertNothing(c) ==
  /\ At(c) = "insert"
  /\ loggedOut' = loggedOut \cup {Mine(c)}
  /\ Finish(c)
  /\ UNCHANGED <<now, tokens, lists, session, unsaved, ended, disturbed, restarts>>

\* INSERT OR IGNORE: a row that is there keeps its time.  A failure goes
\* unnoticed.
InsertRevoked(c) ==
  /\ At(c) = "insert"
  /\ LET n == Mine(c) IN
       /\ \/ /\ revokedTokens' = [revokedTokens EXCEPT ![n] = IF @ = 0 THEN blacklist[n] ELSE @]
             /\ UNCHANGED unsaved
          \/ UNCHANGED revokedTokens /\ unsaved' = unsaved \cup {n}
       /\ loggedOut' = loggedOut \cup {n}
  /\ Finish(c)
  /\ UNCHANGED <<now, tokens, blacklist, session, ended, disturbed, restarts>>
-----------------------------------------------------------------------------
\* The entries of a list that expire no earlier than "since".
Forget(list, since) == [n \in Token |-> IF list[n] >= since THEN list[n] ELSE 0]

\* cleanupBlacklist, every five minutes.
CleanupBlacklist ==
  /\ blacklist' = Forget(blacklist, now)
  /\ revokedTokens' = Forget(revokedTokens, now)
  /\ lists' # lists
  /\ UNCHANGED <<now, tokens, session, request, past, disturbed, restarts>>

CleanupSessions ==
  /\ session' = [l \in Login |-> IF session[l] = NoSession THEN NoSession
                                 ELSE IF now > session[l].refresh THEN NoSession
                                 ELSE session[l]]
  /\ session' # session
  /\ UNCHANGED <<now, tokens, lists, request, past, disturbed, restarts>>

Tick ==
  /\ now < MaxNow
  /\ now' = now + 1
  /\ UNCHANGED <<tokens, lists, session, request, past, disturbed, restarts>>

\* loadBlacklistFromDB at the next start.
Restart ==
  /\ restarts < MaxRestarts
  /\ restarts' = restarts + 1
  /\ session' = [l \in Login |-> NoSession]
  /\ blacklist' = Forget(revokedTokens, now + 1)
  /\ request' = [c \in Client |-> Idle]
  /\ disturbed' = disturbed \cup {Of(c) : c \in {c \in Client : At(c) # "idle"}}
  /\ loggedOut' = loggedOut \ unsaved
  /\ UNCHANGED <<now, tokens, revokedTokens, unsaved, ended>>

\* What SessionRefresh does after it found the session.
Rotation(c) == FindRow(c) \/ RevokeOld(c) \/ CreateNew(c) \/ UpdateRefreshToken(c) \/ RefreshFails(c)

Next ==
  \/ CleanupBlacklist \/ CleanupSessions \/ Tick \/ Restart
  \/ \E browser \in BOOLEAN : LogIn(browser)
  \/ \E l \in Login : SessionLogout(l)
  \/ \E c \in Client :
       \/ Rotation(c) \/ BlacklistAccessToken(c) \/ InsertRevoked(c)
       \/ \E n \in Token : Refresh(c, n) \/ Logout(c, n)
       \/ \E l \in Login : SessionRefresh(c, l)

Spec == Init /\ [][Next]_vars
-----------------------------------------------------------------------------
TypeOK ==
  /\ now \in 1..MaxNow /\ restarts \in 0..MaxRestarts
  /\ logins \in Seq(BOOLEAN) /\ Len(logins) <= MaxLogins
  /\ Len(rows) <= MaxTokens
  /\ \A n \in Issued : rows[n].login \in DOMAIN logins /\ rows[n].issued \in 1..now
  /\ loggedOut \cup unsaved \subseteq Issued /\ ended \cup disturbed \subseteq DOMAIN logins

\* The access token of a logout that has answered is never accepted again:
\* not when the list is cleaned, not after a restart, unless its insert failed
\* and the list in memory is gone.
LogoutSticks == loggedOut \cap Admitted = {}

\* Whatever the rotation went through, a login with no request at work has at
\* most one refresh token that is not revoked, a session holds exactly that
\* one, and a session that was logged out does not come back; unless two
\* requests of one login met, or a rotation was cut.
OneLiveToken ==
  \A l \in DOMAIN logins : l \notin disturbed /\ Busy(l) = {} =>
    LET live == {n \in Issued : rows[n].login = l /\ ~rows[n].revoked} IN
    /\ Cardinality(live) <= 1
    /\ session[l] # NoSession => l \notin ended /\ live = {session[l].token}
===============================================================================
