---------------------------- MODULE Services_proofs ----------------------------
(***************************************************************************)
(* Proofs about the services of the panel for any clients, rows and        *)
(* bounds.  A behaviour exercises one service; its theorem says what holds *)
(* of it, and for the others its property is true.  For each, the          *)
(* invariant adds what a request at work has established.                  *)
(***************************************************************************)
EXTENDS Services, Sequences, FiniteSetTheorems, WellFoundedInduction, TLAPS

\* Only the service exercised takes steps.
LEMMA Exercised ==
  ASSUME [Next]_vars
  PROVE  /\ part' = part
         /\ part = "ports" => [Port!Next]_portVars
         /\ part = "sessions" => [Session!Next]_sessionVars
         /\ part = "subscriptions" => [Sub!Next]_subscriptionVars
         /\ part = "settings" => [Setting!Next]_settingVars
         /\ part = "traffic" => [Traffic!Next]_trafficVars
         /\ part = "files" => [File!Next]_fileVars
         /\ part = "certificates" => [Certificate!Next]_certificateVars
         /\ part = "logins" => [Login!Next]_loginVars
         /\ part = "admins" => [Admin!Next]_adminVars
BY DEF Next, vars

-----------------------------------------------------------------------------
(***************************************************************************)
(* Sessions: a logout sticks.                                              *)
(***************************************************************************)
SessionBounds == MaxTokens \in Nat /\ MaxLogins \in Nat /\ AccessTTL \in Nat /\ RefreshTTL \in Nat

SessionSteps == {"idle", "revoke", "create", "find", "update", "list", "insert"}

SessionRowType     == [login : Nat, issued : Nat, revoked : BOOLEAN]
SessionType == [token : Nat, access : Nat, refresh : Nat]
SessionRequestType == [at : SessionSteps, browser : BOOLEAN, login : Nat, token : Nat]

SessionTypes ==
  /\ now \in Nat /\ now >= 1
  /\ rows \in Seq(SessionRowType) /\ Len(rows) <= MaxTokens
  /\ \A n \in Session!Issued : rows[n].issued <= now
  /\ logins \in Seq(BOOLEAN)
  /\ blacklist \in [Session!Token -> Nat] /\ revokedTokens \in [Session!Token -> Nat]
  /\ session \in [Session!Login -> SessionType \cup {NoSession}]
  /\ request \in [Client -> SessionRequestType]

\* Until when the access token of row n is good by itself.
Expiry(n) == rows[n].issued + AccessTTL

\* What a list holds outlasts the token.
Outlasts(list) == \A n \in Session!Token : list[n] # 0 => n \in Session!Issued /\ list[n] >= Expiry(n)

SessionListInv == Outlasts(blacklist) /\ Outlasts(revokedTokens)

\* A logout on its way has its token in the list before it goes to the table.
RequestInv ==
  \A c \in Client :
    /\ Session!At(c) \in {"list", "insert"} => Session!Mine(c) \in Session!Issued
    /\ Session!At(c) = "insert" => blacklist[Session!Mine(c)] # 0 \/ now >= Expiry(Session!Mine(c))

LogoutInv ==
  /\ loggedOut \subseteq Session!Issued
  /\ \A n \in loggedOut :
       /\ blacklist[n] # 0 \/ now >= Expiry(n)
       /\ n \in unsaved \/ revokedTokens[n] # 0 \/ now >= Expiry(n)

SessionInv == SessionTypes /\ SessionListInv /\ RequestInv /\ LogoutInv

-----------------------------------------------------------------------------
(* The rows, of which only the mark changes.                               *)

\* Rows are added, and those there are keep their time of issue.
Grows == Session!Issued \subseteq Session!Issued' /\ \A n \in Session!Issued : rows'[n].issued = rows[n].issued

LEMMA IssuedTokens == SessionTypes /\ SessionBounds => Session!Issued \subseteq Session!Token /\ Session!Issued = 1..Len(rows)
<1> SUFFICES ASSUME SessionTypes, SessionBounds PROVE Session!Issued \subseteq Session!Token /\ Session!Issued = 1..Len(rows)
  OBVIOUS
<1>1. Session!Issued = 1..Len(rows) /\ Len(rows) \in Nat
  BY DEF SessionTypes, Session!Issued
<1> QED
  BY <1>1 DEF SessionTypes, SessionBounds, Session!Token

LEMMA RowFacts ==
  ASSUME SessionTypes, SessionBounds, NEW n \in Session!Issued
  PROVE  /\ n \in Nat /\ rows[n].login \in Nat /\ rows[n].issued \in Nat
         /\ rows[n].issued <= now /\ Expiry(n) \in Nat
<1>1. rows \in Seq(SessionRowType) /\ n \in 1..Len(rows)
  BY IssuedTokens DEF SessionTypes
<1>2. rows[n] \in SessionRowType
  BY <1>1
<1>3. rows[n].login \in Nat /\ rows[n].issued \in Nat
  BY <1>2 DEF SessionRowType
<1>4. Expiry(n) \in Nat
  BY <1>3 DEF Expiry, SessionBounds
<1> QED
  BY <1>1, <1>3, <1>4 DEF SessionTypes

LEMMA AppendRow ==
  ASSUME SessionTypes, NEW l \in Nat, rows' = Append(rows, Session!NewRow(l)), Len(rows) < MaxTokens, now' = now, SessionBounds
  PROVE  /\ rows' \in Seq(SessionRowType) /\ Len(rows') <= MaxTokens /\ Len(rows') \in Nat
         /\ \A n \in Session!Issued' : rows'[n].issued <= now'
         /\ Grows
<1>1. Session!NewRow(l) \in SessionRowType /\ Session!NewRow(l).issued = now
  BY DEF Session!NewRow, SessionRowType, SessionTypes
<1>2. rows \in Seq(SessionRowType) /\ Len(rows) \in Nat /\ MaxTokens \in Nat /\ now \in Nat
  BY DEF SessionTypes, SessionBounds
<1>3. rows' \in Seq(SessionRowType) /\ Len(rows') = Len(rows) + 1
  BY <1>1, <1>2
<1>4. \A n \in 1..Len(rows) : rows'[n] = rows[n]
  BY <1>1, <1>2
<1>5. rows'[Len(rows) + 1].issued = now
  BY <1>1, <1>2
<1>6. Session!Issued = 1..Len(rows) /\ Session!Issued' = 1..(Len(rows) + 1)
  BY <1>2, <1>3 DEF Session!Issued
<1>7. \A n \in Session!Issued' : n \in Session!Issued \/ n = Len(rows) + 1
  BY <1>2, <1>6
<1>8. \A n \in Session!Issued' : rows'[n].issued <= now'
  BY <1>2, <1>4, <1>5, <1>6, <1>7 DEF SessionTypes
<1> QED
  BY <1>2, <1>3, <1>4, <1>6, <1>8 DEF Grows

LEMMA MarkRow ==
  ASSUME SessionTypes, NEW k, rows' = [rows EXCEPT ![k].revoked = TRUE], now' = now
  PROVE  /\ rows' \in Seq(SessionRowType) /\ Len(rows') <= MaxTokens
         /\ \A n \in Session!Issued' : rows'[n].issued <= now'
         /\ Grows
<1>1. rows \in [1..Len(rows) -> SessionRowType] /\ Len(rows) \in Nat
  BY DEF SessionTypes
<1>2. \A row \in SessionRowType : [row EXCEPT !.revoked = TRUE] \in SessionRowType
                           /\ [row EXCEPT !.revoked = TRUE].issued = row.issued
  BY DEF SessionRowType
<1>3. /\ DOMAIN rows' = 1..Len(rows)
      /\ \A n \in 1..Len(rows) : rows'[n] = rows[n] \/ rows'[n] = [rows[n] EXCEPT !.revoked = TRUE]
      /\ rows' = [n \in 1..Len(rows) |-> rows'[n]]
  BY <1>1
<1>4. \A n \in 1..Len(rows) : rows'[n] \in SessionRowType /\ rows'[n].issued = rows[n].issued
  BY <1>1, <1>2, <1>3
<1>5. rows' \in Seq(SessionRowType) /\ Len(rows') = Len(rows)
  <2>1. rows' \in [1..Len(rows) -> SessionRowType]
    BY <1>3, <1>4
  <2> QED
    BY <1>1, <2>1
<1> QED
  BY <1>1, <1>3, <1>4, <1>5 DEF Grows, Session!Issued, SessionTypes

LEMMA SessionKeepRows ==
  ASSUME SessionTypes, rows' = rows, now' = now
  PROVE  /\ rows' \in Seq(SessionRowType) /\ Len(rows') <= MaxTokens
         /\ \A n \in Session!Issued' : rows'[n].issued <= now'
         /\ Grows
BY DEF SessionTypes, Grows, Session!Issued

-----------------------------------------------------------------------------
(* Steps that neither list nor unlist a token.                             *)

\* Those that only add rows or mark them, and start or end other requests.
LEMMA AsideInv ==
  ASSUME SessionTypes, SessionListInv, RequestInv, LogoutInv, Grows, now' = now,
         UNCHANGED <<blacklist, revokedTokens, loggedOut, unsaved>>,
         \A c \in Client : Session!At(c)' \in {"list", "insert"} =>
            Session!Mine(c)' \in Session!Issued' /\ (Session!At(c)' = "insert" => Session!At(c) = "insert" /\ Session!Mine(c)' = Session!Mine(c))
  PROVE  SessionListInv' /\ RequestInv' /\ LogoutInv'
<1>1. \A n \in Session!Issued : n \in Session!Issued' /\ Expiry(n)' = Expiry(n)
  BY DEF Grows, Expiry
<1>2. SessionListInv'
  BY <1>1 DEF SessionListInv, Outlasts
<1>3. RequestInv'
  BY <1>1 DEF RequestInv
<1>4. LogoutInv'
  BY <1>1 DEF LogoutInv
<1> QED
  BY <1>2, <1>3, <1>4

\* What Begin, Go and Finish make of the requests.
LEMMA RequestUpdates ==
  ASSUME SessionTypes, NEW c \in Client
  PROVE  /\ Session!Finish(c) => /\ request' \in [Client -> SessionRequestType]
                         /\ Session!At(c)' = "idle" /\ \A o \in Client \ {c} : request'[o] = request[o]
         /\ \A at \in SessionSteps :
              Session!Go(c, at) => /\ request' \in [Client -> SessionRequestType]
                           /\ Session!At(c)' = at /\ Session!Mine(c)' = Session!Mine(c)
                           /\ \A o \in Client \ {c} : request'[o] = request[o]
         /\ \A at \in SessionSteps, b \in BOOLEAN, l \in Nat, n \in Nat :
              Session!Begin(c, at, b, l, n) => /\ request' \in [Client -> SessionRequestType]
                                       /\ Session!At(c)' = at /\ Session!Mine(c)' = n
                                       /\ \A o \in Client \ {c} : request'[o] = request[o]
<1>1. Session!Finish(c) => /\ request' \in [Client -> SessionRequestType]
                   /\ Session!At(c)' = "idle" /\ \A o \in Client \ {c} : request'[o] = request[o]
  BY DEF SessionTypes, Session!Finish, Session!Idle, Session!At, SessionRequestType, SessionSteps
<1>2. ASSUME NEW at \in SessionSteps, Session!Go(c, at)
      PROVE  /\ request' \in [Client -> SessionRequestType]
             /\ Session!At(c)' = at /\ Session!Mine(c)' = Session!Mine(c)
             /\ \A o \in Client \ {c} : request'[o] = request[o]
  BY <1>2 DEF SessionTypes, Session!Go, Session!At, Session!Mine, SessionRequestType
<1>3. ASSUME NEW at \in SessionSteps, NEW b \in BOOLEAN, NEW l \in Nat, NEW n \in Nat, Session!Begin(c, at, b, l, n)
      PROVE  /\ request' \in [Client -> SessionRequestType]
             /\ Session!At(c)' = at /\ Session!Mine(c)' = n
             /\ \A o \in Client \ {c} : request'[o] = request[o]
  BY <1>3 DEF SessionTypes, Session!Begin, Session!At, Session!Mine, SessionRequestType
<1> QED
  BY <1>1, <1>2, <1>3

\* A request that comes to a step other than the last two of a logout.
LEMMA ElsewhereAside ==
  ASSUME SessionTypes, SessionListInv, RequestInv, LogoutInv, Grows, now' = now, NEW c \in Client,
         UNCHANGED <<blacklist, revokedTokens, loggedOut, unsaved>>,
         Session!At(c)' \notin {"list", "insert"}, \A o \in Client \ {c} : request'[o] = request[o]
  PROVE  SessionListInv' /\ RequestInv' /\ LogoutInv'
<1>1. \A o \in Client : Session!At(o)' \in {"list", "insert"} =>
            Session!Mine(o)' \in Session!Issued' /\ (Session!At(o)' = "insert" => Session!At(o) = "insert" /\ Session!Mine(o)' = Session!Mine(o))
  BY DEF RequestInv, Grows, Session!At, Session!Mine
<1> QED
  BY <1>1, AsideInv

LEMMA SessionLogInInv ==
  ASSUME SessionInv, SessionBounds, NEW browser \in BOOLEAN, Session!LogIn(browser)
  PROVE  SessionInv'
<1>1. logins' \in Seq(BOOLEAN) /\ Len(logins') \in Nat
  BY DEF Session!LogIn, SessionInv, SessionTypes
<1>2. /\ rows' \in Seq(SessionRowType) /\ Len(rows') <= MaxTokens /\ Len(rows') \in Nat
      /\ \A n \in Session!Issued' : rows'[n].issued <= now'
      /\ Grows
  BY <1>1, AppendRow DEF Session!LogIn, SessionInv
<1>3. Session!NewSession(Len(rows')) \in SessionType
  BY <1>2 DEF Session!NewSession, SessionType, SessionInv, SessionTypes, SessionBounds
<1>4. session' \in [Session!Login -> SessionType \cup {NoSession}]
  BY <1>3 DEF Session!LogIn, SessionInv, SessionTypes
<1>5. SessionTypes'
  BY <1>1, <1>2, <1>4 DEF Session!LogIn, SessionInv, SessionTypes, Session!lists
<1>6. SessionListInv' /\ RequestInv' /\ LogoutInv'
  <2>1. \A c \in Client : Session!At(c)' \in {"list", "insert"} =>
            Session!Mine(c)' \in Session!Issued' /\ (Session!At(c)' = "insert" => Session!At(c) = "insert" /\ Session!Mine(c)' = Session!Mine(c))
    BY <1>2 DEF Session!LogIn, SessionInv, RequestInv, Grows, Session!At, Session!Mine
  <2> QED
    BY <1>2, <2>1, AsideInv DEF Session!LogIn, SessionInv, Session!lists, Session!past
<1> QED
  BY <1>5, <1>6 DEF SessionInv

LEMMA SessionRefreshInv ==
  ASSUME SessionInv, SessionBounds, NEW c \in Client,
         Session!Rotation(c) \/ (\E n \in Session!Token : Session!Refresh(c, n)) \/ (\E l \in Session!Login : Session!SessionRefresh(c, l))
  PROVE  SessionInv'
<1> USE DEF SessionSteps
<1>1. UNCHANGED <<now, blacklist, revokedTokens, loggedOut, unsaved, logins>>
  BY DEF Session!Rotation, Session!FindRow, Session!RevokeOld, Session!CreateNew,
         Session!UpdateRefreshToken, Session!RefreshFails, Session!Refresh, Session!SessionRefresh,
         Session!tokens, Session!lists, Session!past
<1>2. ASSUME /\ rows' \in Seq(SessionRowType) /\ Len(rows') <= MaxTokens
             /\ \A n \in Session!Issued' : rows'[n].issued <= now'
             /\ Grows,
             session' \in [Session!Login -> SessionType \cup {NoSession}],
             request' \in [Client -> SessionRequestType], Session!At(c)' \notin {"list", "insert"},
             \A o \in Client \ {c} : request'[o] = request[o]
      PROVE  SessionInv'
  <2>1. SessionTypes'
    BY <1>1, <1>2 DEF SessionInv, SessionTypes
  <2> QED
    BY <1>1, <1>2, <2>1, ElsewhereAside DEF SessionInv
<1>3. ASSUME NEW n \in Session!Token, Session!Refresh(c, n) PROVE SessionInv'
  <2>1. n \in Nat /\ rows[n].login \in Nat
    <3>1. n \in Session!Issued
      BY <1>3 DEF Session!Refresh, Session!Held
    <3> QED
      BY <3>1, RowFacts DEF SessionInv
  <2> QED
    BY <1>1, <1>2, <1>3, <2>1, SessionKeepRows, RequestUpdates DEF Session!Refresh, SessionInv,
       SessionTypes, Session!tokens
<1>4. ASSUME NEW l \in Session!Login, Session!SessionRefresh(c, l) PROVE SessionInv'
  <2>1. session[l] \in SessionType /\ l \in Nat
    BY <1>4 DEF Session!SessionRefresh, SessionInv, SessionTypes, Session!Login
  <2>2. CASE Session!Begin(c, "find", TRUE, l, session[l].token) /\ UNCHANGED session
    BY <1>1, <1>2, <1>4, <2>1, <2>2, SessionKeepRows, RequestUpdates
       DEF Session!SessionRefresh, SessionInv, SessionTypes, Session!tokens, SessionType
  <2>3. CASE session' = [session EXCEPT ![l] = NoSession] /\ Session!At(c) = "idle" /\ UNCHANGED request
    BY <1>1, <1>2, <1>4, <2>3, SessionKeepRows DEF Session!SessionRefresh, SessionInv, SessionTypes,
       Session!tokens, Session!At
  <2> QED
    BY <1>4, <2>2, <2>3 DEF Session!SessionRefresh
<1>5. CASE Session!FindRow(c)
  <2>1. CASE Session!Go(c, "revoke") /\ UNCHANGED session
    BY <1>1, <1>2, <1>5, <2>1, SessionKeepRows, RequestUpdates DEF Session!FindRow, SessionInv,
       SessionTypes, Session!tokens
  <2>2. CASE session' = [session EXCEPT ![Session!Of(c)] = NoSession] /\ Session!Finish(c)
    BY <1>1, <1>2, <1>5, <2>2, SessionKeepRows, RequestUpdates DEF Session!FindRow, SessionInv,
       SessionTypes, Session!tokens
  <2> QED
    BY <1>5, <2>1, <2>2 DEF Session!FindRow
<1>6. CASE Session!RevokeOld(c)
  BY <1>1, <1>2, <1>6, MarkRow, RequestUpdates DEF Session!RevokeOld, SessionInv, SessionTypes
<1>7. CASE Session!CreateNew(c)
  <2>1. /\ rows' \in Seq(SessionRowType) /\ Len(rows') <= MaxTokens /\ Len(rows') \in Nat
        /\ \A n \in Session!Issued' : rows'[n].issued <= now'
        /\ Grows
    BY <1>1, <1>7, AppendRow DEF Session!CreateNew, Session!Of, SessionInv, SessionTypes, SessionRequestType
  <2>2. CASE Session!Finish(c)
    BY <1>1, <1>2, <1>7, <2>1, <2>2, RequestUpdates DEF Session!CreateNew, SessionInv, SessionTypes
  <2>3. CASE request' = [request EXCEPT ![c].at = "update", ![c].token = Len(rows')]
    <3>1. /\ request' \in [Client -> SessionRequestType] /\ Session!At(c)' = "update"
          /\ \A o \in Client \ {c} : request'[o] = request[o]
      BY <2>1, <2>3 DEF SessionInv, SessionTypes, SessionRequestType, Session!At
    <3> QED
      BY <1>1, <1>2, <1>7, <2>1, <3>1 DEF Session!CreateNew, SessionInv, SessionTypes
  <2> QED
    BY <1>7, <2>2, <2>3 DEF Session!CreateNew
<1>8. CASE Session!UpdateRefreshToken(c)
  <2>1. Session!NewSession(Session!Mine(c)) \in SessionType
    BY DEF Session!NewSession, SessionType, Session!Mine, SessionInv, SessionTypes, SessionRequestType,
           SessionBounds
  <2>2. session' \in [Session!Login -> SessionType \cup {NoSession}]
    BY <1>8, <2>1 DEF Session!UpdateRefreshToken, SessionInv, SessionTypes
  <2> QED
    BY <1>1, <1>2, <1>8, <2>2, SessionKeepRows, RequestUpdates DEF Session!UpdateRefreshToken,
       SessionInv, SessionTypes, Session!tokens
<1>9. CASE Session!RefreshFails(c)
  BY <1>1, <1>2, <1>9, SessionKeepRows, RequestUpdates DEF Session!RefreshFails, SessionInv,
     SessionTypes, Session!tokens
<1> QED
  BY <1>3, <1>4, <1>5, <1>6, <1>7, <1>8, <1>9 DEF Session!Rotation

-----------------------------------------------------------------------------
(* The steps of a logout.                                                  *)

LEMMA LogoutStepsInv ==
  ASSUME SessionInv, SessionBounds, NEW c \in Client,
         (\E n \in Session!Token : Session!Logout(c, n)) \/ Session!BlacklistAccessToken(c) \/ Session!InsertRevoked(c)
  PROVE  SessionInv'
<1> USE DEF SessionSteps
<1>1. ASSUME NEW n \in Session!Token, Session!Logout(c, n) PROVE SessionInv'
  <2>1. n \in Session!Issued /\ Session!Issued = 1..Len(rows)
    BY <1>1, IssuedTokens DEF Session!Logout, Session!Held, SessionInv
  <2>2. n \in Nat /\ rows[n].login \in Nat
    BY <2>1, RowFacts DEF SessionInv
  <2>3. /\ rows' \in Seq(SessionRowType) /\ Len(rows') <= MaxTokens
        /\ \A m \in Session!Issued' : rows'[m].issued <= now'
        /\ Grows
    BY <1>1, MarkRow DEF Session!Logout, SessionInv
  <2>4. /\ request' \in [Client -> SessionRequestType]
        /\ Session!At(c)' = "list" /\ Session!Mine(c)' = n /\ \A o \in Client \ {c} : request'[o] = request[o]
    BY <1>1, <2>2, RequestUpdates DEF Session!Logout, SessionInv
  <2>5. SessionTypes'
    BY <1>1, <2>3, <2>4 DEF Session!Logout, SessionInv, SessionTypes, Session!lists
  <2>6. \A o \in Client : Session!At(o)' \in {"list", "insert"} =>
            Session!Mine(o)' \in Session!Issued' /\ (Session!At(o)' = "insert" => Session!At(o) = "insert" /\ Session!Mine(o)' = Session!Mine(o))
    BY <2>1, <2>3, <2>4 DEF SessionInv, RequestInv, Grows, Session!At, Session!Mine
  <2> QED
    BY <1>1, <2>3, <2>5, <2>6, AsideInv DEF Session!Logout, SessionInv, Session!lists, Session!past
<1>2. ASSUME Session!BlacklistAccessToken(c) \/ Session!InsertRevoked(c)
      PROVE  /\ Session!Mine(c) \in Session!Issued /\ Session!Mine(c) \in Session!Token
             /\ rows[Session!Mine(c)].issued \in Nat /\ rows[Session!Mine(c)].issued <= now
             /\ UNCHANGED <<now, rows, logins, session>>
  <2>1. Session!Mine(c) \in Session!Issued
    BY <1>2 DEF Session!BlacklistAccessToken, Session!InsertRevoked, SessionInv, RequestInv
  <2>2. Session!Mine(c) \in Session!Token /\ rows[Session!Mine(c)].issued \in Nat /\ rows[Session!Mine(c)].issued <= now
    BY <2>1, IssuedTokens, RowFacts DEF SessionInv
  <2> QED
    BY <1>2, <2>1, <2>2 DEF Session!BlacklistAccessToken, Session!InsertRevoked, Session!tokens
\* The entry is from now on, and the token from before.
<1>3. CASE Session!BlacklistAccessToken(c)
  <2> DEFINE n == Session!Mine(c)
  <2>1. n \in Session!Issued /\ n \in Session!Token /\ UNCHANGED <<now, rows, logins, session>>
    BY <1>2, <1>3
  <2>2. now + AccessTTL \in Nat /\ now + AccessTTL # 0 /\ now + AccessTTL >= Expiry(n)
    BY <1>2, <1>3 DEF SessionInv, SessionTypes, SessionBounds, Expiry
  <2>3. blacklist' = [blacklist EXCEPT ![n] = now + AccessTTL]
    BY <1>3 DEF Session!BlacklistAccessToken
  <2>4. /\ request' \in [Client -> SessionRequestType]
        /\ Session!At(c)' = "insert" /\ Session!Mine(c)' = n /\ \A o \in Client \ {c} : request'[o] = request[o]
    BY <1>3, RequestUpdates DEF Session!BlacklistAccessToken, SessionInv
  <2> HIDE DEF n
  <2>5. SessionTypes'
    BY <1>3, <2>1, <2>2, <2>3, <2>4 DEF Session!BlacklistAccessToken, SessionInv, SessionTypes,
       Session!Issued
  <2>6. \A m \in Session!Token : Expiry(m)' = Expiry(m)
    BY <2>1 DEF Expiry
  <2>7. Session!Issued' = Session!Issued
    BY <2>1 DEF Session!Issued
  <2>8. \A m \in Session!Token : blacklist'[m] # 0 => m \in Session!Issued /\ blacklist'[m] >= Expiry(m)
    BY <2>1, <2>2, <2>3 DEF SessionInv, SessionTypes, SessionListInv, Outlasts
  <2>9. SessionListInv'
    BY <1>3, <2>6, <2>7, <2>8 DEF Session!BlacklistAccessToken, SessionInv, SessionListInv, Outlasts
  <2>10. \A m \in Session!Token : blacklist[m] # 0 \/ m = n => blacklist'[m] # 0
    BY <2>1, <2>2, <2>3 DEF SessionInv, SessionTypes
  <2>11. Session!Issued \subseteq Session!Token
    BY IssuedTokens DEF SessionInv
  <2>12. RequestInv'
    <3> SUFFICES ASSUME NEW o \in Client, Session!At(o)' \in {"list", "insert"}
                 PROVE  /\ Session!Mine(o)' \in Session!Issued'
                        /\ Session!At(o)' = "insert" => (blacklist[Session!Mine(o)] # 0 \/ now >= Expiry(Session!Mine(o)))'
      BY DEF RequestInv
    <3>1. CASE o = c
      BY <3>1, <2>1, <2>4, <2>7, <2>10
    <3>2. CASE o # c
      <4>1. Session!At(o)' = Session!At(o) /\ Session!Mine(o)' = Session!Mine(o) /\ Session!Mine(o) \in Session!Issued
        BY <3>2, <2>4 DEF Session!At, Session!Mine, SessionInv, RequestInv
      <4> QED
        BY <4>1, <2>1, <2>7, <2>10, <2>11 DEF SessionInv, RequestInv, Expiry
    <3> QED
      BY <3>1, <3>2
  <2>13. LogoutInv'
    BY <1>3, <2>1, <2>7, <2>10, <2>11 DEF Session!BlacklistAccessToken, Session!past, SessionInv,
       LogoutInv, Expiry
  <2> QED
    BY <2>5, <2>9, <2>12, <2>13 DEF SessionInv
\* What is inserted is what the list has, unless the token is past.
<1>4. CASE Session!InsertRevoked(c)
  <2> DEFINE n == Session!Mine(c)
  <2>1. n \in Session!Issued /\ n \in Session!Token /\ UNCHANGED <<now, rows, logins, session, blacklist>>
    BY <1>2, <1>4 DEF Session!InsertRevoked
  <2>2. blacklist[n] # 0 \/ now >= Expiry(n)
    BY <1>4 DEF Session!InsertRevoked, SessionInv, RequestInv
  <2>3. /\ loggedOut' = loggedOut \cup {n}
        /\ \/ /\ revokedTokens' = [revokedTokens EXCEPT ![n] = IF @ = 0 THEN blacklist[n] ELSE @]
              /\ UNCHANGED unsaved
           \/ UNCHANGED revokedTokens /\ unsaved' = unsaved \cup {n}
    BY <1>4 DEF Session!InsertRevoked
  <2>4. /\ request' \in [Client -> SessionRequestType]
        /\ Session!At(c)' = "idle" /\ \A o \in Client \ {c} : request'[o] = request[o]
    BY <1>4, RequestUpdates DEF Session!InsertRevoked, SessionInv
  <2> HIDE DEF n
  <2>5. SessionTypes'
    <3>1. blacklist[n] \in Nat /\ revokedTokens \in [Session!Token -> Nat]
      BY <2>1 DEF SessionInv, SessionTypes
    <3>2. revokedTokens' \in [Session!Token -> Nat]
      BY <2>3, <3>1
    <3> QED
      BY <2>1, <2>4, <3>2 DEF SessionInv, SessionTypes, Session!Issued
  <2>6. \A m \in Session!Token : revokedTokens'[m] = revokedTokens[m] \/ (m = n /\ revokedTokens'[m] = blacklist[m])
    BY <2>1, <2>3 DEF SessionInv, SessionTypes
  <2>7. SessionListInv'
    BY <2>1, <2>6 DEF SessionInv, SessionListInv, Outlasts, Session!Issued, Expiry
  <2>8. RequestInv'
    BY <2>1, <2>4 DEF SessionInv, RequestInv, Session!Issued, Expiry, Session!At, Session!Mine
  <2>9. n \in unsaved' \/ revokedTokens'[n] # 0 \/ now >= Expiry(n)
    BY <2>1, <2>2, <2>3 DEF SessionInv, SessionTypes
  <2>10. \A m \in Session!Token : revokedTokens[m] # 0 => revokedTokens'[m] # 0
    BY <2>1, <2>3 DEF SessionInv, SessionTypes
  <2>11. Session!Issued \subseteq Session!Token
    BY IssuedTokens DEF SessionInv
  <2>12. LogoutInv'
    <3> SUFFICES ASSUME NEW m \in loggedOut \cup {n}
                 PROVE  /\ m \in Session!Issued
                        /\ blacklist[m] # 0 \/ now >= Expiry(m)
                        /\ m \in unsaved' \/ revokedTokens'[m] # 0 \/ now >= Expiry(m)
      BY <2>1, <2>3 DEF LogoutInv, Session!Issued, Expiry
    <3> QED
      BY <2>1, <2>2, <2>3, <2>9, <2>10, <2>11 DEF SessionInv, LogoutInv
  <2> QED
    BY <2>5, <2>7, <2>8, <2>12 DEF SessionInv
<1> QED
  BY <1>1, <1>3, <1>4

-----------------------------------------------------------------------------
(* Time, the cleanups and a restart.                                       *)

\* What the cleanup drops is of the past.
LEMMA ForgetKeeps ==
  ASSUME SessionInv, SessionBounds, NEW list \in [Session!Token -> Nat], Outlasts(list), NEW since \in Nat, since <= now + 1
  PROVE  /\ Session!Forget(list, since) \in [Session!Token -> Nat]
         /\ Outlasts(Session!Forget(list, since))
         /\ \A n \in Session!Token : list[n] # 0 => Session!Forget(list, since)[n] # 0 \/ now >= Expiry(n)
<1>1. \A n \in Session!Token : list[n] \in Nat
  OBVIOUS
<1>2. \A n \in Session!Token : Session!Forget(list, since)[n] = IF list[n] >= since THEN list[n] ELSE 0
  BY DEF Session!Forget
<1>3. Session!Forget(list, since) \in [Session!Token -> Nat]
  BY DEF Session!Forget
<1>4. Outlasts(Session!Forget(list, since))
  BY <1>2 DEF Outlasts
<1>5. ASSUME NEW n \in Session!Token, list[n] # 0, Session!Forget(list, since)[n] = 0 PROVE now >= Expiry(n)
  <2>1. n \in Session!Issued /\ list[n] >= Expiry(n)
    BY <1>5 DEF Outlasts
  <2>2. Expiry(n) \in Nat
    BY <2>1, RowFacts DEF SessionInv
  <2>3. list[n] < since
    BY <1>1, <1>2, <1>5
  <2> QED
    BY <1>1, <2>1, <2>2, <2>3 DEF SessionInv, SessionTypes
<1> QED
  BY <1>3, <1>4, <1>5

LEMMA SessionCleanupInv ==
  ASSUME SessionInv, SessionBounds, Session!CleanupBlacklist
  PROVE  SessionInv'
<1>1. /\ blacklist' = Session!Forget(blacklist, now) /\ revokedTokens' = Session!Forget(revokedTokens, now)
      /\ UNCHANGED <<now, rows, logins, session, request, loggedOut, unsaved>>
  BY DEF Session!CleanupBlacklist, Session!tokens, Session!past
<1>2. now \in Nat /\ now <= now + 1 /\ blacklist \in [Session!Token -> Nat] /\ revokedTokens \in [Session!Token -> Nat]
  BY DEF SessionInv, SessionTypes
<1>3. /\ blacklist' \in [Session!Token -> Nat] /\ Outlasts(blacklist')
      /\ \A n \in Session!Token : blacklist[n] # 0 => blacklist'[n] # 0 \/ now >= Expiry(n)
  BY <1>1, <1>2, ForgetKeeps DEF SessionInv, SessionListInv
<1>4. /\ revokedTokens' \in [Session!Token -> Nat] /\ Outlasts(revokedTokens')
      /\ \A n \in Session!Token : revokedTokens[n] # 0 => revokedTokens'[n] # 0 \/ now >= Expiry(n)
  BY <1>1, <1>2, ForgetKeeps DEF SessionInv, SessionListInv
<1>5. SessionTypes'
  BY <1>1, <1>3, <1>4 DEF SessionInv, SessionTypes, Session!Issued
<1>6. SessionListInv'
  BY <1>1, <1>3, <1>4 DEF SessionListInv, Outlasts, Session!Issued, Expiry
<1>7. Session!Issued \subseteq Session!Token
  BY IssuedTokens DEF SessionInv
<1>8. RequestInv'
  BY <1>1, <1>3, <1>7 DEF SessionInv, RequestInv, Session!Issued, Expiry, Session!At, Session!Mine
<1>9. LogoutInv'
  BY <1>1, <1>3, <1>4, <1>7 DEF SessionInv, LogoutInv, Session!Issued, Expiry
<1> QED
  BY <1>5, <1>6, <1>8, <1>9 DEF SessionInv

LEMMA SessionRestartInv ==
  ASSUME SessionInv, SessionBounds, Session!Restart
  PROVE  SessionInv'
<1>1. /\ blacklist' = Session!Forget(revokedTokens, now + 1) /\ UNCHANGED <<now, rows, logins, revokedTokens, unsaved>>
      /\ loggedOut' = loggedOut \ unsaved
  BY DEF Session!Restart, Session!tokens
<1>2. now + 1 \in Nat /\ now + 1 <= now + 1 /\ revokedTokens \in [Session!Token -> Nat] /\ Outlasts(revokedTokens)
  BY DEF SessionInv, SessionTypes, SessionListInv
<1>3. /\ blacklist' \in [Session!Token -> Nat] /\ Outlasts(blacklist')
      /\ \A n \in Session!Token : revokedTokens[n] # 0 => blacklist'[n] # 0 \/ now >= Expiry(n)
  BY <1>1, <1>2, ForgetKeeps
<1>4. session' \in [Session!Login -> SessionType \cup {NoSession}]
  BY DEF Session!Restart
<1>5. request' \in [Client -> SessionRequestType] /\ \A c \in Client : Session!At(c)' = "idle"
  BY DEF Session!Restart, Session!Idle, Session!At, SessionRequestType, SessionSteps
<1>6. SessionTypes'
  BY <1>1, <1>3, <1>4, <1>5 DEF SessionInv, SessionTypes, Session!Issued
<1>7. SessionListInv'
  BY <1>1, <1>3 DEF SessionInv, SessionListInv, Outlasts, Session!Issued, Expiry
<1>8. RequestInv'
  BY <1>5 DEF RequestInv
<1>9. Session!Issued \subseteq Session!Token
  BY IssuedTokens DEF SessionInv
<1>10. LogoutInv'
  BY <1>1, <1>3, <1>9 DEF SessionInv, LogoutInv, Session!Issued, Expiry
<1> QED
  BY <1>6, <1>7, <1>8, <1>10 DEF SessionInv

LEMMA SessionOtherInv ==
  ASSUME SessionInv, SessionBounds, Session!Tick \/ Session!CleanupSessions \/ (\E l \in Session!Login : Session!SessionLogout(l)) \/ UNCHANGED sessionVars
  PROVE  SessionInv'
<1>1. CASE Session!Tick
  <2>1. now' = now + 1 /\ UNCHANGED <<rows, logins, blacklist, revokedTokens, session, request, loggedOut, unsaved>>
    BY <1>1 DEF Session!Tick, Session!tokens, Session!lists, Session!past
  <2>2. \A n \in Session!Issued : rows[n].issued \in Nat /\ Expiry(n) \in Nat
    BY RowFacts DEF SessionInv
  <2>3. now \in Nat /\ now >= 1
    BY DEF SessionInv, SessionTypes
  <2>4. SessionTypes'
    BY <2>1, <2>2, <2>3 DEF SessionInv, SessionTypes, Session!Issued
  <2>5. \A n \in Session!Issued : now >= Expiry(n) => now' >= Expiry(n)
    BY <2>1, <2>2, <2>3
  <2>6. SessionListInv' /\ RequestInv' /\ LogoutInv'
    BY <2>1, <2>5 DEF SessionInv, SessionListInv, Outlasts, RequestInv, LogoutInv, Session!Issued,
       Expiry, Session!At, Session!Mine
  <2> QED
    BY <2>4, <2>6 DEF SessionInv
<1>2. ASSUME UNCHANGED <<now, rows, logins, blacklist, revokedTokens, request, loggedOut, unsaved>>,
             session' \in [Session!Login -> SessionType \cup {NoSession}]
      PROVE  SessionInv'
  BY <1>2 DEF SessionInv, SessionTypes, SessionListInv, Outlasts, RequestInv, LogoutInv, Session!Issued,
     Expiry, Session!At, Session!Mine
<1>3. CASE Session!CleanupSessions
  <2>1. session' \in [Session!Login -> SessionType \cup {NoSession}]
    BY <1>3 DEF Session!CleanupSessions, SessionInv, SessionTypes
  <2> QED
    BY <1>2, <1>3, <2>1 DEF Session!CleanupSessions, Session!tokens, Session!lists, Session!past
<1>4. ASSUME NEW l \in Session!Login, Session!SessionLogout(l) PROVE SessionInv'
  <2>1. session' \in [Session!Login -> SessionType \cup {NoSession}]
    BY <1>4 DEF Session!SessionLogout, SessionInv, SessionTypes
  <2> QED
    BY <1>2, <1>4, <2>1 DEF Session!SessionLogout, Session!tokens, Session!lists, Session!past
<1>5. CASE UNCHANGED sessionVars
  BY <1>2, <1>5 DEF sessionVars, SessionInv, SessionTypes
<1> QED
  BY <1>1, <1>3, <1>4, <1>5

LEMMA SessionNextInv == SessionBounds /\ SessionInv /\ [Session!Next]_sessionVars => SessionInv'
<1> SUFFICES ASSUME SessionBounds, SessionInv, [Session!Next]_sessionVars PROVE SessionInv'
  OBVIOUS
<1>1. ASSUME NEW c \in Client,
             \/ Session!Rotation(c) \/ Session!BlacklistAccessToken(c) \/ Session!InsertRevoked(c)
             \/ \E n \in Session!Token : Session!Refresh(c, n) \/ Session!Logout(c, n)
             \/ \E l \in Session!Login : Session!SessionRefresh(c, l)
      PROVE  SessionInv'
  BY <1>1, SessionRefreshInv, LogoutStepsInv
<1> QED
  BY <1>1, SessionLogInInv, SessionCleanupInv, SessionRestartInv, SessionOtherInv DEF Session!Next

LEMMA SessionInitInv == SessionBounds /\ Session!Init => SessionInv
<1> SUFFICES ASSUME SessionBounds, Session!Init PROVE SessionInv
  OBVIOUS
<1>1. rows = <<>> /\ Session!Issued = {} /\ Len(rows) = 0 /\ rows \in Seq(SessionRowType) /\ logins \in Seq(BOOLEAN)
  BY DEF Session!Init, Session!Issued
<1>2. Session!Idle \in SessionRequestType
  BY DEF Session!Idle, SessionRequestType, SessionSteps
<1>3. SessionTypes
  BY <1>1, <1>2 DEF Session!Init, SessionTypes, SessionBounds
<1> QED
  BY <1>1, <1>3 DEF Session!Init, SessionInv, SessionListInv, Outlasts, RequestInv, LogoutInv,
     Session!At, Session!Idle

\* The access token of a logout that has answered is refused for good, by
\* whatever session it comes, through cleanups, clock and restarts; only one
\* whose insert failed is taken again after a restart.
THEOREM LogoutIsFinal ==
  ASSUME SessionBounds
  PROVE  Spec => []LogoutSticks
<1> DEFINE Inv == part = "sessions" => SessionInv
<1>1. Init => Inv
  BY SessionInitInv DEF Init
<1>2. Inv /\ [Next]_vars => Inv'
  BY Exercised, SessionNextInv
<1>3. Inv => LogoutSticks
  <2> SUFFICES ASSUME SessionInv, NEW n \in loggedOut, n \in Session!Admitted PROVE FALSE
    BY DEF LogoutSticks, Session!LogoutSticks
  <2>1. n \in Session!Issued /\ (blacklist[n] # 0 \/ now >= Expiry(n))
    BY DEF SessionInv, LogoutInv
  <2>2. now \in Nat
    BY DEF SessionInv, SessionTypes
  <2>3. Expiry(n) \in Nat
    BY <2>1, RowFacts DEF SessionInv
  <2>4. blacklist[n] = 0 /\ now < Expiry(n)
    BY DEF Session!Admitted, Session!Validates, Expiry
  <2> QED
    BY <2>1, <2>2, <2>3, <2>4
<1> QED
  BY <1>1, <1>2, <1>3, PTL DEF Spec

-----------------------------------------------------------------------------
(***************************************************************************)
(* Subscriptions: the cache is current.                                    *)
(***************************************************************************)
SubUserRow    == [status : {"new", "live", "deleted"}, active : BOOLEAN, version : Nat]
SubInboundRow == [version : Nat, enabled : BOOLEAN]
SubContent    == [user : Nat, inbounds : SUBSET (Inbounds \X Nat)]

ReaderState ==
  [at : {"idle", "inbounds", "lookup", "set"}, user : Users \cup {0}, format : Formats \cup {0},
   content : SubContent, late : BOOLEAN]

EditorState ==
  [at : {"idle", "save", "invalidate", "clear", "delete"}, kind : {"none", "user", "inbound"},
   user : Users \cup {0}, inbound : Inbounds \cup {0}, row : SubUserRow \cup {NoRow}]

SubRowsType ==
  /\ users \in [Users -> SubUserRow]
  /\ inbounds \in [Inbounds -> SubInboundRow \cup {NoRow}]
  /\ mappings \subseteq Users \X Inbounds
  /\ version \in Nat

SubCacheType == cache \in [Users \X Formats -> [content : SubContent, late : BOOLEAN] \cup {NoEntry}]

ReaderType ==
  /\ reader \in [Readers -> ReaderState]
  /\ \A r \in Readers : reader[r].at # "idle" => reader[r].user \in Users /\ reader[r].format \in Formats

EditorType ==
  /\ editor \in [Editors -> EditorState]
  /\ \A e \in Editors :
       /\ editor[e].at \notin {"idle", "save"} => editor[e].kind \in {"user", "inbound"}
       /\ editor[e].at \notin {"idle"} /\ editor[e].kind = "user" => editor[e].user \in Users
       /\ editor[e].at \notin {"idle"} /\ editor[e].kind = "inbound" => editor[e].inbound \in Inbounds
       /\ editor[e].at = "save" => editor[e].kind = "user" /\ editor[e].row \in SubUserRow

SubTypes == SubRowsType /\ SubCacheType /\ ReaderType /\ EditorType

\* An invalidation that will clear the cache for whoever it is.
Clearing == \E e \in Editors : editor[e].at = "invalidate" /\ editor[e].kind = "user"

\* One that will, as long as user u has the inbound it is about.
ClearingFor(u) ==
  Clearing \/ \E e \in Editors : /\ editor[e].at = "invalidate" /\ editor[e].kind = "inbound"
                                 /\ <<u, editor[e].inbound>> \in mappings

\* An entry that counts.
Counts(k) == cache[k] # NoEntry /\ ~cache[k].late /\ Sub!Live(k[1])

CacheInv ==
  \A k \in Users \X Formats :
    Counts(k) => cache[k].content = Sub!Generate(k[1]) \/ ClearingFor(k[1])

DeletionInv ==
  \A e \in Editors : editor[e].at = "delete" /\ editor[e].kind = "inbound" =>
    \A k \in Users \X Formats :
      Counts(k) /\ <<k[1], editor[e].inbound>> \in mappings => Clearing

ReaderInv ==
  \A r \in Readers : ~reader[r].late =>
    /\ reader[r].at = "inbounds" => reader[r].content.user = users[reader[r].user].version
    /\ reader[r].at \in {"lookup", "set"} => reader[r].content = Sub!Generate(reader[r].user)

SubInv == SubTypes /\ CacheInv /\ DeletionInv /\ ReaderInv

-----------------------------------------------------------------------------
(* Types.                                                                  *)

LEMMA ProxiesType == ASSUME SubRowsType, NEW u PROVE Sub!Proxies(u) \subseteq Inbounds \X Nat
<1>1. \A j \in Sub!Of(u) : j \in Inbounds /\ (Sub!Exists(j) => inbounds[j].version \in Nat)
  BY DEF SubRowsType, Sub!Of, Sub!Exists, SubInboundRow
<1> QED
  BY <1>1 DEF Sub!Proxies

LEMMA NothingType == Sub!Nothing \in SubContent
BY DEF Sub!Nothing, SubContent

LEMMA IdleTypes == Sub!Reading \in ReaderState /\ Sub!Editing \in EditorState
BY NothingType DEF Sub!Reading, ReaderState, Sub!Editing, EditorState

LEMMA SubInitTypes == Sub!Init => SubTypes
<1> SUFFICES ASSUME Sub!Init PROVE SubTypes
  OBVIOUS
<1>1. SubRowsType
  BY DEF Sub!Init, SubRowsType, SubUserRow, SubInboundRow
<1>2. SubCacheType
  BY DEF Sub!Init, SubCacheType
<1>3. ReaderType
  BY IdleTypes DEF Sub!Init, ReaderType, Sub!Reading
<1>4. EditorType
  BY IdleTypes DEF Sub!Init, EditorType, Sub!Editing
<1> QED
  BY <1>1, <1>2, <1>3, <1>4 DEF SubTypes

\* What the steps do to the administrators' requests.
LEMMA StepType ==
  ASSUME EditorType, NEW e \in Editors
  PROVE  /\ Sub!Done(e) => EditorType'
         /\ \A at \in {"invalidate", "clear"}, u \in Users : Sub!Step(e, "user", at, u, 0) => EditorType'
         /\ \A at \in {"invalidate", "clear"}, i \in Inbounds : Sub!Step(e, "inbound", at, 0, i) => EditorType'
         /\ editor[e].at = "clear" /\ editor' = [editor EXCEPT ![e].at = "delete"] => EditorType'
<1>1. Sub!Done(e) => EditorType'
  BY IdleTypes DEF Sub!Done, EditorType, Sub!Editing
<1>2. ASSUME NEW at \in {"invalidate", "clear"}, NEW u \in Users, Sub!Step(e, "user", at, u, 0)
      PROVE  EditorType'
  BY <1>2, IdleTypes DEF Sub!Step, EditorType, EditorState, Sub!Editing
<1>3. ASSUME NEW at \in {"invalidate", "clear"}, NEW i \in Inbounds, Sub!Step(e, "inbound", at, 0, i)
      PROVE  EditorType'
  BY <1>3, IdleTypes DEF Sub!Step, EditorType, EditorState, Sub!Editing
<1>4. editor[e].at = "clear" /\ editor' = [editor EXCEPT ![e].at = "delete"] => EditorType'
  BY DEF EditorType, EditorState
<1> QED
  BY <1>1, <1>2, <1>3, <1>4

LEMMA ChangeType == ReaderType /\ Sub!Change => ReaderType'
<1> SUFFICES ASSUME ReaderType, Sub!Change PROVE ReaderType'
  OBVIOUS
<1>1. ASSUME NEW r \in Readers, NEW late \in BOOLEAN
      PROVE  /\ [reader[r] EXCEPT !.late = late] \in ReaderState
             /\ [reader[r] EXCEPT !.late = late].at = reader[r].at
             /\ [reader[r] EXCEPT !.late = late].user = reader[r].user
             /\ [reader[r] EXCEPT !.late = late].format = reader[r].format
  BY DEF ReaderType, ReaderState
<1>2. \A r \in Readers : (reader[r].at # "idle") \in BOOLEAN
  OBVIOUS
<1>3. \A r \in Readers : reader'[r] \in ReaderState /\ reader'[r].at = reader[r].at
                         /\ reader'[r].user = reader[r].user /\ reader'[r].format = reader[r].format
  BY <1>1, <1>2 DEF Sub!Change
<1> QED
  BY <1>3 DEF ReaderType, Sub!Change

LEMMA ServeTypes ==
  ASSUME SubTypes, NEW r \in Readers, Sub!Serve(r)
  PROVE  SubTypes'
<1>1. ASSUME NEW u \in Users, NEW f \in Formats, Sub!GetUserBySubscriptionToken(r, u, f) PROVE ReaderType'
  BY <1>1 DEF Sub!GetUserBySubscriptionToken, SubTypes, ReaderType, ReaderState, Sub!Reading,
     Sub!Nothing, SubContent,
              SubRowsType, SubUserRow
<1>2. CASE Sub!GetUserSubscriptionData(r)
  <2>1. Sub!Proxies(reader[r].user) \subseteq Inbounds \X Nat
    BY ProxiesType DEF SubTypes
  <2> DEFINE new == [reader[r] EXCEPT !.at = "lookup", !.content.inbounds = Sub!Proxies(reader[r].user)]
  <2>2. new \in ReaderState /\ new.user = reader[r].user /\ new.format = reader[r].format
    BY <2>1 DEF SubTypes, ReaderType, ReaderState, SubContent
  <2>3. reader' = [reader EXCEPT ![r] = new] /\ reader[r].at = "inbounds"
    BY <1>2 DEF Sub!GetUserSubscriptionData
  <2> HIDE DEF new
  <2>4. ReaderType'
    BY <2>2, <2>3 DEF SubTypes, ReaderType
  <2> QED
    BY <1>2, <2>4 DEF Sub!GetUserSubscriptionData, SubTypes, EditorType, SubRowsType, SubCacheType, Sub!rows
<1>3. CASE Sub!GetCachedSubscription(r)
  <2>1. ASSUME Sub!Goes(r, "set"), reader[r].at = "lookup" PROVE ReaderType'
    BY <2>1 DEF Sub!Goes, SubTypes, ReaderType, ReaderState
  <2>2. ASSUME Sub!Ends(r) PROVE ReaderType'
    BY <2>2, IdleTypes DEF Sub!Ends, SubTypes, ReaderType, Sub!Reading
  <2> QED
    BY <1>3, <2>1, <2>2 DEF Sub!GetCachedSubscription, SubTypes, EditorType, SubRowsType, SubCacheType,
       Sub!rows
<1>4. CASE Sub!SetCachedSubscription(r)
  <2>1. reader[r] \in ReaderState
    BY DEF SubTypes, ReaderType
  <2>2. (reader[r].late \/ \E e \in Editors : editor[e].at = "delete") \in BOOLEAN
    BY <2>1 DEF ReaderState
  <2>3. SubCacheType'
    BY <1>4, <2>1, <2>2 DEF Sub!SetCachedSubscription, SubTypes, SubCacheType, ReaderState
  <2>4. ReaderType'
    BY <1>4, IdleTypes DEF Sub!SetCachedSubscription, Sub!Ends, SubTypes, ReaderType, ReaderState,
       Sub!Reading
  <2> QED
    BY <1>4, <2>3, <2>4 DEF Sub!SetCachedSubscription, SubTypes, EditorType, SubRowsType, Sub!rows
<1> QED
  BY <1>1, <1>2, <1>3, <1>4 DEF Sub!Serve, Sub!GetUserBySubscriptionToken, SubTypes, EditorType,
     SubRowsType, SubCacheType, Sub!rows

LEMMA UserTypes ==
  ASSUME SubTypes, NEW e \in Editors,
         \/ Sub!AddUser(e) \/ Sub!DeleteUserRow(e) \/ \E is \in SUBSET Inbounds : Sub!UpdateUser(e, is)
         \/ \E u \in Users : Sub!ReadUser(e, u) \/ Sub!DeleteUser(e, u)
  PROVE  SubTypes'
<1>1. ASSUME NEW u \in Users, NEW is \in SUBSET Inbounds, Sub!CreateUser(e, u, is) PROVE SubTypes'
  <2>1. SubRowsType'
    BY <1>1 DEF Sub!CreateUser, Sub!NewVersion, SubTypes, SubRowsType, SubUserRow
  <2>2. ReaderType' /\ EditorType'
    BY <1>1, ChangeType, StepType DEF Sub!CreateUser, SubTypes
  <2> QED
    BY <1>1, <2>1, <2>2 DEF Sub!CreateUser, SubTypes, SubCacheType
<1>2. CASE Sub!DeleteUserRow(e)
  <2>1. editor[e].user \in Users
    BY <1>2 DEF Sub!DeleteUserRow, SubTypes, EditorType
  <2>2. SubRowsType'
    BY <1>2, <2>1 DEF Sub!DeleteUserRow, SubTypes, SubRowsType, SubUserRow
  <2>3. ReaderType' /\ EditorType'
    BY <1>2, ChangeType, StepType DEF Sub!DeleteUserRow, SubTypes
  <2> QED
    BY <1>2, <2>2, <2>3 DEF Sub!DeleteUserRow, SubTypes, SubCacheType
<1>3. ASSUME NEW is \in SUBSET Inbounds, Sub!UpdateUser(e, is) PROVE SubTypes'
  <2>1. editor[e].user \in Users /\ editor[e].row \in SubUserRow
    BY <1>3 DEF Sub!UpdateUser, SubTypes, EditorType
  <2>2. SubRowsType'
    BY <1>3, <2>1 DEF Sub!UpdateUser, SubTypes, SubRowsType
  <2>3. ReaderType' /\ EditorType'
    BY <1>3, <2>1, ChangeType, StepType DEF Sub!UpdateUser, SubTypes
  <2> QED
    BY <1>3, <2>2, <2>3 DEF Sub!UpdateUser, SubTypes, SubCacheType
<1>4. ASSUME NEW u \in Users, Sub!ReadUser(e, u) PROVE SubTypes'
  <2>0. version' = version + 1 /\ version \in Nat
    BY <1>4 DEF Sub!ReadUser, SubTypes, SubRowsType
  <2>1. version' \in Nat
    BY <2>0
  <2>2. PICK active \in BOOLEAN :
          editor' = [editor EXCEPT ![e] = [Sub!Editing EXCEPT !.at = "save", !.kind = "user", !.user = u,
                       !.row = [status |-> "live", active |-> active, version |-> version + 1]]]
    BY <1>4 DEF Sub!ReadUser
  <2>3. [status |-> "live", active |-> active, version |-> version + 1] \in SubUserRow
    BY <2>0 DEF SubUserRow
  <2>4. EditorType'
    BY <2>2, <2>3 DEF SubTypes, EditorType, EditorState, Sub!Editing
  <2> QED
    BY <1>4, <2>1, <2>4 DEF Sub!ReadUser, SubTypes, SubRowsType, SubCacheType, ReaderType
<1>5. ASSUME NEW u \in Users, Sub!DeleteUser(e, u) PROVE SubTypes'
  <2>1. EditorType'
    BY <1>5, StepType DEF Sub!DeleteUser, SubTypes
  <2> QED
    BY <1>5, <2>1 DEF Sub!DeleteUser, SubTypes, SubRowsType, SubCacheType, ReaderType, Sub!rows
<1> QED
  BY <1>1, <1>2, <1>3, <1>4, <1>5 DEF Sub!AddUser

LEMMA InboundTypes ==
  ASSUME SubTypes, NEW e \in Editors,
         Sub!DeleteInboundRow(e) \/ \E i \in Inbounds : Sub!UpdateInbound(e, i) \/ Sub!DeleteInbound(e, i)
  PROVE  SubTypes'
<1>1. CASE Sub!DeleteInboundRow(e)
  <2>1. SubRowsType'
    BY <1>1 DEF Sub!DeleteInboundRow, SubTypes, SubRowsType
  <2>2. ReaderType' /\ EditorType'
    BY <1>1, ChangeType, StepType DEF Sub!DeleteInboundRow, SubTypes
  <2> QED
    BY <1>1, <2>1, <2>2 DEF Sub!DeleteInboundRow, SubTypes, SubCacheType
<1>2. ASSUME NEW i \in Inbounds, Sub!UpdateInbound(e, i) PROVE SubTypes'
  <2>1. SubRowsType'
    BY <1>2 DEF Sub!UpdateInbound, Sub!NewVersion, SubTypes, SubRowsType, SubInboundRow
  <2>2. ReaderType' /\ EditorType'
    BY <1>2, ChangeType, StepType DEF Sub!UpdateInbound, SubTypes
  <2> QED
    BY <1>2, <2>1, <2>2 DEF Sub!UpdateInbound, SubTypes, SubCacheType
<1>3. ASSUME NEW i \in Inbounds, Sub!DeleteInbound(e, i) PROVE SubTypes'
  <2>1. EditorType'
    BY <1>3, StepType DEF Sub!DeleteInbound, SubTypes
  <2> QED
    BY <1>3, <2>1 DEF Sub!DeleteInbound, SubTypes, SubRowsType, SubCacheType, ReaderType, Sub!rows
<1> QED
  BY <1>1, <1>2, <1>3

LEMMA AssignTypes ==
  ASSUME SubTypes, NEW e \in Editors, Sub!Assign(e) \/ Sub!AssignMany(e)
  PROVE  SubTypes' /\ UNCHANGED <<users, inbounds, cache>> /\ Sub!Change
         /\ \E u \in Users : Sub!Step(e, "user", "invalidate", u, 0) /\ Sub!Idle(e)
<1>1. PICK u \in Users : Sub!Step(e, "user", "invalidate", u, 0) /\ Sub!Idle(e)
  <2>1. CASE Sub!Assign(e)
    BY <2>1 DEF Sub!Assign, Sub!AssignInboundToUser, Sub!UnassignInboundFromUser
  <2>2. CASE Sub!AssignMany(e)
    BY <2>2 DEF Sub!AssignMany, Sub!BulkAssignUsers
  <2> QED
    BY <2>1, <2>2
<1>2. mappings' \subseteq Users \X Inbounds
  <2>1. CASE Sub!Assign(e)
    BY <2>1 DEF Sub!Assign, Sub!AssignInboundToUser, Sub!UnassignInboundFromUser, SubTypes, SubRowsType
  <2>2. ASSUME NEW i \in Inbounds, NEW add \in SUBSET Users, NEW remove \in SUBSET Users,
               Sub!BulkAssignUsers(e, i, add, remove)
        PROVE  mappings' \subseteq Users \X Inbounds
    <3>1. mappings' = (mappings \ (remove \X {i})) \cup ({w \in add : Sub!Live(w)} \X {i})
      BY <2>2 DEF Sub!BulkAssignUsers
    <3>2. {w \in add : Sub!Live(w)} \X {i} \subseteq Users \X Inbounds
      OBVIOUS
    <3> QED
      BY <3>1, <3>2 DEF SubTypes, SubRowsType
  <2> QED
    BY <2>1, <2>2 DEF Sub!AssignMany
<1>3. UNCHANGED <<users, inbounds, version, cache>> /\ Sub!Change
  BY DEF Sub!Assign, Sub!AssignMany, Sub!AssignInboundToUser, Sub!UnassignInboundFromUser,
         Sub!BulkAssignUsers
<1>4. ReaderType' /\ EditorType'
  BY <1>1, <1>3, ChangeType, StepType DEF SubTypes
<1> QED
  BY <1>1, <1>2, <1>3, <1>4 DEF SubTypes, SubRowsType, SubCacheType

LEMMA SubNextTypes == SubTypes /\ [Sub!Next]_subscriptionVars => SubTypes'
<1> SUFFICES ASSUME SubTypes, [Sub!Next]_subscriptionVars PROVE SubTypes'
  OBVIOUS
<1>1. ASSUME NEW k \in DOMAIN cache, Sub!CacheExpires(k) PROVE SubTypes'
  BY <1>1 DEF Sub!CacheExpires, SubTypes, SubRowsType, SubCacheType, ReaderType, EditorType, Sub!rows
<1>2. ASSUME NEW e \in Editors, Sub!InvalidateUserCache(e) PROVE SubTypes'
  <2>1. \A k \in DOMAIN cache : cache[k] \in [content : SubContent, late : BOOLEAN] \cup {NoEntry}
    BY DEF SubTypes, SubCacheType
  <2>3. SubCacheType'
    <3>1. CASE cache' = cache
      BY <3>1 DEF SubTypes, SubCacheType
    <3>2. CASE cache' = [k \in DOMAIN cache |-> NoEntry]
      BY <3>2 DEF SubTypes, SubCacheType
    <3>3. CASE cache' = [k \in DOMAIN cache |->
                           IF cache[k] # NoEntry /\ <<k[1], editor[e].inbound>> \in mappings
                           THEN [cache[k] EXCEPT !.late = TRUE] ELSE cache[k]]
      <4>1. ASSUME NEW k \in DOMAIN cache
            PROVE  cache'[k] \in [content : SubContent, late : BOOLEAN] \cup {NoEntry}
        <5>1. CASE cache[k] # NoEntry /\ <<k[1], editor[e].inbound>> \in mappings
          <6>1. PICK c \in [content : SubContent, late : BOOLEAN] : c = cache[k]
            BY <2>1, <5>1
          <6>2. cache'[k] = [c EXCEPT !.late = TRUE]
            BY <3>3, <5>1, <6>1
          <6>3. [c EXCEPT !.late = TRUE] \in [content : SubContent, late : BOOLEAN]
            OBVIOUS
          <6> QED
            BY <6>2, <6>3
        <5>2. CASE ~(cache[k] # NoEntry /\ <<k[1], editor[e].inbound>> \in mappings)
          <6>1. cache'[k] = cache[k]
            BY <3>3, <5>2
          <6> QED
            BY <2>1, <6>1
        <5> QED
          BY <5>1, <5>2
      <4>2. DOMAIN cache = Users \X Formats /\ DOMAIN cache' = DOMAIN cache
            /\ cache' = [k \in DOMAIN cache' |-> cache'[k]]
        BY <3>3 DEF SubTypes, SubCacheType
      <4> QED
        BY <4>1, <4>2 DEF SubCacheType
    <3> QED
      BY <1>2, <3>1, <3>2, <3>3 DEF Sub!InvalidateUserCache
  <2>2. EditorType'
    BY <1>2, StepType DEF Sub!InvalidateUserCache, SubTypes
  <2> QED
    BY <1>2, <2>2, <2>3 DEF Sub!InvalidateUserCache, SubTypes, SubRowsType, ReaderType, Sub!rows
<1>3. ASSUME NEW e \in Editors, Sub!UpdateFails(e) PROVE SubTypes'
  <2>1. EditorType'
    BY <1>3, StepType DEF Sub!UpdateFails, SubTypes
  <2> QED
    BY <1>3, <2>1 DEF Sub!UpdateFails, SubTypes, SubRowsType, SubCacheType, ReaderType, Sub!rows
<1>4. CASE UNCHANGED subscriptionVars
  BY <1>4 DEF subscriptionVars, SubTypes, SubRowsType, SubCacheType, ReaderType, EditorType
<1> QED
  BY <1>1, <1>2, <1>3, <1>4, ServeTypes, UserTypes, InboundTypes, AssignTypes DEF Sub!Next

-----------------------------------------------------------------------------
(* What stays as it was.                                                   *)

\* The text of a user changes only with the user, its mappings or an inbound
\* it has.
LEMMA GenerateKept ==
  ASSUME SubRowsType, SubRowsType', NEW u \in Users, users'[u].version = users[u].version,
         \A i \in Inbounds : /\ <<u, i>> \in mappings' <=> <<u, i>> \in mappings
                             /\ <<u, i>> \in mappings => inbounds'[i] = inbounds[i]
  PROVE  Sub!Generate(u)' = Sub!Generate(u)
<1>1. Sub!Of(u)' = Sub!Of(u) /\ Sub!Of(u) \subseteq Inbounds
  BY DEF Sub!Of
<1>2. \A i \in Sub!Of(u) : inbounds'[i] = inbounds[i]
  BY DEF Sub!Of
<1>3. {j \in Sub!Of(u) : Sub!Exists(j) /\ inbounds[j].enabled}' = {j \in Sub!Of(u) : Sub!Exists(j) /\ inbounds[j].enabled}
  BY <1>1, <1>2 DEF Sub!Exists
<1>4. Sub!Proxies(u)' = Sub!Proxies(u)
  BY <1>1, <1>2, <1>3 DEF Sub!Proxies
<1> QED
  BY <1>4 DEF Sub!Generate

\* A request that is about to clear the cache for anyone excuses every entry.
LEMMA ClearingExcuses == Clearing' => CacheInv' /\ DeletionInv'
BY DEF CacheInv, DeletionInv, ClearingFor

LEMMA StepClears ==
  ASSUME EditorType, NEW e \in Editors, NEW u, Sub!Step(e, "user", "invalidate", u, 0)
  PROVE  Clearing'
BY DEF EditorType, Sub!Step, Clearing, Sub!Editing

\* A reader that rows changed under is late.
LEMMA ChangeOvertakes == ReaderType /\ Sub!Change => ReaderInv'
<1> SUFFICES ASSUME ReaderType, Sub!Change PROVE ReaderInv'
  OBVIOUS
<1>1. ASSUME NEW r \in Readers
      PROVE  reader'[r].at = reader[r].at /\ reader'[r].late = (reader[r].at # "idle")
  BY DEF ReaderType, ReaderState, Sub!Change
<1> QED
  BY <1>1 DEF ReaderInv

LEMMA ReaderKept ==
  ASSUME SubRowsType, SubRowsType', ReaderType, ReaderInv, UNCHANGED reader, UNCHANGED <<users, inbounds, mappings>>
  PROVE  ReaderInv'
<1>1. \A u \in Users : Sub!Generate(u)' = Sub!Generate(u)
  BY GenerateKept
<1> QED
  BY <1>1 DEF ReaderInv, ReaderType

\* Neither the rows nor the cache change, and no request begins or ends an
\* invalidation, or begins to delete.
LEMMA CacheKept ==
  ASSUME SubTypes, SubTypes', CacheInv, DeletionInv, UNCHANGED <<users, inbounds, mappings, cache>>,
         \A e \in Editors :
           editor[e].at = "invalidate" \/ editor'[e].at \in {"invalidate", "delete"} => editor'[e] = editor[e]
  PROVE  CacheInv' /\ DeletionInv'
<1>1. \A u \in Users : Sub!Generate(u)' = Sub!Generate(u)
  BY GenerateKept DEF SubTypes
<1>2. Clearing => Clearing'
  BY DEF Clearing
<1>3. \A u \in Users : ClearingFor(u) => ClearingFor(u)'
  BY <1>2 DEF ClearingFor
<1>4. \A k \in Users \X Formats : Counts(k)' => Counts(k)
  BY DEF Counts, Sub!Live
<1> QED
  BY <1>1, <1>2, <1>3, <1>4 DEF CacheInv, DeletionInv

\* What the lemmas say of a step that is only in its request.
LEMMA OnlyEditor ==
  ASSUME SubTypes, SubTypes', CacheInv, DeletionInv, ReaderInv, NEW e \in Editors,
         UNCHANGED <<users, inbounds, mappings, cache, reader>>,
         editor[e].at # "invalidate", editor'[e].at \notin {"invalidate", "delete"},
         \A o \in Editors \ {e} : editor'[o] = editor[o]
  PROVE  CacheInv' /\ DeletionInv' /\ ReaderInv'
BY CacheKept, ReaderKept DEF SubTypes

-----------------------------------------------------------------------------
(* The steps.                                                              *)

LEMMA ServeInv ==
  ASSUME SubInv, SubTypes', NEW r \in Readers, Sub!Serve(r)
  PROVE  CacheInv' /\ DeletionInv' /\ ReaderInv'
<1>1. ASSUME UNCHANGED <<Sub!rows, cache, editor>> PROVE CacheInv' /\ DeletionInv'
  BY <1>1, CacheKept DEF SubInv, Sub!rows
<1>2. UNCHANGED <<users, inbounds, mappings>> /\ UNCHANGED editor
  BY DEF Sub!Serve, Sub!GetUserBySubscriptionToken, Sub!GetUserSubscriptionData, Sub!GetCachedSubscription,
         Sub!SetCachedSubscription, Sub!rows
<1>3. \A u \in Users : Sub!Generate(u)' = Sub!Generate(u)
  BY <1>2, GenerateKept DEF SubInv, SubTypes
<1>4. \A o \in Readers \ {r} : reader'[o] = reader[o]
  BY DEF SubInv, SubTypes, ReaderType, Sub!Serve, Sub!GetUserBySubscriptionToken,
         Sub!GetUserSubscriptionData,
         Sub!GetCachedSubscription, Sub!SetCachedSubscription, Sub!Goes, Sub!Ends
<1>5. \A o \in Readers \ {r} : ~reader'[o].late =>
        /\ reader'[o].at = "inbounds" => reader'[o].content.user = users'[reader'[o].user].version
        /\ reader'[o].at \in {"lookup", "set"} => reader'[o].content = Sub!Generate(reader[o].user)'
  BY <1>2, <1>3, <1>4 DEF SubInv, SubTypes, ReaderType, ReaderInv
<1>6. ASSUME NEW u \in Users, NEW f \in Formats, Sub!GetUserBySubscriptionToken(r, u, f)
      PROVE  CacheInv' /\ DeletionInv' /\ ReaderInv'
  <2>1. /\ reader'[r].at = "inbounds" /\ reader'[r].user = u
        /\ reader'[r].content.user = users[u].version
    BY <1>6 DEF Sub!GetUserBySubscriptionToken, SubInv, SubTypes, ReaderType, Sub!Reading, Sub!Nothing
  <2>2. ReaderInv'
    BY <2>1, <1>2, <1>4, <1>5 DEF ReaderInv
  <2> QED
    BY <1>1, <1>6, <2>2 DEF Sub!GetUserBySubscriptionToken
<1>7. CASE Sub!GetUserSubscriptionData(r)
  <2>1. reader[r] \in ReaderState /\ reader[r].user \in Users /\ reader[r].at = "inbounds"
    BY <1>7 DEF Sub!GetUserSubscriptionData, SubInv, SubTypes, ReaderType
  <2>2. /\ reader'[r].at = "lookup" /\ reader'[r].user = reader[r].user
        /\ reader'[r].late = reader[r].late
        /\ reader'[r].content = [reader[r].content EXCEPT !.inbounds = Sub!Proxies(reader[r].user)]
    BY <1>7, <2>1 DEF Sub!GetUserSubscriptionData, SubInv, SubTypes, ReaderType, ReaderState
  <2>3. reader[r].content \in SubContent
    BY <2>1 DEF ReaderState
  <2>4. ~reader[r].late => reader'[r].content = Sub!Generate(reader[r].user)
    BY <2>1, <2>2, <2>3 DEF SubInv, ReaderInv, Sub!Generate, SubContent
  <2>5. ReaderInv'
    BY <2>1, <2>2, <2>4, <1>2, <1>3, <1>4, <1>5 DEF ReaderInv
  <2> QED
    BY <1>1, <1>7, <2>5 DEF Sub!GetUserSubscriptionData
<1>8. CASE Sub!GetCachedSubscription(r)
  <2>1. reader'[r].at = "idle" \/ (/\ reader[r].at = "lookup" /\ reader'[r].user = reader[r].user
                                   /\ reader'[r].late = reader[r].late
                                   /\ reader'[r].content = reader[r].content /\ reader'[r].at = "set")
    BY <1>8 DEF Sub!GetCachedSubscription, Sub!Goes, Sub!Ends, SubInv, SubTypes, ReaderType, ReaderState,
       Sub!Reading
  <2>2. ReaderInv'
    BY <2>1, <1>2, <1>3, <1>4, <1>5 DEF SubInv, SubTypes, ReaderType, ReaderInv
  <2> QED
    BY <1>1, <1>8, <2>2 DEF Sub!GetCachedSubscription
<1>9. CASE Sub!SetCachedSubscription(r)
  <2>1. ReaderInv'
    <3>1. reader'[r].at = "idle"
      BY <1>9 DEF Sub!SetCachedSubscription, Sub!Ends, SubInv, SubTypes, ReaderType, Sub!Reading
    <3> QED
      BY <3>1, <1>2, <1>4, <1>5 DEF ReaderInv
  <2>2. Sub!Key(r) \in Users \X Formats /\ Sub!Key(r)[1] = reader[r].user
    BY <1>9 DEF Sub!SetCachedSubscription, Sub!Key, SubInv, SubTypes, ReaderType
  <2> DEFINE entry == [content |-> reader[r].content,
                       late |-> reader[r].late \/ \E e \in Editors : editor[e].at = "delete"]
  <2>3. cache' = [cache EXCEPT ![Sub!Key(r)] = entry] /\ reader[r].at = "set"
    BY <1>9 DEF Sub!SetCachedSubscription
  <2>4. ~entry.late => /\ entry.content = Sub!Generate(reader[r].user)
                       /\ \A e \in Editors : editor[e].at # "delete"
    BY <2>3 DEF SubInv, ReaderInv
  <2> HIDE DEF entry
  <2>5. cache'[Sub!Key(r)] = entry /\ \A k \in (Users \X Formats) \ {Sub!Key(r)} : cache'[k] = cache[k]
    BY <2>2, <2>3 DEF SubInv, SubTypes, SubCacheType
  <2>6. \A k \in (Users \X Formats) \ {Sub!Key(r)} : Counts(k)' = Counts(k)
    BY <1>2, <2>5 DEF Counts, Sub!Live
  <2>7. Clearing' = Clearing /\ \A u \in Users : ClearingFor(u)' = ClearingFor(u)
    BY <1>2 DEF Clearing, ClearingFor
  <2>8. CacheInv'
    <3> SUFFICES ASSUME NEW k \in Users \X Formats, Counts(k)'
                 PROVE  cache'[k].content = Sub!Generate(k[1])' \/ ClearingFor(k[1])'
      BY DEF CacheInv
    <3>1. CASE k = Sub!Key(r)
      BY <3>1, <2>2, <2>4, <2>5, <1>3 DEF Counts
    <3>2. CASE k # Sub!Key(r)
      BY <3>2, <2>5, <2>6, <2>7, <1>3 DEF SubInv, CacheInv
    <3> QED
      BY <3>1, <3>2
  <2>9. DeletionInv'
    <3> SUFFICES ASSUME NEW e \in Editors, editor'[e].at = "delete", editor'[e].kind = "inbound",
                        NEW k \in Users \X Formats, Counts(k)', <<k[1], editor'[e].inbound>> \in mappings'
                 PROVE  Clearing'
      BY DEF DeletionInv
    <3>1. k # Sub!Key(r)
      BY <2>4, <2>5, <1>2 DEF Counts
    <3> QED
      BY <3>1, <2>6, <2>7, <1>2 DEF SubInv, DeletionInv
  <2> QED
    BY <2>1, <2>8, <2>9
<1> QED
  BY <1>6, <1>7, <1>8, <1>9 DEF Sub!Serve

LEMMA SubUserInv ==
  ASSUME SubInv, SubTypes', NEW e \in Editors,
         \/ Sub!AddUser(e) \/ Sub!DeleteUserRow(e) \/ \E is \in SUBSET Inbounds : Sub!UpdateUser(e, is)
         \/ \E u \in Users : Sub!ReadUser(e, u) \/ Sub!DeleteUser(e, u)
  PROVE  CacheInv' /\ DeletionInv' /\ ReaderInv'
<1>1. ASSUME NEW u \in Users, NEW is \in SUBSET Inbounds, Sub!CreateUser(e, u, is)
      PROVE  CacheInv' /\ DeletionInv' /\ ReaderInv'
  BY <1>1, StepClears, ClearingExcuses, ChangeOvertakes DEF Sub!CreateUser, SubInv, SubTypes
<1>2. ASSUME NEW is \in SUBSET Inbounds, Sub!UpdateUser(e, is)
      PROVE  CacheInv' /\ DeletionInv' /\ ReaderInv'
  BY <1>2, StepClears, ClearingExcuses, ChangeOvertakes DEF Sub!UpdateUser, SubInv, SubTypes
<1>3. CASE Sub!DeleteUserRow(e)
  <2>1. editor[e].at = "delete" /\ editor[e].kind = "user" /\ editor[e].user \in Users
    BY <1>3 DEF Sub!DeleteUserRow, SubInv, SubTypes, EditorType
  <2>2. \A o \in Editors : editor'[o] = IF o = e THEN Sub!Editing ELSE editor[o]
    BY <1>3 DEF Sub!DeleteUserRow, Sub!Done, SubInv, SubTypes, EditorType
  <2>3. \A u \in Users : users'[u].version = users[u].version /\ (Sub!Live(u)' => Sub!Live(u))
    BY <1>3, <2>1 DEF Sub!DeleteUserRow, Sub!Live, SubInv, SubTypes, SubRowsType, SubUserRow
  <2>4. UNCHANGED <<inbounds, mappings, cache>>
    BY <1>3 DEF Sub!DeleteUserRow
  <2>5. \A u \in Users : Sub!Generate(u)' = Sub!Generate(u)
    BY <2>3, <2>4, GenerateKept DEF SubInv, SubTypes
  <2>6. Clearing => Clearing'
    BY <2>1, <2>2 DEF Clearing
  <2>7. \A u \in Users : ClearingFor(u) => ClearingFor(u)'
    BY <2>1, <2>2, <2>4, <2>6 DEF ClearingFor
  <2>8. \A k \in Users \X Formats : Counts(k)' => Counts(k)
    BY <2>3, <2>4 DEF Counts
  <2>9. CacheInv' /\ DeletionInv'
    BY <2>2, <2>4, <2>5, <2>6, <2>7, <2>8 DEF SubInv, CacheInv, DeletionInv, Sub!Editing
  <2> QED
    BY <1>3, <2>9, ChangeOvertakes DEF Sub!DeleteUserRow, SubInv, SubTypes
<1>4. ASSUME NEW u \in Users, Sub!ReadUser(e, u) PROVE CacheInv' /\ DeletionInv' /\ ReaderInv'
  <2>1. editor[e].at = "idle" /\ editor'[e].at = "save" /\ \A o \in Editors \ {e} : editor'[o] = editor[o]
    BY <1>4 DEF Sub!ReadUser, Sub!Idle, Sub!Editing, SubInv, SubTypes, EditorType
  <2>2. UNCHANGED <<users, inbounds, mappings, cache, reader>>
    BY <1>4 DEF Sub!ReadUser
  <2> QED
    BY <2>1, <2>2, OnlyEditor DEF SubInv
<1>5. ASSUME NEW u \in Users, Sub!DeleteUser(e, u) PROVE CacheInv' /\ DeletionInv' /\ ReaderInv'
  <2>1. editor[e].at = "idle" /\ editor'[e].at = "clear" /\ \A o \in Editors \ {e} : editor'[o] = editor[o]
    BY <1>5 DEF Sub!DeleteUser, Sub!Step, Sub!Idle, Sub!Editing, SubInv, SubTypes, EditorType
  <2>2. UNCHANGED <<users, inbounds, mappings, cache, reader>>
    BY <1>5 DEF Sub!DeleteUser, Sub!rows
  <2> QED
    BY <2>1, <2>2, OnlyEditor DEF SubInv
<1> QED
  BY <1>1, <1>2, <1>3, <1>4, <1>5 DEF Sub!AddUser

LEMMA SubInboundInv ==
  ASSUME SubInv, SubTypes', NEW e \in Editors,
         Sub!DeleteInboundRow(e) \/ \E i \in Inbounds : Sub!UpdateInbound(e, i) \/ Sub!DeleteInbound(e, i)
  PROVE  CacheInv' /\ DeletionInv' /\ ReaderInv'
\* The text of a user with the inbound goes stale, and this request will clear it.
<1>1. ASSUME NEW i \in Inbounds, Sub!UpdateInbound(e, i) PROVE CacheInv' /\ DeletionInv' /\ ReaderInv'
  <2>1. UNCHANGED <<users, mappings, cache>> /\ \A j \in Inbounds \ {i} : inbounds'[j] = inbounds[j]
    BY <1>1 DEF Sub!UpdateInbound, SubInv, SubTypes, SubRowsType
  <2>2. /\ editor[e].at = "idle"
        /\ editor'[e].at = "invalidate" /\ editor'[e].kind = "inbound" /\ editor'[e].inbound = i
        /\ \A o \in Editors \ {e} : editor'[o] = editor[o]
    BY <1>1 DEF Sub!UpdateInbound, Sub!Step, Sub!Idle, Sub!Editing, SubInv, SubTypes, EditorType
  <2>3. \A u \in Users : <<u, i>> \notin mappings => Sub!Generate(u)' = Sub!Generate(u)
    BY <2>1, GenerateKept DEF SubInv, SubTypes
  <2>4. \A u \in Users : <<u, i>> \in mappings => ClearingFor(u)'
    BY <2>1, <2>2 DEF ClearingFor
  <2>5. Clearing => Clearing'
    BY <2>2 DEF Clearing
  <2>6. \A u \in Users : ClearingFor(u) => ClearingFor(u)'
    BY <2>1, <2>2, <2>5 DEF ClearingFor
  <2>7. \A k \in Users \X Formats : Counts(k)' = Counts(k)
    BY <2>1 DEF Counts, Sub!Live
  <2>8. CacheInv'
    BY <2>1, <2>3, <2>4, <2>6, <2>7 DEF SubInv, CacheInv
  <2>9. DeletionInv'
    BY <2>1, <2>2, <2>5, <2>7 DEF SubInv, DeletionInv
  <2> QED
    BY <1>1, <2>8, <2>9, ChangeOvertakes DEF Sub!UpdateInbound, SubInv, SubTypes
<1>2. ASSUME NEW i \in Inbounds, Sub!DeleteInbound(e, i) PROVE CacheInv' /\ DeletionInv' /\ ReaderInv'
  <2>1. editor[e].at = "idle" /\ editor'[e].at = "clear" /\ \A o \in Editors \ {e} : editor'[o] = editor[o]
    BY <1>2 DEF Sub!DeleteInbound, Sub!Step, Sub!Idle, Sub!Editing, SubInv, SubTypes, EditorType
  <2>2. UNCHANGED <<users, inbounds, mappings, cache, reader>>
    BY <1>2 DEF Sub!DeleteInbound, Sub!rows
  <2> QED
    BY <2>1, <2>2, OnlyEditor DEF SubInv
\* Only entries that somebody is about to clear have the inbound still.
<1>3. CASE Sub!DeleteInboundRow(e)
  <2> DEFINE i == editor[e].inbound
  <2>1. editor[e].at = "delete" /\ editor[e].kind = "inbound" /\ i \in Inbounds
    BY <1>3 DEF Sub!DeleteInboundRow, SubInv, SubTypes, EditorType
  <2>2. \A o \in Editors : editor'[o] = IF o = e THEN Sub!Editing ELSE editor[o]
    BY <1>3 DEF Sub!DeleteInboundRow, Sub!Done, SubInv, SubTypes, EditorType
  <2>3. /\ UNCHANGED <<users, cache>> /\ \A j \in Inbounds \ {i} : inbounds'[j] = inbounds[j]
        /\ mappings' = mappings \ (Users \X {i})
    BY <1>3, <2>1 DEF Sub!DeleteInboundRow, SubInv, SubTypes, SubRowsType
  <2> HIDE DEF i
  <2>4. \A u \in Users : <<u, i>> \notin mappings => Sub!Generate(u)' = Sub!Generate(u)
    BY <2>3, GenerateKept DEF SubInv, SubTypes
  <2>5. Clearing => Clearing'
    BY <2>1, <2>2 DEF Clearing
  <2>6. \A u \in Users : <<u, i>> \notin mappings /\ ClearingFor(u) => ClearingFor(u)'
    <3> SUFFICES ASSUME NEW u \in Users, <<u, i>> \notin mappings, ~Clearing, ClearingFor(u)
                 PROVE  ClearingFor(u)'
      BY <2>5 DEF ClearingFor
    <3>1. PICK o \in Editors : /\ editor[o].at = "invalidate" /\ editor[o].kind = "inbound"
                              /\ <<u, editor[o].inbound>> \in mappings
      BY DEF ClearingFor
    <3>2. editor'[o] = editor[o]
      BY <2>1, <2>2, <3>1
    <3>3. <<u, editor[o].inbound>> \in mappings'
      BY <2>3, <3>1
    <3> QED
      BY <3>1, <3>2, <3>3 DEF ClearingFor
  <2>7. \A k \in Users \X Formats : Counts(k)' = Counts(k)
    BY <2>3 DEF Counts, Sub!Live
  <2>8. \A k \in Users \X Formats : Counts(k) /\ <<k[1], i>> \in mappings => Clearing
    BY <2>1 DEF SubInv, DeletionInv, i
  <2>9. CacheInv'
    <3> SUFFICES ASSUME NEW k \in Users \X Formats, Counts(k)'
                 PROVE  cache'[k].content = Sub!Generate(k[1])' \/ ClearingFor(k[1])'
      BY DEF CacheInv
    <3>1. CASE <<k[1], i>> \in mappings
      BY <3>1, <2>5, <2>7, <2>8 DEF ClearingFor
    <3>2. CASE <<k[1], i>> \notin mappings
      BY <3>2, <2>3, <2>4, <2>6, <2>7 DEF SubInv, CacheInv
    <3> QED
      BY <3>1, <3>2
  <2>10. DeletionInv'
    BY <2>2, <2>3, <2>5, <2>7 DEF SubInv, DeletionInv, Sub!Editing
  <2> QED
    BY <1>3, <2>9, <2>10, ChangeOvertakes DEF Sub!DeleteInboundRow, SubInv, SubTypes
<1> QED
  BY <1>1, <1>2, <1>3

LEMMA AssignInv ==
  ASSUME SubInv, SubTypes', NEW e \in Editors, Sub!Assign(e) \/ Sub!AssignMany(e)
  PROVE  CacheInv' /\ DeletionInv' /\ ReaderInv'
BY AssignTypes, StepClears, ClearingExcuses, ChangeOvertakes DEF SubInv, SubTypes

\* If it clears nothing, no entry that counts is of a user with the inbound it
\* is about.
LEMMA InvalidateInv ==
  ASSUME SubInv, SubTypes', NEW e \in Editors, Sub!InvalidateUserCache(e)
  PROVE  CacheInv' /\ DeletionInv' /\ ReaderInv'
<1>1. UNCHANGED <<users, inbounds, mappings, reader>>
  BY DEF Sub!InvalidateUserCache, Sub!rows
<1>2. ReaderInv'
  BY <1>1, ReaderKept DEF SubInv, SubTypes
<1>3. CASE \A k \in Users \X Formats : cache'[k] = NoEntry
  BY <1>2, <1>3 DEF CacheInv, DeletionInv, Counts
<1>4. CASE /\ editor[e].kind # "user"
           /\ \A k \in Users \X Formats : Counts(k)' =>
                Counts(k) /\ cache'[k] = cache[k] /\ <<k[1], editor[e].inbound>> \notin mappings
  <2>1. /\ editor[e].at \in {"invalidate", "clear"} /\ editor[e].kind = "inbound"
        /\ editor'[e].at # "invalidate"
        /\ editor'[e].at = "delete" => editor'[e].inbound = editor[e].inbound
        /\ \A o \in Editors \ {e} : editor'[o] = editor[o]
    BY <1>4 DEF Sub!InvalidateUserCache, Sub!Done, Sub!Editing, SubInv, SubTypes, EditorType, EditorState
  <2>2. \A u \in Users : Sub!Generate(u)' = Sub!Generate(u)
    BY <1>1, GenerateKept DEF SubInv, SubTypes
  <2>3. Clearing => Clearing'
    BY <2>1 DEF Clearing
  <2>4. \A u : ClearingFor(u) /\ <<u, editor[e].inbound>> \notin mappings => ClearingFor(u)'
    BY <1>1, <2>1, <2>3 DEF ClearingFor
  <2>5. CacheInv'
    <3> SUFFICES ASSUME NEW k \in Users \X Formats, Counts(k)'
                 PROVE  cache'[k].content = Sub!Generate(k[1])' \/ ClearingFor(k[1])'
      BY DEF CacheInv
    <3>1. Counts(k) /\ cache'[k] = cache[k] /\ <<k[1], editor[e].inbound>> \notin mappings
      BY <1>4
    <3> QED
      BY <2>2, <2>4, <3>1 DEF SubInv, CacheInv
  <2>6. DeletionInv'
    <3> SUFFICES ASSUME NEW o \in Editors, editor'[o].at = "delete", editor'[o].kind = "inbound",
                        NEW k \in Users \X Formats, Counts(k)', <<k[1], editor'[o].inbound>> \in mappings'
                 PROVE  Clearing'
      BY DEF DeletionInv
    <3>1. Counts(k) /\ <<k[1], editor[e].inbound>> \notin mappings
      BY <1>4
    <3>2. o # e
      BY <1>1, <2>1, <3>1
    <3> QED
      BY <1>1, <2>1, <2>3, <3>1, <3>2 DEF SubInv, DeletionInv
  <2> QED
    BY <1>2, <2>5, <2>6
<1>5. CASE UNCHANGED cache /\ editor[e].kind # "user"
             /\ \A u \in Users : Sub!Live(u) => <<u, editor[e].inbound>> \notin mappings
  <2>1. \A k \in Users \X Formats : Counts(k)' => Counts(k) /\ Sub!Live(k[1])
    BY <1>1, <1>5 DEF Counts, Sub!Live
  <2> QED
    BY <1>4, <1>5, <2>1
<1>6. CASE editor[e].kind = "inbound"
           /\ cache' = [k \in DOMAIN cache |->
                          IF cache[k] # NoEntry /\ <<k[1], editor[e].inbound>> \in mappings
                          THEN [cache[k] EXCEPT !.late = TRUE] ELSE cache[k]]
  <2>1. ASSUME NEW k \in Users \X Formats, Counts(k)'
        PROVE  Counts(k) /\ cache'[k] = cache[k] /\ <<k[1], editor[e].inbound>> \notin mappings
    <3>1. cache[k] \in [content : SubContent, late : BOOLEAN] \cup {NoEntry} /\ k \in DOMAIN cache
      BY DEF SubInv, SubTypes, SubCacheType
    <3>2. CASE cache[k] # NoEntry /\ <<k[1], editor[e].inbound>> \in mappings
      <4>1. cache'[k].late = TRUE
        BY <1>6, <3>1, <3>2
      <4> QED
        BY <2>1, <4>1 DEF Counts
    <3>3. CASE ~(cache[k] # NoEntry /\ <<k[1], editor[e].inbound>> \in mappings)
      <4>1. cache'[k] = cache[k]
        BY <1>6, <3>1, <3>3
      <4> QED
        BY <1>1, <2>1, <3>3, <4>1 DEF Counts, Sub!Live
    <3> QED
      BY <3>2, <3>3
  <2> QED
    BY <1>4, <1>6, <2>1
<1> QED
  BY <1>3, <1>5, <1>6 DEF Sub!InvalidateUserCache, SubInv, SubTypes, SubCacheType

LEMMA SubNextInv == SubInv /\ [Sub!Next]_subscriptionVars => SubInv'
<1> SUFFICES ASSUME SubInv, [Sub!Next]_subscriptionVars PROVE SubInv'
  OBVIOUS
<1>1. SubTypes'
  BY SubNextTypes DEF SubInv
<1>2. ASSUME NEW k \in DOMAIN cache, Sub!CacheExpires(k) PROVE CacheInv' /\ DeletionInv' /\ ReaderInv'
  <2>1. UNCHANGED <<users, inbounds, mappings, editor, reader>>
    BY <1>2 DEF Sub!CacheExpires, Sub!rows
  <2>2. \A l \in Users \X Formats : Counts(l)' => Counts(l) /\ cache'[l] = cache[l]
    BY <1>2, <2>1 DEF Sub!CacheExpires, Counts, Sub!Live, SubInv, SubTypes, SubCacheType
  <2>3. \A u \in Users : Sub!Generate(u)' = Sub!Generate(u)
    BY <1>1, <2>1, GenerateKept DEF SubInv, SubTypes
  <2>4. Clearing' = Clearing /\ \A u \in Users : ClearingFor(u)' = ClearingFor(u)
    BY <2>1 DEF Clearing, ClearingFor
  <2> QED
    BY <1>1, <2>1, <2>2, <2>3, <2>4, ReaderKept DEF SubInv, SubTypes, CacheInv, DeletionInv
<1>3. ASSUME NEW e \in Editors, Sub!UpdateFails(e) PROVE CacheInv' /\ DeletionInv' /\ ReaderInv'
  <2>1. /\ editor[e].at # "invalidate" /\ editor'[e].at \notin {"invalidate", "delete"}
        /\ \A o \in Editors \ {e} : editor'[o] = editor[o]
        /\ UNCHANGED <<users, inbounds, mappings, cache, reader>>
    BY <1>3 DEF Sub!UpdateFails, Sub!Done, Sub!Editing, SubInv, SubTypes, EditorType, Sub!rows
  <2> QED
    BY <1>1, <2>1, OnlyEditor DEF SubInv
<1>4. ASSUME UNCHANGED subscriptionVars PROVE CacheInv' /\ DeletionInv' /\ ReaderInv'
  BY <1>1, <1>4, CacheKept, ReaderKept DEF subscriptionVars, SubInv, SubTypes
<1>5. CacheInv' /\ DeletionInv' /\ ReaderInv'
  <2> DEFINE Goal == CacheInv' /\ DeletionInv' /\ ReaderInv'
  <2>1. ASSUME NEW r \in Readers, Sub!Serve(r) PROVE Goal
    BY <1>1, <2>1, ServeInv
  <2>2. ASSUME NEW e \in Editors,
               \/ Sub!AddUser(e) \/ Sub!DeleteUserRow(e) \/ \E is \in SUBSET Inbounds : Sub!UpdateUser(e, is)
               \/ \E u \in Users : Sub!ReadUser(e, u) \/ Sub!DeleteUser(e, u)
        PROVE  Goal
    BY <1>1, <2>2, SubUserInv
  <2>3. ASSUME NEW e \in Editors,
               Sub!DeleteInboundRow(e) \/ \E i \in Inbounds : Sub!UpdateInbound(e, i) \/ Sub!DeleteInbound(e, i)
        PROVE  Goal
    BY <1>1, <2>3, SubInboundInv
  <2>4. ASSUME NEW e \in Editors, Sub!Assign(e) \/ Sub!AssignMany(e) \/ Sub!InvalidateUserCache(e) PROVE Goal
    BY <1>1, <2>4, AssignInv, InvalidateInv
  <2>5. \A k \in DOMAIN cache : Sub!CacheExpires(k) => Goal
    BY <1>2
  <2>6. \A e \in Editors : Sub!UpdateFails(e) => Goal
    BY <1>3
  <2>7. ASSUME UNCHANGED subscriptionVars PROVE Goal
    BY <1>4, <2>7
  <2> HIDE DEF Goal
  <2>8. Goal
    <3>1. CASE UNCHANGED subscriptionVars
      BY <2>7, <3>1
    <3>2. CASE Sub!Next
      BY <3>2, <2>1, <2>2, <2>3, <2>4, <2>5, <2>6 DEF Sub!Next
    <3> QED
      BY <3>1, <3>2
  <2> QED
    BY <2>8 DEF Goal
<1> QED
  BY <1>1, <1>5 DEF SubInv

\* What a subscription request gets from the cache is what would be generated
\* for its user now, when no change is waiting for its invalidation and the
\* entry is not one a reader put in late (SetCachedSubscription), one that was
\* there when a deletion ran ahead of itself, or one of a user of an inbound
\* whose users could not be asked for (invalidateInboundUsersCache).
THEOREM CacheServesTheRows == Spec => []CacheIsCurrent
<1> DEFINE Inv == part = "subscriptions" => SubInv
<1>1. Init => Inv
  BY SubInitTypes DEF Init, SubInv, Sub!Init, CacheInv, DeletionInv, ReaderInv, Counts, Sub!Reading, Sub!Editing
<1>2. Inv /\ [Next]_vars => Inv'
  BY Exercised, SubNextInv
<1>3. Inv => CacheIsCurrent
  <2> SUFFICES ASSUME SubInv, \A e \in Editors : editor[e].at # "invalidate", NEW k \in DOMAIN cache,
                      cache[k] # NoEntry, ~cache[k].late, Sub!Live(k[1])
               PROVE  cache[k].content = Sub!Generate(k[1])
    BY DEF CacheIsCurrent, Sub!CacheIsCurrent
  <2>1. k \in Users \X Formats /\ Counts(k)
    BY DEF SubInv, SubTypes, SubCacheType, Counts
  <2>2. ~ClearingFor(k[1])
    BY DEF ClearingFor, Clearing
  <2> QED
    BY <2>1, <2>2 DEF SubInv, CacheInv
<1> QED
  BY <1>1, <1>2, <1>3, PTL DEF Spec

-----------------------------------------------------------------------------
(***************************************************************************)
(* Ports: one port each.                                                   *)
(***************************************************************************)
PortParameters == MaxInbounds \in Nat /\ NoInbound \notin Port!Rows

PortRequestType ==
  [at : {"idle", "create", "update"}, id : Port!Id \cup {0}, row : Port!Rows \cup {NoInbound}, late : BOOLEAN]

PortTypes ==
  /\ ports \in [Port!Id -> Port!Rows \cup {NoInbound}]
  /\ nextId \in Nat /\ nextId >= 1
  /\ portRequest \in [Requests -> PortRequestType]
  /\ \A q \in Requests :
       /\ portRequest[q].at # "idle" => portRequest[q].row \in Port!Rows
       /\ portRequest[q].at = "create" => portRequest[q].id = 0
  /\ raced \in BOOLEAN

\* A row on the port of another.
DistinctInv ==
  \A i, j \in Port!Present : i # j /\ ports[i].port = ports[j].port =>
    raced /\ ports[i].core # ports[j].core

PortChecked(q) == \A i \in Port!Present \ {portRequest[q].id} : ports[i].port # portRequest[q].row.port

CheckedInv ==
  \A q \in Requests : portRequest[q].at # "idle" /\ ~portRequest[q].late /\ ~raced => PortChecked(q)

PortInv == PortTypes /\ DistinctInv /\ CheckedInv

-----------------------------------------------------------------------------
(* The checks.                                                             *)

\* A request that passes its check, for the rows that are there.
LEMMA PortCheckInv ==
  ASSUME PortParameters, PortInv, NEW q \in Requests,
         NEW at \in {"create", "update"}, NEW id \in Port!Id \cup {0}, NEW row \in Port!Rows,
         at = "create" => id = 0, NEW answered \in BOOLEAN,
         Port!Passes(q, at, id, row, answered),
         UNCHANGED <<ports, nextId, raced>>,
         ~raced /\ answered => \A i \in Port!Present \ {id} : ports[i].port # row.port
  PROVE  PortInv'
<1> DEFINE new == [at |-> at, id |-> id, row |-> row, late |-> ~answered]
<1>1. portRequest' = [portRequest EXCEPT ![q] = new] /\ new \in PortRequestType
  BY DEF Port!Passes, PortRequestType
<1>2. new.at = at /\ new.id = id /\ new.row = row /\ (new.late <=> ~answered)
  OBVIOUS
<1> HIDE DEF new
<1>3. portRequest' \in [Requests -> PortRequestType]
      /\ portRequest'[q] = new /\ \A p \in Requests \ {q} : portRequest'[p] = portRequest[p]
  BY <1>1 DEF PortInv, PortTypes
<1>4. PortTypes'
  BY <1>2, <1>3 DEF PortInv, PortTypes
<1>5. DistinctInv'
  BY DEF PortInv, DistinctInv, Port!Present
<1>6. CheckedInv'
  BY <1>2, <1>3 DEF PortInv, CheckedInv, PortChecked, Port!Present
<1> QED
  BY <1>4, <1>5, <1>6 DEF PortInv

LEMMA CreateCheckInv ==
  ASSUME PortParameters, PortInv, NEW q \in Requests, NEW row \in Port!Rows, Port!CreateInbound(q, row)
  PROVE  PortInv'
<1>1. PICK answered \in BOOLEAN : /\ Port!IsPortAvailable(row.port, row.core, 0, answered)
                                 /\ Port!Passes(q, "create", 0, row, answered)
  BY DEF Port!CreateInbound
<1>2. answered => \A i \in Port!Present \ {0} : ports[i].port # row.port
  BY <1>1 DEF Port!IsPortAvailable
<1> QED
  BY <1>1, <1>2, PortCheckInv DEF Port!CreateInbound

\* A request that keeps the port of its row needs no check: nobody else has it.
LEMMA UpdateCheckInv ==
  ASSUME PortParameters, PortInv, NEW q \in Requests, NEW i \in Port!Id, NEW port \in PortNumbers,
         NEW listen \in Listens, Port!UpdateInbound(q, i, port, listen)
  PROVE  PortInv'
<1>1. i \in Port!Present /\ ports[i] \in Port!Rows
  BY DEF Port!UpdateInbound, PortInv, PortTypes, Port!Present
<1>2. PICK enabled \in BOOLEAN, answered \in BOOLEAN :
        /\ IF port = ports[i].port THEN answered
           ELSE Port!IsPortAvailable(port, ports[i].core, i, answered)
        /\ Port!Passes(q, "update", i,
             [ports[i] EXCEPT !.port = port, !.listen = listen, !.enabled = enabled], answered)
  BY DEF Port!UpdateInbound
<1> DEFINE row == [ports[i] EXCEPT !.port = port, !.listen = listen, !.enabled = enabled]
<1>3. row \in Port!Rows /\ row.port = port
  BY <1>1 DEF Port!Rows
<1>4. Port!Passes(q, "update", i, row, answered)
  BY <1>2
<1> HIDE DEF row
<1>5. ~raced /\ answered => \A j \in Port!Present \ {i} : ports[j].port # row.port
  BY <1>1, <1>2, <1>3 DEF Port!IsPortAvailable, PortInv, DistinctInv
<1> QED
  BY <1>3, <1>4, <1>5, PortCheckInv DEF Port!UpdateInbound

-----------------------------------------------------------------------------
(* The writes.                                                             *)

\* After a write every other request is late, so only the rows count.
LEMMA WrittenInv ==
  ASSUME PortParameters, PortInv, NEW q \in Requests, Port!Written(q),
         ports' \in [Port!Id -> Port!Rows \cup {NoInbound}], nextId' \in Nat, nextId' >= 1,
         DistinctInv'
  PROVE  PortInv'
<1>1. \A p \in Requests :
        /\ portRequest'[p] \in PortRequestType
        /\ portRequest'[p].at # "idle" => portRequest'[p].late /\ portRequest'[p].row \in Port!Rows
        /\ portRequest'[p].at = "create" => portRequest'[p].id = 0
  <2> TAKE p \in Requests
  <2>1. CASE p = q
    BY <2>1 DEF Port!Written, Port!Idle, PortRequestType
  <2>2. CASE p # q
    <3> DEFINE r == portRequest[p]
    <3>1. r \in PortRequestType /\ (r.at # "idle" => r.row \in Port!Rows) /\ (r.at = "create" => r.id = 0)
      BY DEF PortInv, PortTypes
    <3>2. portRequest'[p] = [r EXCEPT !.late = r.at # "idle"]
      BY <2>2 DEF Port!Written
    <3> HIDE DEF r
    <3>3. (r.at # "idle") \in BOOLEAN
      OBVIOUS
    <3>4. /\ portRequest'[p] \in PortRequestType /\ portRequest'[p].at = r.at /\ portRequest'[p].row = r.row
          /\ portRequest'[p].id = r.id /\ portRequest'[p].late = (r.at # "idle")
      BY <3>1, <3>2, <3>3 DEF PortRequestType
    <3> QED
      BY <3>1, <3>4
  <2> QED
    BY <2>1, <2>2
<1>2. portRequest' \in [Requests -> PortRequestType] /\ raced' \in BOOLEAN
  <2>1. raced \in BOOLEAN /\ portRequest[q].late \in BOOLEAN
    BY DEF PortInv, PortTypes, PortRequestType
  <2>2. DOMAIN portRequest' = Requests /\ portRequest' = [p \in Requests |-> portRequest'[p]]
    BY DEF Port!Written
  <2> QED
    BY <1>1, <2>1, <2>2 DEF Port!Written
<1>3. PortTypes'
  BY <1>1, <1>2 DEF PortTypes
<1>4. CheckedInv'
  BY <1>1 DEF CheckedInv
<1> QED
  BY <1>3, <1>4 DEF PortInv

\* A row that is put where no other row has its core and port, and was checked
\* unless the write is late.
LEMMA PutDistinct ==
  ASSUME PortParameters, PortInv, NEW q \in Requests, portRequest[q].at # "idle", NEW n \in Port!Id,
         ports' = [ports EXCEPT ![n] = portRequest[q].row],
         raced' = (raced \/ portRequest[q].late),
         Port!UniqueIndex(portRequest[q].row, n), ~raced /\ ~portRequest[q].late =>
           \A i \in Port!Present \ {n} : ports[i].port # portRequest[q].row.port
  PROVE  /\ ports' \in [Port!Id -> Port!Rows \cup {NoInbound}]
         /\ DistinctInv'
<1> DEFINE new == portRequest[q].row
<1>1. new \in Port!Rows /\ new # NoInbound /\ ports \in [Port!Id -> Port!Rows \cup {NoInbound}]
  BY DEF PortInv, PortTypes, PortParameters
<1>2. /\ ports' \in [Port!Id -> Port!Rows \cup {NoInbound}]
      /\ ports'[n] = new /\ \A i \in Port!Id \ {n} : ports'[i] = ports[i]
  BY <1>1
<1> HIDE DEF new
<1>3. ASSUME NEW i \in Port!Present', NEW j \in Port!Present', i # j, ports'[i].port = ports'[j].port
      PROVE  raced' /\ ports'[i].core # ports'[j].core
  <2>1. i \in Port!Id /\ j \in Port!Id /\ (i # n => i \in Port!Present) /\ (j # n => j \in Port!Present)
    BY <1>2, <1>3 DEF Port!Present
  <2>2. CASE i # n /\ j # n
    BY <1>2, <1>3, <2>1, <2>2 DEF PortInv, DistinctInv
  <2>3. ASSUME NEW k \in Port!Present \ {n}, ports[k].port = new.port
        PROVE  (raced \/ portRequest[q].late) /\ ports[k].core # new.core
    BY <2>3 DEF Port!UniqueIndex, new, PortInv, PortTypes, PortRequestType
  <2> QED
    BY <1>2, <1>3, <2>1, <2>2, <2>3
<1> QED
  BY <1>2, <1>3 DEF DistinctInv

LEMMA PortInsertInv ==
  ASSUME PortParameters, PortInv, NEW q \in Requests, Port!Insert(q)
  PROVE  PortInv'
<1>1. nextId \in Port!Id /\ nextId' \in Nat /\ nextId' >= 1
  BY DEF Port!Insert, PortInv, PortTypes, Port!Id, PortParameters
<1>2. Port!UniqueIndex(portRequest[q].row, nextId)
  BY DEF Port!Insert, Port!UniqueIndex, Port!Id, Port!Present
<1>3. ~raced /\ ~portRequest[q].late => \A i \in Port!Present \ {nextId} : ports[i].port # portRequest[q].row.port
  BY DEF Port!Insert, PortInv, PortTypes, CheckedInv, PortChecked, Port!Id, Port!Present
<1>4. /\ ports' = [ports EXCEPT ![nextId] = portRequest[q].row] /\ Port!Written(q)
      /\ portRequest[q].at # "idle" /\ raced' = (raced \/ portRequest[q].late)
  BY DEF Port!Insert, Port!Written
<1>5. ports' \in [Port!Id -> Port!Rows \cup {NoInbound}] /\ DistinctInv'
  BY <1>1, <1>2, <1>3, <1>4, PutDistinct
<1> QED
  BY <1>1, <1>4, <1>5, WrittenInv

LEMMA PortUpdateInv ==
  ASSUME PortParameters, PortInv, NEW q \in Requests, Port!Update(q)
  PROVE  PortInv'
<1> DEFINE n == portRequest[q].id
<1>1. /\ nextId' \in Nat /\ nextId' >= 1 /\ Port!Written(q)
      /\ portRequest[q].at # "idle" /\ raced' = (raced \/ portRequest[q].late)
  BY DEF Port!Update, Port!Written, PortInv, PortTypes
<1>2. raced \in BOOLEAN /\ portRequest[q].late \in BOOLEAN
  BY DEF PortInv, PortTypes, PortRequestType
<1>3. CASE n \in Port!Present
  <2>1. n \in Port!Id /\ ports' = [ports EXCEPT ![n] = portRequest[q].row]
    BY <1>3 DEF Port!Update, Port!Present
  <2>2. ~raced /\ ~portRequest[q].late => \A i \in Port!Present \ {n} : ports[i].port # portRequest[q].row.port
    BY <1>1 DEF PortInv, CheckedInv, PortChecked
  <2>3. Port!UniqueIndex(portRequest[q].row, n)
    BY DEF Port!Update
  <2> HIDE DEF n
  <2>4. ports' \in [Port!Id -> Port!Rows \cup {NoInbound}] /\ DistinctInv'
    BY <1>1, <2>1, <2>2, <2>3, PutDistinct
  <2> QED
    BY <1>1, <2>4, WrittenInv
<1>4. CASE n \notin Port!Present
  <2>1. ports' = ports
    BY <1>4 DEF Port!Update
  <2>2. DistinctInv' /\ ports' \in [Port!Id -> Port!Rows \cup {NoInbound}]
    BY <1>1, <1>2, <2>1 DEF PortInv, PortTypes, DistinctInv, Port!Present
  <2> QED
    BY <1>1, <2>2, WrittenInv
<1> QED
  BY <1>3, <1>4

LEMMA WriteFailsInv ==
  ASSUME PortParameters, PortInv, NEW q \in Requests, Port!WriteFails(q)
  PROVE  PortInv'
<1>1. portRequest' = [portRequest EXCEPT ![q] = Port!Idle] /\ UNCHANGED <<ports, nextId, raced>>
  BY DEF Port!WriteFails
<1>2. Port!Idle \in PortRequestType /\ Port!Idle.at = "idle"
  BY DEF Port!Idle, PortRequestType
<1>3. /\ portRequest' \in [Requests -> PortRequestType]
      /\ portRequest'[q].at = "idle" /\ \A p \in Requests \ {q} : portRequest'[p] = portRequest[p]
  BY <1>1, <1>2 DEF PortInv, PortTypes
<1>4. PortTypes'
  BY <1>1, <1>3 DEF PortInv, PortTypes
<1>5. DistinctInv' /\ CheckedInv'
  BY <1>1, <1>3 DEF PortInv, DistinctInv, CheckedInv, PortChecked, Port!Present
<1> QED
  BY <1>4, <1>5 DEF PortInv

\* Fewer rows are in nobody's way.
LEMMA PortDeleteInv ==
  ASSUME PortParameters, PortInv, NEW i \in Port!Id, Port!DeleteInbound(i)
  PROVE  PortInv'
<1>1. /\ ports' = [ports EXCEPT ![i] = NoInbound] /\ UNCHANGED <<nextId, raced>>
      /\ portRequest' = [p \in Requests |-> [portRequest[p] EXCEPT !.late = portRequest[p].at # "idle"]]
  BY DEF Port!DeleteInbound
<1>2. /\ ports' \in [Port!Id -> Port!Rows \cup {NoInbound}]
      /\ ports'[i] = NoInbound /\ \A j \in Port!Id \ {i} : ports'[j] = ports[j]
  BY <1>1 DEF PortInv, PortTypes
<1>3. \A p \in Requests :
        /\ portRequest'[p] \in PortRequestType
        /\ portRequest'[p].at # "idle" => portRequest'[p].late /\ portRequest'[p].row \in Port!Rows
        /\ portRequest'[p].at = "create" => portRequest'[p].id = 0
  <2> TAKE p \in Requests
  <2> DEFINE r == portRequest[p]
  <2>1. r \in PortRequestType /\ (r.at # "idle" => r.row \in Port!Rows) /\ (r.at = "create" => r.id = 0)
    BY DEF PortInv, PortTypes
  <2>2. portRequest'[p] = [r EXCEPT !.late = r.at # "idle"]
    BY <1>1
  <2> HIDE DEF r
  <2>3. (r.at # "idle") \in BOOLEAN
    OBVIOUS
  <2>4. /\ portRequest'[p] \in PortRequestType /\ portRequest'[p].at = r.at /\ portRequest'[p].row = r.row
        /\ portRequest'[p].id = r.id /\ portRequest'[p].late = (r.at # "idle")
    BY <2>1, <2>2, <2>3 DEF PortRequestType
  <2> QED
    BY <2>1, <2>4
<1>4. portRequest' \in [Requests -> PortRequestType]
  <2>1. portRequest' = [p \in Requests |-> portRequest'[p]]
    BY <1>1
  <2> QED
    BY <1>3, <2>1
<1>5. PortTypes'
  BY <1>1, <1>2, <1>3, <1>4 DEF PortInv, PortTypes
<1>6. \A j \in Port!Present' : j \in Port!Present /\ ports'[j] = ports[j]
  BY <1>2 DEF Port!Present
<1>7. DistinctInv'
  BY <1>1, <1>6 DEF PortInv, DistinctInv
<1>8. CheckedInv'
  BY <1>3 DEF CheckedInv
<1> QED
  BY <1>5, <1>7, <1>8 DEF PortInv

LEMMA PortNextInv == PortParameters /\ PortInv /\ [Port!Next]_portVars => PortInv'
<1> SUFFICES ASSUME PortParameters, PortInv, [Port!Next]_portVars PROVE PortInv'
  OBVIOUS
<1>1. ASSUME NEW q \in Requests, Port!Change(q) PROVE PortInv'
  BY <1>1, CreateCheckInv, UpdateCheckInv, PortInsertInv, PortUpdateInv, WriteFailsInv DEF Port!Change
<1>2. CASE UNCHANGED portVars
  BY <1>2 DEF portVars, PortInv, PortTypes, DistinctInv, CheckedInv, PortChecked, Port!Present
<1> QED
  BY <1>1, <1>2, PortDeleteInv DEF Port!Next

LEMMA PortInitInv == PortParameters /\ Port!Init => PortInv
<1> SUFFICES ASSUME PortParameters, Port!Init PROVE PortInv
  OBVIOUS
<1>1. Port!Idle \in PortRequestType /\ Port!Idle.at = "idle"
  BY DEF Port!Idle, PortRequestType
<1>2. Port!Present = {} /\ \A q \in Requests : portRequest[q].at = "idle"
  BY <1>1 DEF Port!Init, Port!Present
<1>3. ports \in [Port!Id -> Port!Rows \cup {NoInbound}] /\ portRequest \in [Requests -> PortRequestType]
  BY <1>1 DEF Port!Init
<1>4. nextId \in Nat /\ nextId >= 1
  BY DEF Port!Init
<1>5. raced \in BOOLEAN
  BY DEF Port!Init
<1>6. PortTypes
  BY <1>2, <1>3, <1>4, <1>5 DEF PortTypes
<1> QED
  BY <1>2, <1>6 DEF PortInv, DistinctInv, CheckedInv

-----------------------------------------------------------------------------
(* The answer for a port.                                                  *)

\* With one inbound on the port, what holds of it is the answer.
LEMMA AnswerOfOne ==
  ASSUME PortParameters, NEW i \in Port!Id, NEW port, NEW listen, NEW kind, Port!Conflicts(port, listen) = {i}
  PROVE  LET answer == Port!ValidatePortConflict(port, listen, kind) IN
         /\ answer.action # "block" => Port!CanShare(kind, i)
         /\ answer.action = "allow" => Port!GetSharingMechanism(kind, i) = answer.mechanism
<1> DEFINE conflicts == Port!Conflicts(port, listen)
           sharing   == {j \in conflicts : Port!CanShare(kind, j)}
           routed    == {j \in sharing : Port!GetSharingMechanism(kind, j) # "none"}
           mechanism == IF routed = {} THEN "none"
                        ELSE Port!GetSharingMechanism(kind, CHOOSE j \in routed : \A k \in routed : j >= k)
           action    == CASE conflicts = {} -> "allow"
                          [] conflicts # {} /\ sharing = {} -> "block"
                          [] sharing # {} -> IF mechanism = "none" THEN "confirm" ELSE "allow"
<1>1. Port!ValidatePortConflict(port, listen, kind) = [action |-> action, mechanism |-> mechanism]
  BY DEF Port!ValidatePortConflict
<1>2. i \in Nat /\ conflicts = {i}
  BY DEF Port!Id
<1> HIDE DEF conflicts
<1>3. CASE ~Port!CanShare(kind, i)
  <2>1. sharing = {}
    BY <1>2, <1>3
  <2>2. action = "block"
    BY <1>2, <2>1
  <2> QED
    BY <1>1, <2>2
<1>4. CASE Port!CanShare(kind, i)
  <2>1. sharing = {i}
    BY <1>2, <1>4
  <2>2. action = IF mechanism = "none" THEN "confirm" ELSE "allow"
    BY <1>2, <2>1
  <2>3. routed # {} => routed = {i} /\ (CHOOSE j \in routed : \A k \in routed : j >= k) = i
    BY <1>2, <2>1
  <2>4. action = "allow" => mechanism = Port!GetSharingMechanism(kind, i)
    BY <2>2, <2>3
  <2> QED
    BY <1>1, <1>4, <2>4
<1> QED
  BY <1>3, <1>4

\* Two inbounds have one port only after a check and a write crossed or a check
\* got no answer, and then on two cores; before that, what is said of a port before an inbound is made
\* holds for every inbound that is on it.
THEOREM OnePortEach ==
  ASSUME PortParameters
  PROVE  Spec => []PortsDistinct
<1> DEFINE Inv == part = "ports" => PortInv
<1>1. Init => Inv
  BY PortInitInv DEF Init
<1>2. Inv /\ [Next]_vars => Inv'
  BY Exercised, PortNextInv
<1>3. Inv => PortsDistinct
  <2> SUFFICES ASSUME PortInv, ~raced, NEW port \in PortNumbers, NEW listen \in {"any", "one", "other"},
                      NEW kind \in [sni : BOOLEAN, transport : {"udp", "path", "plain"}],
                      NEW i \in Port!Conflicts(port, listen)
               PROVE  LET answer == Port!ValidatePortConflict(port, listen, kind) IN
                      /\ answer.action # "block" => Port!CanShare(kind, i)
                      /\ answer.action = "allow" => Port!GetSharingMechanism(kind, i) = answer.mechanism
    BY DEF PortsDistinct, Port!PortsDistinct, PortInv, DistinctInv
  <2>1. i \in Port!Id /\ \A j \in Port!Conflicts(port, listen) : j = i
    BY DEF Port!Conflicts, Port!Enabled, Port!Present, PortInv, DistinctInv
  <2>2. Port!Conflicts(port, listen) = {i}
    BY <2>1
  <2> QED
    BY <2>1, <2>2, AnswerOfOne
<1> QED
  BY <1>1, <1>2, <1>3, PTL DEF Spec

-----------------------------------------------------------------------------
(***************************************************************************)
(* Settings: who follows a setting follows what is stored.                 *)
(***************************************************************************)
SettingValues == {"lite", "full", "disabled", "weekly", "monthly", "other"}

\* No row is not a value.
SettingParameters == NoValue \notin SettingValues

Layers == {"setting", "value"}

SettingEntry == [value : SettingValues \cup {NoValue}, late : BOOLEAN]

SettingRead == [at : {"idle", "fill", "cache", "drop", "tell"}, value : SettingValues \cup {NoValue},
                late : BOOLEAN]

SettingTypes ==
  /\ setting \in {"mode", "schedule"} /\ stored \in SettingValues \cup {NoValue}
  /\ settingCache \in [Layers -> SettingEntry \cup {NoValue}]
  /\ settingRequest \in [Requests -> SettingRead]
  /\ collector \in SettingRead /\ collector.at \in {"idle", "fill"}
  /\ signal \in BOOLEAN /\ missed \in BOOLEAN /\ started \in BOOLEAN

\* A change will empty the cache.
Dropping == \E q \in Requests : settingRequest[q].at = "drop"

\* What was read is stored still, or known to be late, or will be.
Current(read) == read.late \/ read.value = stored \/ Dropping

FreshInv ==
  /\ \A l \in Layers : settingCache[l] # NoValue => Current(settingCache[l])
  /\ \A q \in Requests : settingRequest[q].at \in {"fill", "cache"} => Current(settingRequest[q])
  /\ collector.at = "fill" => Current(collector)

NoRowInv ==
  stored = NoValue =>
    /\ \A l \in Layers : settingCache[l] = NoValue
    /\ \A q \in Requests : settingRequest[q].at \notin {"fill", "cache"}
    /\ collector.at = "idle"

\* A change is written and not yet told.
Changing(q) == settingRequest[q].at \in {"cache", "drop", "tell"}

\* The collector is at the stored mode, or is to look again.
ModeInv ==
  setting = "mode" =>
    /\ started /\ stored # NoValue
    /\ missed \/ follower = Setting!Interval(stored) \/ signal \/ collector.at = "fill"
       \/ \E q \in Requests : Changing(q)

\* The cron has the job of the stored schedule, or the one change under way
\* will give it.
ScheduleInv ==
  setting = "schedule" =>
    /\ ~signal /\ collector.at = "idle"
    /\ missed \/ /\ started
                 /\ \A q \in Requests : Changing(q) =>
                      settingRequest[q].value = stored /\ \A p \in Requests : Changing(p) => p = q
                 /\ follower = Setting!Job(stored) \/ \E q \in Requests : Changing(q)

SettingInv == SettingTypes /\ FreshInv /\ NoRowInv /\ ModeInv /\ ScheduleInv

LEMMA IdleRead == Setting!Idle \in SettingRead /\ Setting!Idle.at = "idle"
BY DEF Setting!Idle, SettingRead

LEMMA SettingInit == SettingParameters /\ Setting!Init => SettingInv
<1> SUFFICES ASSUME SettingParameters, Setting!Init PROVE SettingInv
  OBVIOUS
<1>1. stored \in SettingValues \cup {NoValue} /\ (setting = "mode" => stored = "lite")
  BY DEF Setting!Init, SettingValues
<1>2. \A q \in Requests : settingRequest[q] = Setting!Idle
  BY DEF Setting!Init
<1>3. \A l \in Layers : settingCache[l] = NoValue
  BY DEF Setting!Init, Layers
<1>4. SettingTypes
  BY <1>1, IdleRead DEF Setting!Init, SettingTypes, Layers
<1>5. FreshInv /\ NoRowInv
  BY <1>2, <1>3, IdleRead DEF Setting!Init, FreshInv, NoRowInv
<1>6. ModeInv
  BY <1>1 DEF Setting!Init, ModeInv, Setting!Following, SettingParameters, SettingValues
<1>7. ScheduleInv
  BY <1>2, IdleRead DEF Setting!Init, ScheduleInv, Changing, Setting!Following
<1> QED
  BY <1>4, <1>5, <1>6, <1>7 DEF SettingInv

-----------------------------------------------------------------------------
(* Reading.                                                                *)

\* What a reader holds after its look.
LEMMA LookCurrent ==
  ASSUME SettingInv, NEW r, r = Setting!Look
  PROVE  /\ r.at \in {"fill", "done"} /\ r.value \in SettingValues \cup {NoValue} /\ r.late \in BOOLEAN
         /\ r.at = "fill" => r \in SettingRead
         /\ Current(r)
         /\ stored = NoValue => r.at = "done"
<1>1. CASE settingCache["value"] # NoValue
  <2>1. settingCache["value"] \in SettingEntry /\ Current(settingCache["value"]) /\ stored # NoValue
    BY <1>1 DEF SettingInv, SettingTypes, FreshInv, NoRowInv, Layers
  <2>2. r = [at |-> "done", value |-> settingCache["value"].value, late |-> settingCache["value"].late]
    BY <1>1 DEF Setting!Look, Setting!Found
  <2> QED
    BY <2>1, <2>2 DEF SettingEntry, Current
<1>2. CASE settingCache["value"] = NoValue /\ settingCache["setting"] # NoValue
  <2>1. settingCache["setting"] \in SettingEntry /\ Current(settingCache["setting"]) /\ stored # NoValue
    BY <1>2 DEF SettingInv, SettingTypes, FreshInv, NoRowInv, Layers
  <2>2. r = [at |-> "fill", value |-> settingCache["setting"].value, late |-> settingCache["setting"].late]
    BY <1>2 DEF Setting!Look, Setting!Found
  <2> QED
    BY <2>1, <2>2 DEF SettingEntry, SettingRead, Current
<1>3. CASE settingCache["value"] = NoValue /\ settingCache["setting"] = NoValue
  <2>1. r = [at |-> IF stored = NoValue THEN "done" ELSE "fill", value |-> stored, late |-> FALSE]
    BY <1>3 DEF Setting!Look
  <2> QED
    BY <2>1 DEF SettingInv, SettingTypes, SettingRead, Current
<1> QED
  BY <1>1, <1>2, <1>3

\* A request moves to a step that is no change; the rows and the cache stay.
LEMMA GetSettingInv ==
  ASSUME SettingInv, NEW q \in Requests, Setting!GetSettingValue(q)
  PROVE  SettingInv'
<1>1. PICK r : r = Setting!Look
  OBVIOUS
<1>2. PICK next \in SettingRead : /\ settingRequest' = [settingRequest EXCEPT ![q] = next]
                                  /\ next.at \in {"idle", "fill"} /\ (next.at = "fill" => Current(next))
                                  /\ stored = NoValue => next.at = "idle"
  BY <1>1, LookCurrent, IdleRead DEF Setting!GetSettingValue
<1>3. UNCHANGED <<setting, stored, settingCache, signal, collector, follower, missed, started>>
      /\ settingRequest[q].at = "idle"
  BY IdleRead DEF Setting!GetSettingValue
<1>4. settingRequest'[q] = next /\ \A p \in Requests \ {q} : settingRequest'[p] = settingRequest[p]
  BY <1>2 DEF SettingInv, SettingTypes
<1>5. SettingTypes'
  BY <1>2, <1>3 DEF SettingInv, SettingTypes
<1>6. (Dropping' <=> Dropping) /\ \A p \in Requests : Changing(p)' <=> Changing(p)
  BY <1>2, <1>3, <1>4 DEF Dropping, Changing
<1>7. FreshInv' /\ NoRowInv'
  BY <1>2, <1>3, <1>4, <1>6 DEF SettingInv, FreshInv, NoRowInv, Current
<1>8. ModeInv' /\ ScheduleInv'
  BY <1>2, <1>3, <1>4, <1>6 DEF SettingInv, ModeInv, ScheduleInv, Changing
<1> QED
  BY <1>5, <1>7, <1>8 DEF SettingInv

\* Entries of what is current are current.
LEMMA FilledCurrent ==
  ASSUME SettingInv, NEW r \in SettingRead, Current(r),
         settingCache' = Setting!Filled(r) \/ settingCache' = [l \in DOMAIN settingCache |-> Setting!Entry(r)]
  PROVE  /\ settingCache' \in [Layers -> SettingEntry \cup {NoValue}]
         /\ \A l \in Layers : settingCache'[l] # NoValue => Current(settingCache'[l])
<1>1. DOMAIN settingCache = Layers /\ \A l \in Layers : settingCache[l] \in SettingEntry \cup {NoValue}
  BY DEF SettingInv, SettingTypes
<1>2. PICK entry : entry = Setting!Entry(r)
  OBVIOUS
<1>3. entry \in SettingEntry /\ Current(entry)
  BY <1>2 DEF Setting!Entry, SettingEntry, SettingRead, Current
<1>4. DOMAIN settingCache' = Layers /\ settingCache' = [l \in Layers |-> settingCache'[l]]
      /\ \A l \in Layers : settingCache'[l] \in {entry, settingCache[l]}
  BY <1>1, <1>2 DEF Setting!Filled
<1> QED
  BY <1>1, <1>3, <1>4 DEF SettingInv, FreshInv

LEMMA FillInv ==
  ASSUME SettingInv, NEW q \in Requests, Setting!FillCache(q) \/ Setting!CacheNew(q)
  PROVE  SettingInv'
<1>1. PICK r \in SettingRead : r = settingRequest[q]
  BY DEF SettingInv, SettingTypes
<1>2. /\ r.at \in {"fill", "cache"} /\ UNCHANGED <<setting, stored, signal, collector, follower, missed, started>>
      /\ settingCache' = Setting!Filled(r) \/ settingCache' = [l \in DOMAIN settingCache |-> Setting!Entry(r)]
  BY <1>1 DEF Setting!FillCache, Setting!CacheNew
<1>3. Current(r) /\ stored # NoValue
  BY <1>1, <1>2 DEF SettingInv, FreshInv, NoRowInv
<1>4. PICK next \in SettingRead : /\ settingRequest' = [settingRequest EXCEPT ![q] = next]
                                  /\ next.at = IF r.at = "cache" THEN "tell" ELSE "idle"
                                  /\ r.at = "cache" => next.value = r.value
  <2>1. CASE r.at = "fill"
    BY <1>1, <2>1, IdleRead DEF Setting!FillCache, Setting!CacheNew
  <2>2. CASE r.at = "cache"
    <3>1. settingRequest' = [settingRequest EXCEPT ![q] = [r EXCEPT !.at = "tell"]]
      BY <1>1, <2>2 DEF Setting!FillCache, Setting!CacheNew, Setting!Goes
    <3>2. [r EXCEPT !.at = "tell"] \in SettingRead /\ [r EXCEPT !.at = "tell"].at = "tell"
          /\ [r EXCEPT !.at = "tell"].value = r.value
      BY DEF SettingRead
    <3> QED
      BY <2>2, <3>1, <3>2
  <2> QED
    BY <1>2, <2>1, <2>2
<1>5. settingRequest'[q] = next /\ \A p \in Requests \ {q} : settingRequest'[p] = settingRequest[p]
  BY <1>4 DEF SettingInv, SettingTypes
<1>6. SettingTypes'
  BY <1>2, <1>3, <1>4, FilledCurrent DEF SettingInv, SettingTypes
<1>7. (Dropping' <=> Dropping) /\ \A p \in Requests : Changing(p)' <=> Changing(p)
  BY <1>1, <1>2, <1>4, <1>5 DEF Dropping, Changing
<1>8. FreshInv'
  <2>1. \A l \in Layers : settingCache'[l] # NoValue => Current(settingCache'[l])
    BY <1>2, <1>3, FilledCurrent
  <2> QED
    BY <1>2, <1>4, <1>5, <1>7, <2>1 DEF SettingInv, FreshInv, Current
<1>9. NoRowInv'
  BY <1>2, <1>3 DEF NoRowInv
<1>10. ModeInv'
  BY <1>2, <1>7 DEF SettingInv, ModeInv
<1>11. ScheduleInv'
  BY <1>1, <1>2, <1>4, <1>5, <1>7 DEF SettingInv, ScheduleInv, Changing
<1> QED
  BY <1>6, <1>8, <1>9, <1>10, <1>11 DEF SettingInv

-----------------------------------------------------------------------------
(* Changing.                                                               *)

LEMMA LateRead ==
  ASSUME NEW r \in SettingRead
  PROVE  /\ Setting!Late(r) \in SettingRead
         /\ Setting!Late(r).at = r.at /\ Setting!Late(r).value = r.value
         /\ r.at \in {"fill", "cache"} => Setting!Late(r).late
BY DEF SettingRead, Setting!Late

\* Everybody else's reads are late.
LEMMA LateOthers ==
  ASSUME SettingInv, NEW q \in Requests, NEW next \in SettingRead, Setting!OthersLate(q, next)
  PROVE  /\ settingRequest' \in [Requests -> SettingRead] /\ collector' \in SettingRead
         /\ collector'.at \in {"idle", "fill"}
         /\ collector'.at = collector.at
         /\ collector'.at = "fill" => collector'.late
         /\ settingRequest'[q] = next
         /\ \A p \in Requests \ {q} : /\ settingRequest'[p].at = settingRequest[p].at
                                      /\ settingRequest'[p].value = settingRequest[p].value
                                      /\ settingRequest'[p].at \in {"fill", "cache"} => settingRequest'[p].late
<1>1. \A p \in Requests : settingRequest[p] \in SettingRead
  BY DEF SettingInv, SettingTypes
<1>2. settingRequest' = [p \in Requests |-> IF p = q THEN next ELSE Setting!Late(settingRequest[p])]
      /\ collector' = Setting!Late(collector)
  BY DEF Setting!OthersLate
<1>3. \A p \in Requests \ {q} : settingRequest'[p] = Setting!Late(settingRequest[p])
  BY <1>2
<1>4. collector \in SettingRead /\ collector.at \in {"idle", "fill"}
  BY DEF SettingInv, SettingTypes
<1> QED
  BY <1>1, <1>2, <1>3, <1>4, LateRead, IdleRead

LEMMA UpdateSettingInv ==
  ASSUME SettingParameters, SettingInv, NEW q \in Requests, NEW v, Setting!UpdateSetting(q, v)
  PROVE  SettingInv'
<1>1. PICK next : next = [at |-> IF stored = NoValue THEN "cache" ELSE "drop", value |-> v, late |-> FALSE]
  OBVIOUS
<1>2. v \in SettingValues /\ v # NoValue
  BY DEF Setting!UpdateSetting, Setting!Values, SettingValues, SettingParameters
<1>3. /\ next \in SettingRead /\ next.value = v /\ ~next.late
      /\ next.at = IF stored = NoValue THEN "cache" ELSE "drop"
  BY <1>1, <1>2 DEF SettingRead
<1>4. /\ Setting!OthersLate(q, next) /\ stored' = v
      /\ settingRequest[q].at = "idle"
      /\ missed' = IF setting = "schedule" THEN Setting!Underway(q) \/ ~started ELSE missed
      /\ UNCHANGED <<setting, settingCache, signal, follower, started>>
  BY <1>1, IdleRead DEF Setting!UpdateSetting
<1>5. SettingTypes'
  BY <1>2, <1>3, <1>4, LateOthers DEF SettingInv, SettingTypes, Setting!Underway
<1>6. stored # NoValue => Dropping'
  BY <1>3, <1>4, LateOthers DEF Dropping
<1>7. FreshInv'
  <2>1. \A l \in Layers : settingCache'[l] # NoValue => Current(settingCache[l])'
    BY <1>4, <1>6 DEF SettingInv, NoRowInv, Current
  <2>2. \A p \in Requests : settingRequest'[p].at \in {"fill", "cache"} => Current(settingRequest[p])'
    BY <1>3, <1>4, LateOthers DEF Current
  <2>3. collector'.at = "fill" => Current(collector)'
    BY <1>3, <1>4, LateOthers DEF Current
  <2> QED
    BY <2>1, <2>2, <2>3 DEF FreshInv, Current
<1>8. NoRowInv'
  BY <1>2, <1>4 DEF NoRowInv
<1>9. Changing(q)' /\ ~Changing(q) /\ \A p \in Requests \ {q} : Changing(p)' <=> Changing(p)
  BY <1>3, <1>4, LateOthers DEF Changing
<1>10. ModeInv'
  BY <1>2, <1>4, <1>9 DEF SettingInv, ModeInv
<1>11. ScheduleInv'
  <2> SUFFICES ASSUME setting = "schedule", ~missed'
               PROVE  /\ started' /\ \A p \in Requests : Changing(p)' =>
                        settingRequest'[p].value = stored' /\ \A o \in Requests : Changing(o)' => o = p
    BY <1>3, <1>4, <1>9, LateOthers DEF SettingInv, ScheduleInv
  <2>1. started /\ \A p \in Requests \ {q} : ~Changing(p)
    BY <1>4 DEF Setting!Underway, Changing
  <2> QED
    BY <1>3, <1>4, <1>9, <2>1, LateOthers
<1> QED
  BY <1>5, <1>7, <1>8, <1>10, <1>11 DEF SettingInv

LEMMA InvalidateSettingInv ==
  ASSUME SettingInv, NEW q \in Requests, Setting!Invalidate(q)
  PROVE  SettingInv'
<1>1. PICK next : next = [settingRequest[q] EXCEPT !.at = "tell"]
  OBVIOUS
<1>2. settingRequest[q] \in SettingRead /\ settingRequest[q].at = "drop"
  BY DEF SettingInv, SettingTypes, Setting!Invalidate
<1>3. next \in SettingRead /\ next.value = settingRequest[q].value /\ next.at = "tell"
  BY <1>1, <1>2 DEF SettingRead
<1>4. /\ Setting!OthersLate(q, next) /\ UNCHANGED <<setting, stored, signal, follower, missed, started>>
      /\ settingCache' = [l \in DOMAIN settingCache |-> NoValue]
  BY <1>1 DEF Setting!Invalidate
<1>5. settingCache' \in [Layers -> SettingEntry \cup {NoValue}] /\ \A l \in Layers : settingCache'[l] = NoValue
  BY <1>4 DEF SettingInv, SettingTypes
<1>6. SettingTypes'
  BY <1>3, <1>4, <1>5, LateOthers DEF SettingInv, SettingTypes
<1>7. FreshInv'
  BY <1>3, <1>4, <1>5, LateOthers DEF FreshInv, Current
<1>8. NoRowInv'
  BY <1>3, <1>4, <1>5, LateOthers DEF SettingInv, NoRowInv
<1>9. \A p \in Requests : Changing(p)' <=> Changing(p)
  BY <1>2, <1>3, <1>4, LateOthers DEF Changing
<1>10. ModeInv'
  BY <1>3, <1>4, <1>9, LateOthers DEF SettingInv, ModeInv
<1>11. ScheduleInv'
  BY <1>3, <1>4, <1>9, LateOthers DEF SettingInv, ScheduleInv
<1> QED
  BY <1>6, <1>7, <1>8, <1>10, <1>11 DEF SettingInv

\* What is written past the cache makes all of it late.
LEMMA UpdateSettingsInv ==
  ASSUME SettingParameters, SettingInv, NEW q \in Requests, NEW v \in SettingValues,
         Setting!UpdateSettings(q, v)
  PROVE  SettingInv'
<1>1. PICK known \in BOOLEAN : known = (setting = "mode" /\ v \in Setting!Values)
  OBVIOUS
<1>2. PICK next : next = IF known THEN [Setting!Idle EXCEPT !.at = "tell", !.value = v] ELSE Setting!Idle
  OBVIOUS
<1>3. next \in SettingRead /\ next.at = IF known THEN "tell" ELSE "idle"
  BY <1>2, IdleRead DEF SettingRead
<1>4. /\ Setting!OthersLate(q, next) /\ stored' = v /\ stored # NoValue /\ settingRequest[q].at = "idle"
      /\ missed' = (missed \/ ~known)
      /\ UNCHANGED <<setting, signal, follower, started>>
  BY <1>1, <1>2, IdleRead DEF Setting!UpdateSettings
<1>5. /\ settingCache' \in [Layers -> SettingEntry \cup {NoValue}]
      /\ \A l \in Layers : settingCache'[l] # NoValue => settingCache'[l].late
  <2>1. \A e \in SettingEntry : [e EXCEPT !.late = TRUE] \in SettingEntry /\ [e EXCEPT !.late = TRUE].late
    BY DEF SettingEntry
  <2>2. settingCache' = [l \in Layers |-> IF settingCache[l] = NoValue THEN NoValue
                                          ELSE [settingCache[l] EXCEPT !.late = TRUE]]
        /\ \A l \in Layers : settingCache[l] \in SettingEntry \cup {NoValue}
    BY DEF SettingInv, SettingTypes, Setting!UpdateSettings
  <2> QED
    BY <2>1, <2>2
<1>6. SettingTypes'
  BY <1>3, <1>4, <1>5, LateOthers DEF SettingInv, SettingTypes
<1>7. FreshInv'
  BY <1>3, <1>4, <1>5, LateOthers DEF FreshInv, Current
<1>8. NoRowInv'
  BY <1>4 DEF NoRowInv, SettingParameters
<1>9. (known => Changing(q)') /\ ~Changing(q) /\ \A p \in Requests \ {q} : Changing(p)' <=> Changing(p)
  BY <1>3, <1>4, LateOthers DEF Changing
<1>10. ModeInv'
  BY <1>4, <1>9 DEF SettingInv, ModeInv, SettingParameters
<1>11. ScheduleInv'
  <2>1. setting = "schedule" => missed'
    BY <1>1, <1>4
  <2> QED
    BY <1>3, <1>4, <2>1, LateOthers DEF SettingInv, ScheduleInv
<1> QED
  BY <1>6, <1>7, <1>8, <1>10, <1>11 DEF SettingInv

-----------------------------------------------------------------------------
(* Telling, following, and what happens by itself.                         *)

LEMMA TellInv ==
  ASSUME SettingInv, NEW q \in Requests, Setting!ReloadInterval(q) \/ Setting!UpdateSchedule(q)
  PROVE  SettingInv'
<1>1. /\ settingRequest[q].at = "tell" /\ settingRequest' = [settingRequest EXCEPT ![q] = Setting!Idle]
      /\ UNCHANGED <<setting, stored, settingCache, collector, missed, started>>
      /\ \/ setting = "mode" /\ signal' = TRUE /\ follower' = follower
         \/ setting = "schedule" /\ signal' = signal /\ follower' = Setting!Job(settingRequest[q].value)
  BY DEF Setting!ReloadInterval, Setting!UpdateSchedule
<1>2. settingRequest'[q] = Setting!Idle /\ \A p \in Requests \ {q} : settingRequest'[p] = settingRequest[p]
  BY <1>1 DEF SettingInv, SettingTypes
<1>3. SettingTypes'
  BY <1>1, IdleRead DEF SettingInv, SettingTypes
<1>4. (Dropping' <=> Dropping) /\ Changing(q) /\ ~Changing(q)'
      /\ \A p \in Requests \ {q} : Changing(p)' <=> Changing(p)
  BY <1>1, <1>2, IdleRead DEF Dropping, Changing
<1>5. FreshInv' /\ NoRowInv'
  BY <1>1, <1>2, <1>4, IdleRead DEF SettingInv, FreshInv, NoRowInv, Current
<1>6. ModeInv'
  BY <1>1 DEF SettingInv, ModeInv
<1>7. ScheduleInv'
  BY <1>1, <1>2, <1>4 DEF SettingInv, ScheduleInv
<1> QED
  BY <1>3, <1>5, <1>6, <1>7 DEF SettingInv

LEMMA TakeSignalInv ==
  ASSUME SettingInv, Setting!TakeSignal
  PROVE  SettingInv'
<1>1. PICK r : r = Setting!Look
  OBVIOUS
<1>2. /\ signal /\ collector = Setting!Idle /\ signal' = FALSE
      /\ UNCHANGED <<setting, stored, settingCache, settingRequest, started>>
      /\ \/ r.at = "done" /\ Setting!Follow(r) /\ UNCHANGED collector
         \/ r.at = "fill" /\ collector' = r /\ UNCHANGED <<follower, missed>>
         \/ missed' = TRUE /\ UNCHANGED <<collector, follower>>
  BY <1>1, LookCurrent DEF Setting!TakeSignal
<1>3. setting = "mode" /\ stored # NoValue
  BY <1>2 DEF SettingInv, SettingTypes, ScheduleInv, ModeInv
<1>4. SettingTypes'
  BY <1>1, <1>2, LookCurrent DEF SettingInv, SettingTypes, Setting!Follow
<1>5. FreshInv'
  BY <1>1, <1>2, LookCurrent, IdleRead DEF SettingInv, FreshInv, Current, Dropping
<1>6. NoRowInv' /\ ScheduleInv'
  BY <1>2, <1>3 DEF NoRowInv, ScheduleInv
<1>7. ModeInv'
  <2>1. CASE r.at = "done" /\ Setting!Follow(r)
    <3>1. missed' = r.late /\ follower' = Setting!Interval(r.value)
      BY <2>1 DEF Setting!Follow
    <3>2. Current(r)
      BY <1>1, LookCurrent
    <3> QED
      BY <1>2, <3>1, <3>2 DEF SettingInv, ModeInv, Current, Dropping, Changing
  <2>2. CASE r.at = "fill"
    BY <1>2, <2>2 DEF SettingInv, ModeInv
  <2>3. CASE missed' = TRUE
    BY <1>2, <2>3 DEF SettingInv, ModeInv
  <2> QED
    BY <1>2, <2>1, <2>2, <2>3
<1> QED
  BY <1>4, <1>5, <1>6, <1>7 DEF SettingInv

LEMMA SetIntervalInv ==
  ASSUME SettingInv, Setting!SetInterval
  PROVE  SettingInv'
<1>1. PICK r \in SettingRead : r = collector
  BY DEF SettingInv, SettingTypes
<1>2. /\ r.at = "fill" /\ settingCache' = Setting!Filled(r) /\ collector' = Setting!Idle
      /\ follower' = Setting!Interval(r.value) /\ missed' = r.late
      /\ UNCHANGED <<setting, stored, settingRequest, signal, started>>
  BY <1>1 DEF Setting!SetInterval, Setting!Follow
<1>3. Current(r) /\ stored # NoValue /\ setting = "mode"
  BY <1>1, <1>2, IdleRead DEF SettingInv, SettingTypes, FreshInv, NoRowInv, ScheduleInv
<1>4. SettingTypes'
  BY <1>1, <1>2, <1>3, FilledCurrent, IdleRead DEF SettingInv, SettingTypes, SettingRead
<1>5. FreshInv'
  <2>1. \A l \in Layers : settingCache'[l] # NoValue => Current(settingCache'[l])
    BY <1>2, <1>3, FilledCurrent
  <2> QED
    BY <1>2, <2>1, IdleRead DEF SettingInv, FreshInv, Current, Dropping
<1>6. NoRowInv' /\ ScheduleInv'
  BY <1>2, <1>3 DEF NoRowInv, ScheduleInv
<1>7. ModeInv'
  BY <1>2, <1>3 DEF SettingInv, ModeInv, Current, Dropping, Changing
<1> QED
  BY <1>4, <1>5, <1>6, <1>7 DEF SettingInv

LEMMA CacheExpiresInv ==
  ASSUME SettingInv, NEW l \in DOMAIN settingCache, Setting!CacheExpires(l)
  PROVE  SettingInv'
<1>1. /\ settingCache' = [settingCache EXCEPT ![l] = NoValue]
      /\ UNCHANGED <<setting, stored, settingRequest, signal, collector, follower, missed, started>>
  BY DEF Setting!CacheExpires
<1>2. l \in Layers /\ settingCache'[l] = NoValue /\ \A k \in Layers \ {l} : settingCache'[k] = settingCache[k]
  BY <1>1 DEF SettingInv, SettingTypes
<1>3. SettingTypes'
  BY <1>1 DEF SettingInv, SettingTypes
<1>4. FreshInv' /\ NoRowInv'
  BY <1>1, <1>2 DEF SettingInv, FreshInv, NoRowInv, Current, Dropping
<1>5. ModeInv' /\ ScheduleInv'
  BY <1>1 DEF SettingInv, ModeInv, ScheduleInv, Changing
<1> QED
  BY <1>3, <1>4, <1>5 DEF SettingInv

LEMMA RestartSettingInv ==
  ASSUME SettingInv, Setting!Restart
  PROVE  SettingInv'
<1>1. PICK answered \in BOOLEAN :
      /\ UNCHANGED <<setting, stored>> /\ signal' = FALSE /\ collector' = Setting!Idle
      /\ settingRequest' = [q \in Requests |-> Setting!Idle]
      /\ settingCache' = [l \in DOMAIN settingCache |-> NoValue]
      /\ started' = (setting = "mode" \/ (answered /\ stored # "other"))
      /\ missed' = (~answered \/ ~started')
      /\ follower' = IF answered THEN Setting!Following(stored) ELSE Setting!Following(NoValue)
  BY DEF Setting!Restart
<1>2. /\ \A q \in Requests : settingRequest'[q] = Setting!Idle
      /\ settingCache' \in [Layers -> SettingEntry \cup {NoValue}] /\ \A l \in Layers : settingCache'[l] = NoValue
  BY <1>1 DEF SettingInv, SettingTypes
<1>3. SettingTypes'
  BY <1>1, <1>2, IdleRead DEF SettingInv, SettingTypes
<1>4. FreshInv' /\ NoRowInv'
  BY <1>1, <1>2, IdleRead DEF FreshInv, NoRowInv
<1>5. ModeInv'
  BY <1>1 DEF SettingInv, ModeInv, Setting!Following
<1>6. ScheduleInv'
  BY <1>1, <1>2, IdleRead DEF SettingInv, ScheduleInv, Changing, Setting!Following
<1> QED
  BY <1>3, <1>4, <1>5, <1>6 DEF SettingInv

LEMMA SettingNextInv == SettingParameters /\ SettingInv /\ [Setting!Next]_settingVars => SettingInv'
<1> SUFFICES ASSUME SettingParameters, SettingInv, [Setting!Next]_settingVars PROVE SettingInv'
  OBVIOUS
<1>1. CASE UNCHANGED settingVars
  BY <1>1 DEF settingVars, SettingInv, SettingTypes, FreshInv, NoRowInv, ModeInv, ScheduleInv,
              Current, Dropping, Changing
<1>2. ASSUME NEW q \in Requests,
             \/ \E v \in Setting!Values \cup {"other"} : Setting!UpdateSettings(q, v)
             \/ Setting!UpdateMonitoring(q) \/ Setting!UpdateTrafficResetSchedule(q)
      PROVE  SettingInv'
  <2>1. Setting!Values \cup {"other"} \subseteq SettingValues
    BY DEF Setting!Values, SettingValues
  <2> QED
    BY <1>2, <2>1, UpdateSettingInv, UpdateSettingsInv, TellInv
       DEF Setting!UpdateMonitoring, Setting!UpdateTrafficResetSchedule
<1> QED
  BY <1>1, <1>2, GetSettingInv, FillInv, InvalidateSettingInv, TakeSignalInv, SetIntervalInv,
     RestartSettingInv, CacheExpiresInv DEF Setting!Next

\* Whatever requests, reads, expiries and restarts meet, the collector polls at
\* the interval of the stored mode and the cron runs the stored schedule, but
\* for a value cached late, a change that tells nobody (UpdateSettings), or a
\* read that fails where it is not tried again (Start, Initialize).
THEOREM FollowersAreTold ==
  ASSUME SettingParameters
  PROVE  Spec => []SettingsFollowed
<1> DEFINE Inv == part = "settings" => SettingInv
<1>1. Init => Inv
  BY SettingInit DEF Init
<1>2. Inv /\ [Next]_vars => Inv'
  BY Exercised, SettingNextInv
<1>3. Inv => SettingsFollowed
  <2> SUFFICES ASSUME SettingInv, \A q \in Requests : settingRequest[q].at \in {"idle", "fill"},
                      ~signal, collector = Setting!Idle, ~missed
               PROVE  started /\ follower = Setting!Following(stored)
    BY DEF SettingsFollowed, Setting!SettingsFollowed
  <2>1. \A q \in Requests : ~Changing(q)
    BY DEF Changing
  <2> QED
    BY <2>1, IdleRead DEF SettingInv, SettingTypes, ModeInv, ScheduleInv, Setting!Following
<1> QED
  BY <1>1, <1>2, <1>3, PTL DEF Spec

-----------------------------------------------------------------------------
(***************************************************************************)
(* BackupFiles: what a restore reports is in place, and nothing is lost on *)
(* the way.                                                                *)
(***************************************************************************)
\* The configurations are a part, the code copies parts, and no file is not a
\* content.
FileParameters == "cores" \in DOMAIN Files /\ Copied \in Seq(DOMAIN Files) /\ NoFile \notin Nat

Contents == Nat \cup {NoFile}

Folder(p) == [Files[p] -> Contents]

Trees == {t \in [File!Parts -> UNION {Folder(p) : p \in File!Parts}] : \A p \in File!Parts : t[p] \in Folder(p)}

Restoring == {"open", "extract", "spare", "database", "stage", "swap", "drop", "back", "copy", "report"}

FileTypes ==
  /\ data \in Trees /\ spare \in Folder("cores") /\ written \in Nat
  /\ archive # NoArchive => archive.files \in Trees
  /\ making \in [at : Nat, parts : SUBSET File!Parts, files : Trees]
  /\ work \in [pc : Restoring \cup {"idle"}, at : Nat, since : Nat, ok : BOOLEAN, swapped : BOOLEAN]
  /\ work.since <= written

\* One archive is made, and it is made before it is restored.
OneArchiveInv ==
  /\ archive # NoArchive => making = File!NotMaking
  /\ work.pc # "idle" => archive # NoArchive

\* A part of the archive is back, or was written anew.
PutBack(p) ==
  \A n \in Files[p] : \/ archive.files[p][n] \in {NoFile, data[p][n]}
                      \/ data[p][n] # NoFile /\ data[p][n] > work.since

\* What was copied so far stays.
CopiedInv ==
  /\ work.ok => work.pc = "report"
  /\ work.pc = "copy" => \A i \in DOMAIN Copied : i < work.at => PutBack(Copied[i])
  /\ work.pc = "report" /\ work.ok => \A i \in DOMAIN Copied : PutBack(Copied[i])

Held(n) == data["cores"][n] # NoFile \/ spare[n] # NoFile

\* The copy beside is what is in place until the directory is dropped.
CoresInv ==
  uncertain \/
    /\ archive # NoArchive => \A n \in Files["cores"] : archive.files["cores"][n] # NoFile => Held(n)
    /\ \A n \in Files["cores"] : making.files["cores"][n] # NoFile => Held(n)
    /\ work.pc \in {"database", "stage", "swap", "drop"} => spare = data["cores"]

KeyInv ==
  /\ keys \in Nat /\ keys >= 1 /\ keyFile \in Nat
  /\ keys = 1 => keyFile \in {0, 1} /\ key = 1 /\ (archive # NoArchive => archive.key = 1)

FileInv == FileTypes /\ OneArchiveInv /\ CopiedInv /\ CoresInv /\ KeyInv

-----------------------------------------------------------------------------
(* Trees of files.                                                         *)

LEMMA TreeFacts ==
  ASSUME NEW t \in Trees
  PROVE  DOMAIN t = File!Parts /\ \A p \in File!Parts : t[p] \in Folder(p)
BY DEF Trees

LEMMA TreeExcept ==
  ASSUME NEW t \in Trees, NEW p, NEW f, p \in File!Parts => f \in Folder(p)
  PROVE  [t EXCEPT ![p] = f] \in Trees
<1>1. PICK u : u = [t EXCEPT ![p] = f]
  OBVIOUS
<1>2. DOMAIN t = File!Parts /\ \A q \in File!Parts : t[q] \in Folder(q)
  BY TreeFacts
<1>3. \A q \in File!Parts : u[q] = IF q = p THEN f ELSE t[q]
  BY <1>1, <1>2
<1>4. u = [q \in File!Parts |-> u[q]]
  BY <1>1, <1>2
<1>5. \A q \in File!Parts : u[q] \in Folder(q)
  BY <1>2, <1>3
<1>6. u \in [File!Parts -> UNION {Folder(q) : q \in File!Parts}]
  BY <1>4, <1>5
<1> QED
  BY <1>1, <1>5, <1>6 DEF Trees

LEMMA NoneFolder == \A p : File!None(p) \in Folder(p) /\ \A n \in Files[p] : File!None(p)[n] = NoFile
BY DEF File!None, Folder, Contents

LEMMA EmptyTree == File!Empty \in Trees /\ \A p \in File!Parts : File!Empty[p] = File!None(p)
<1>1. PICK t : t = File!Empty
  OBVIOUS
<1>2. t = [p \in File!Parts |-> File!None(p)]
  BY <1>1 DEF File!Empty, File!None
<1>3. \A p \in File!Parts : t[p] = File!None(p) /\ t[p] \in Folder(p)
  BY <1>2, NoneFolder
<1>4. t \in [File!Parts -> UNION {Folder(p) : p \in File!Parts}]
  BY <1>2, <1>3, NoneFolder
<1> QED
  BY <1>1, <1>3, <1>4 DEF Trees

LEMMA OverFolder ==
  ASSUME NEW p, NEW f \in Folder(p), NEW g \in Folder(p)
  PROVE  /\ File!Over(f, g) \in Folder(p)
         /\ \A n \in Files[p] : File!Over(f, g)[n] = IF f[n] # NoFile THEN f[n] ELSE g[n]
BY DEF File!Over, Folder

LEMMA NotMakingFacts ==
  ASSUME FileParameters
  PROVE  /\ File!NotMaking \in [at : Nat, parts : SUBSET File!Parts, files : Trees]
         /\ File!NotMaking.at = 0 /\ File!NotMaking.files = File!Empty
         /\ \A n \in Files["cores"] : File!NotMaking.files["cores"][n] = NoFile
<1>1. File!NotMaking.files = File!Empty /\ File!NotMaking.at = 0
  BY DEF File!NotMaking
<1>2. "cores" \in File!Parts
  BY DEF FileParameters, File!Parts
<1> QED
  BY <1>1, <1>2, EmptyTree, NoneFolder DEF File!NotMaking

LEMMA NotWorkingFacts ==
  /\ File!NotWorking \in [pc : Restoring \cup {"idle"}, at : Nat, since : Nat, ok : BOOLEAN, swapped : BOOLEAN]
  /\ File!NotWorking.pc = "idle" /\ ~File!NotWorking.ok /\ File!NotWorking.since = 0
BY DEF File!NotWorking

LEMMA OrderFacts ==
  ASSUME FileParameters
  PROVE  Len(File!Order) \in Nat /\ 0 \notin DOMAIN File!Order
<1>1. <<"cores">> \in Seq(DOMAIN Files)
  BY DEF FileParameters
<1>2. File!Order \in Seq(DOMAIN Files)
  BY <1>1 DEF FileParameters, File!Order
<1> QED
  BY <1>2

LEMMA FileInit == FileParameters /\ File!Init => FileInv
<1> SUFFICES ASSUME FileParameters, File!Init PROVE FileInv
  OBVIOUS
<1>1. "cores" \in File!Parts
  BY DEF FileParameters, File!Parts
<1>2. FileTypes
  BY <1>1, EmptyTree, NoneFolder, NotMakingFacts, NotWorkingFacts DEF File!Init, FileTypes
<1>3. OneArchiveInv /\ CopiedInv
  BY NotWorkingFacts DEF File!Init, OneArchiveInv, CopiedInv
<1>4. CoresInv
  BY NotMakingFacts, NotWorkingFacts DEF File!Init, CoresInv
<1>5. KeyInv
  BY DEF File!Init, KeyInv
<1> QED
  BY <1>2, <1>3, <1>4, <1>5 DEF FileInv

-----------------------------------------------------------------------------
(* The rest of the panel, and the making of an archive.                    *)

LEMMA WriteInv ==
  ASSUME FileParameters, FileInv, NEW p \in File!Parts, NEW n \in Files[p], File!Write(p, n)
  PROVE  FileInv'
<1>1. /\ written \in Nat /\ written' = written + 1 /\ work.since \in Nat /\ work.since <= written
      /\ data \in Trees /\ "cores" \in File!Parts
      /\ data' = [data EXCEPT ![p][n] = written + 1]
      /\ uncertain' = (uncertain \/ (p = "cores" /\ work.pc # "idle"))
      /\ UNCHANGED <<spare, archive, making, work, keyFile, key, keys>>
  BY DEF File!Write, File!Idle, FileInv, FileTypes, FileParameters, File!Parts
<1>2. PICK f : f = [data[p] EXCEPT ![n] = written + 1]
  OBVIOUS
<1>3. data[p] \in Folder(p) /\ written + 1 \in Nat
  BY <1>1, TreeFacts
<1>4. f \in Folder(p) /\ f[n] = written + 1 /\ \A m \in Files[p] \ {n} : f[m] = data[p][m]
  BY <1>2, <1>3 DEF Folder, Contents
<1>5. data' = [data EXCEPT ![p] = f]
  BY <1>1, <1>2
<1>6. data' \in Trees /\ data'[p] = f /\ \A q \in File!Parts \ {p} : data'[q] = data[q]
  <2>1. PICK d : d = data
    OBVIOUS
  <2>3. data' \in Trees
    <3>1. d \in Trees /\ f \in Folder(p)
      BY <1>1, <1>4, <2>1
    <3>2. [d EXCEPT ![p] = f] \in Trees
      BY <3>1, TreeExcept
    <3> QED
      BY <1>5, <2>1, <3>2
  <2>2. DOMAIN data = File!Parts /\ p \in File!Parts
    BY <1>1, TreeFacts
  <2> QED
    BY <1>5, <2>3, <2>2
<1>7. \A q \in File!Parts : \A m \in Files[q] : data'[q][m] = data[q][m] \/ data'[q][m] = written + 1
  BY <1>4, <1>6
<1>8. written + 1 # NoFile /\ written + 1 > work.since /\ work.since <= written'
  BY <1>1 DEF FileParameters
<1>9. FileTypes'
  BY <1>1, <1>6, <1>8 DEF FileInv, FileTypes
<1>10. OneArchiveInv' /\ KeyInv'
  BY <1>1 DEF FileInv, OneArchiveInv, KeyInv
<1>11. CopiedInv'
  <2>1. \A q \in File!Parts : PutBack(q) => PutBack(q)'
    BY <1>1, <1>7, <1>8 DEF PutBack
  <2>2. \A i \in DOMAIN Copied : Copied[i] \in File!Parts
    BY DEF FileParameters, File!Parts
  <2> QED
    BY <1>1, <2>1, <2>2 DEF FileInv, CopiedInv
<1>12. CoresInv'
  <2>1. \A m \in Files["cores"] : Held(m) => Held(m)'
    BY <1>1, <1>7, <1>8 DEF Held
  <2>2. work.pc = "idle" \/ uncertain' \/ data'["cores"] = data["cores"]
    BY <1>1, <1>6
  <2> QED
    BY <1>1, <2>1, <2>2 DEF FileInv, CoresInv
<1> QED
  BY <1>9, <1>10, <1>11, <1>12 DEF FileInv

LEMMA LoseKeyInv ==
  ASSUME FileInv, File!LoseKey
  PROVE  FileInv'
<1>1. keyFile' = 0 /\ UNCHANGED <<data, spare, archive, making, work, key, keys, written, uncertain>>
  BY DEF File!LoseKey
<1>2. FileTypes' /\ OneArchiveInv' /\ CopiedInv' /\ CoresInv'
  BY <1>1 DEF FileInv, FileTypes, OneArchiveInv, CopiedInv, PutBack, CoresInv, Held
<1>3. KeyInv'
  BY <1>1 DEF FileInv, KeyInv
<1> QED
  BY <1>2, <1>3 DEF FileInv

\* What an archive is made of is in place while it is made.
LEMMA MakingInv ==
  ASSUME FileParameters, FileInv, archive = NoArchive,
         UNCHANGED <<data, spare, work, keyFile, key, keys, written, uncertain>>,
         making' \in [at : Nat, parts : SUBSET File!Parts, files : Trees],
         \A n \in Files["cores"] : making'.files["cores"][n] # NoFile =>
           making.files["cores"][n] # NoFile \/ data["cores"][n] # NoFile,
         \/ archive' = archive
         \/ /\ archive' = [key |-> key, parts |-> making.parts, files |-> making.files]
            /\ making' = File!NotMaking
  PROVE  FileInv'
<1>1. work.pc = "idle" /\ ~work.ok
  BY DEF FileInv, OneArchiveInv, CopiedInv
<1>2. FileTypes'
  BY DEF FileInv, FileTypes
<1>3. OneArchiveInv'
  BY <1>1 DEF OneArchiveInv
<1>4. CopiedInv'
  BY <1>1 DEF CopiedInv
<1>5. CoresInv'
  BY <1>1 DEF FileInv, CoresInv, Held
<1>6. KeyInv'
  BY DEF FileInv, KeyInv
<1> QED
  BY <1>2, <1>3, <1>4, <1>5, <1>6 DEF FileInv

LEMMA BackupInv ==
  ASSUME FileParameters, FileInv,
         \/ \E parts \in SUBSET File!Parts : File!BackupRequest(parts \cup {"cores"})
         \/ File!CopyPart \/ File!Seal \/ File!BackupFails
  PROVE  FileInv'
<1>1. "cores" \in File!Parts /\ data \in Trees
      /\ making \in [at : Nat, parts : SUBSET File!Parts, files : Trees]
  BY DEF FileParameters, File!Parts, FileInv, FileTypes
<1>2. UNCHANGED <<data, spare, work, keyFile, key, keys, written, uncertain>>
  BY DEF File!BackupRequest, File!CopyPart, File!Seal, File!BackupFails, File!MakingUnchanged
<1>3. ASSUME NEW parts \in SUBSET File!Parts, File!BackupRequest(parts \cup {"cores"}) PROVE FileInv'
  <2>1. PICK m : m = [File!NotMaking EXCEPT !.at = 1, !.parts = parts \cup {"cores"}]
    OBVIOUS
  <2>2. m \in [at : Nat, parts : SUBSET File!Parts, files : Trees] /\ m.files = File!NotMaking.files
    BY <1>1, <2>1, NotMakingFacts
  <2>3. making' = m /\ archive = NoArchive /\ archive' = archive
    BY <1>3, <2>1 DEF File!BackupRequest
  <2> QED
    BY <1>2, <2>2, <2>3, MakingInv, NotMakingFacts
<1>4. CASE File!CopyPart
  <2>1. PICK p, f : /\ p = File!Order[making.at]
                    /\ f = IF p \in making.parts THEN data[p] ELSE File!None(p)
    OBVIOUS
  <2>2. PICK t : t = [making.files EXCEPT ![p] = f]
    OBVIOUS
  <2>3. making' = [making EXCEPT !.at = @ + 1, !.files = t] /\ archive' = archive /\ making.at \in DOMAIN File!Order
    BY <1>4, <2>1, <2>2 DEF File!CopyPart
  <2>4. t \in Trees
    BY <1>1, <2>1, <2>2, TreeExcept, TreeFacts, NoneFolder
  <2>5. making' \in [at : Nat, parts : SUBSET File!Parts, files : Trees] /\ making'.files = t
    <3>1. PICK m : m = making
      OBVIOUS
    <3>2. m.at \in Nat /\ m.parts \in SUBSET File!Parts /\ m.at + 1 \in Nat
          /\ m = [at |-> m.at, parts |-> m.parts, files |-> m.files]
      BY <1>1, <3>1
    <3>3. making' = [at |-> m.at + 1, parts |-> m.parts, files |-> t]
      BY <2>3, <3>1, <3>2
    <3> QED
      BY <2>4, <3>2, <3>3
  <2>6. \A n \in Files["cores"] : t["cores"][n] # NoFile =>
          making.files["cores"][n] # NoFile \/ data["cores"][n] # NoFile
    <3>1. t["cores"] = IF p = "cores" THEN f ELSE making.files["cores"]
      BY <1>1, <2>2, TreeFacts
    <3> QED
      BY <2>1, <3>1, NoneFolder
  <2>7. archive = NoArchive
    BY <2>3, NotMakingFacts, OrderFacts DEF FileInv, OneArchiveInv
  <2> QED
    BY <1>2, <2>3, <2>5, <2>6, <2>7, MakingInv
<1>5. CASE File!Seal
  <2>1. making.at = Len(File!Order) + 1 /\ making' = File!NotMaking
        /\ archive' = [key |-> key, parts |-> making.parts, files |-> making.files]
    BY <1>5 DEF File!Seal
  <2>2. archive = NoArchive
    BY <2>1, NotMakingFacts, OrderFacts DEF FileInv, OneArchiveInv
  <2> QED
    BY <1>2, <2>1, <2>2, MakingInv, NotMakingFacts
<1>6. CASE File!BackupFails
  <2>1. making # File!NotMaking /\ making' = File!NotMaking /\ archive' = archive
    BY <1>6 DEF File!BackupFails
  <2>2. archive = NoArchive
    BY <2>1 DEF FileInv, OneArchiveInv
  <2> QED
    BY <1>2, <2>1, <2>2, MakingInv, NotMakingFacts
<1> QED
  BY <1>3, <1>4, <1>5, <1>6

-----------------------------------------------------------------------------
(* Restoring.                                                              *)

WorkRecord == [pc : Restoring \cup {"idle"}, at : Nat, since : Nat, ok : BOOLEAN, swapped : BOOLEAN]

\* What a step of a restore leaves alone.
Restores(w) ==
  /\ work' = w /\ w \in WorkRecord
  /\ UNCHANGED <<archive, making, keyFile, key, keys, written>>

LEMMA WorkEdits ==
  ASSUME FileInv
  PROVE  /\ work \in WorkRecord
         /\ \A pc \in Restoring : /\ [work EXCEPT !.pc = pc] \in WorkRecord
                                  /\ [work EXCEPT !.pc = pc].pc = pc
                                  /\ [work EXCEPT !.pc = pc].at = work.at
                                  /\ [work EXCEPT !.pc = pc].since = work.since
                                  /\ [work EXCEPT !.pc = pc].ok = work.ok
BY DEF FileInv, FileTypes, WorkRecord

\* Steps that leave the files alone.
LEMMA QuietInv ==
  ASSUME FileInv, NEW w, Restores(w), UNCHANGED <<data, spare, uncertain>>,
         archive # NoArchive, w.since <= written,
         w.pc \notin {"database", "copy"}, w.pc \in {"stage", "swap", "drop"} => work.pc \in {"database", "stage", "swap"},
         w.ok => w.pc = "report" /\ \A i \in DOMAIN Copied : PutBack(Copied[i]) /\ w.since = work.since
  PROVE  FileInv'
<1>1. FileTypes'
  BY DEF FileInv, FileTypes, Restores, WorkRecord
<1>2. OneArchiveInv'
  BY DEF FileInv, OneArchiveInv, Restores
<1>3. CopiedInv'
  BY DEF CopiedInv, PutBack, Restores
<1>4. CoresInv'
  BY DEF FileInv, CoresInv, Held, Restores
<1>5. KeyInv'
  BY DEF FileInv, KeyInv, Restores
<1> QED
  BY <1>1, <1>2, <1>3, <1>4, <1>5 DEF FileInv

LEMMA QuietSteps ==
  ASSUME FileParameters, FileInv,
         File!RestoreStart \/ File!Decrypt \/ File!Extract \/ File!RestoreDone \/ File!Report
  PROVE  FileInv'
<1>1. /\ UNCHANGED <<archive, making, keyFile, key, keys, written>> /\ UNCHANGED <<data, spare, uncertain>>
      /\ written \in Nat /\ work \in WorkRecord /\ work.since <= written
  BY DEF File!RestoreStart, File!Decrypt, File!Extract, File!RestoreDone, File!Report, File!WorkUnchanged,
         FileInv, FileTypes, WorkRecord
<1>2. CASE File!RestoreStart
  <2>1. PICK w : w = [File!NotWorking EXCEPT !.pc = "open", !.since = written]
    OBVIOUS
  <2>2. w \in WorkRecord /\ w.pc = "open" /\ w.since = written /\ ~w.ok
    BY <1>1, <2>1, NotWorkingFacts DEF WorkRecord, Restoring
  <2>3. work' = w /\ archive # NoArchive
    BY <1>2, <2>1 DEF File!RestoreStart
  <2> QED
    BY <1>1, <2>2, <2>3, QuietInv DEF Restores
<1>3. CASE File!Decrypt \/ File!Extract
  <2>1. PICK pc \in {"extract", "spare", "report"} : work' = [work EXCEPT !.pc = pc]
    BY <1>3 DEF File!Decrypt, File!Extract, File!Goes, File!Fails
  <2>2. work.pc \in {"open", "extract"}
    BY <1>3 DEF File!Decrypt, File!Extract
  <2>3. archive # NoArchive /\ ~work.ok
    BY <2>2 DEF FileInv, OneArchiveInv, CopiedInv
  <2>4. PICK w : w = [work EXCEPT !.pc = pc]
    OBVIOUS
  <2>5. w \in WorkRecord /\ w.pc = pc /\ w.since = work.since /\ w.ok = work.ok
    BY <2>4, WorkEdits DEF Restoring
  <2> QED
    BY <1>1, <2>1, <2>3, <2>4, <2>5, QuietInv DEF Restores
<1>4. CASE File!RestoreDone
  <2>1. PICK w : w = [work EXCEPT !.pc = "report", !.ok = TRUE]
    OBVIOUS
  <2>2. work' = w /\ work.pc = "copy" /\ work.at = Len(Copied) + 1
    BY <1>4, <2>1 DEF File!RestoreDone
  <2>3. w \in WorkRecord /\ w.pc = "report" /\ w.since = work.since
    BY <1>1, <2>1 DEF WorkRecord, Restoring
  <2>4. \A i \in DOMAIN Copied : i < work.at
    BY <2>2 DEF FileParameters
  <2>5. archive # NoArchive /\ \A i \in DOMAIN Copied : PutBack(Copied[i])
    BY <2>2, <2>4 DEF FileInv, OneArchiveInv, CopiedInv
  <2> QED
    BY <1>1, <2>2, <2>3, <2>5, QuietInv DEF Restores
<1>5. CASE File!Report
  <2>1. work' = File!NotWorking /\ archive # NoArchive
    BY <1>5 DEF File!Report, FileInv, OneArchiveInv
  <2> QED
    BY <1>1, <2>1, NotWorkingFacts, QuietInv DEF Restores, WorkRecord
<1> QED
  BY <1>2, <1>3, <1>4, <1>5

\* Steps about the configurations, before the parts that are copied.
LEMMA CoresStep ==
  ASSUME FileParameters, FileInv, NEW w, Restores(w),
         w.since = work.since, ~w.ok, w.pc = "copy" => w.at = 1, archive # NoArchive,
         data' \in Trees, spare' \in Folder("cores"),
         CoresInv'
  PROVE  FileInv'
<1>1. FileTypes'
  BY DEF FileInv, FileTypes, Restores, WorkRecord
<1>2. OneArchiveInv'
  BY DEF FileInv, OneArchiveInv, Restores
<1>3. CopiedInv'
  <2>1. \A i \in DOMAIN Copied : ~(i < 1)
    BY DEF FileParameters
  <2> QED
    BY <2>1 DEF CopiedInv, Restores
<1>4. KeyInv'
  BY DEF FileInv, KeyInv, Restores
<1> QED
  BY <1>1, <1>2, <1>3, <1>4 DEF FileInv

LEMMA SpareSteps ==
  ASSUME FileParameters, FileInv, File!CopyAside \/ File!RestoreDatabase \/ File!Stage
  PROVE  FileInv'
<1>1. /\ UNCHANGED <<archive, making, keyFile, key, keys, written, data>>
      /\ work.pc \in {"spare", "database", "stage"} /\ archive # NoArchive /\ ~work.ok
      /\ data \in Trees /\ spare \in Folder("cores") /\ making = File!NotMaking
      /\ "cores" \in File!Parts
  BY DEF File!CopyAside, File!RestoreDatabase, File!Stage, File!WorkUnchanged, FileParameters, File!Parts,
         FileInv, FileTypes, OneArchiveInv, CopiedInv
<1>2. data["cores"] \in Folder("cores")
  BY <1>1, TreeFacts
<1>3. CASE File!CopyAside
  <2>1. PICK lost, copy :
          /\ copy = [n \in Files["cores"] |-> IF n \in lost THEN NoFile ELSE data["cores"][n]]
          /\ spare' = copy
          /\ uncertain' = (uncertain \/ copy # data["cores"]
                            \/ \E n \in Files["cores"] : spare[n] # NoFile /\ copy[n] = NoFile)
    BY <1>3 DEF File!CopyAside
  <2>2. PICK w : w = [work EXCEPT !.pc = "database"]
    OBVIOUS
  <2>3. Restores(w) /\ w.since = work.since /\ ~w.ok /\ w.pc = "database"
    BY <1>1, <1>3, <2>2, WorkEdits DEF File!CopyAside, File!Goes, Restores, Restoring
  <2>4. copy \in Folder("cores")
    BY <1>2, <2>1 DEF Folder, Contents
  <2>5. CoresInv'
    <3>1. ~uncertain' => spare' = data["cores"] /\ \A n \in Files["cores"] : Held(n) => Held(n)'
      BY <1>1, <2>1 DEF Held
    <3> QED
      BY <1>1, <2>1, <3>1 DEF FileInv, CoresInv
  <2> QED
    BY <1>1, <2>1, <2>3, <2>4, <2>5, CoresStep
<1>4. CASE File!RestoreDatabase \/ File!Stage
  <2>1. /\ uncertain' = uncertain /\ work.pc \in {"database", "stage"}
        /\ spare' = spare \/ spare' = File!None("cores")
    BY <1>4 DEF File!RestoreDatabase, File!Stage
  <2>2. PICK w : w = [work EXCEPT !.pc = "copy", !.at = 1]
    OBVIOUS
  <2>3. w \in WorkRecord /\ w.pc = "copy" /\ w.at = 1 /\ w.since = work.since /\ ~w.ok
    BY <1>1, <2>2, WorkEdits DEF WorkRecord, Restoring
  <2>4. PICK v : /\ Restores(v) /\ v.since = work.since /\ ~v.ok /\ (v.pc = "copy" => v.at = 1)
                 /\ v.pc \in {"stage", "swap", "copy", "report"}
                 /\ v.pc \in {"stage", "swap"} => spare' = spare
    <3>1. CASE work' = w
      BY <1>1, <2>3, <3>1 DEF Restores
    <3>2. ASSUME NEW pc \in {"stage", "swap", "report"}, work' = [work EXCEPT !.pc = pc],
                 pc \in {"stage", "swap"} => spare' = spare
          PROVE  \E v : /\ Restores(v) /\ v.since = work.since /\ ~v.ok /\ (v.pc = "copy" => v.at = 1)
                        /\ v.pc \in {"stage", "swap", "copy", "report"}
                        /\ v.pc \in {"stage", "swap"} => spare' = spare
      <4>1. PICK v : v = [work EXCEPT !.pc = pc]
        OBVIOUS
      <4>2. Restores(v) /\ v.since = work.since /\ ~v.ok /\ v.pc = pc
        BY <1>1, <3>2, <4>1, WorkEdits DEF Restores, Restoring
      <4> QED
        BY <3>2, <4>2
    <3>3. \/ work' = w
          \/ \E pc \in {"stage", "swap", "report"} :
               work' = [work EXCEPT !.pc = pc] /\ (pc \in {"stage", "swap"} => spare' = spare)
      BY <1>4, <2>2 DEF File!RestoreDatabase, File!Stage, File!Goes, File!Fails, File!Onward
    <3> QED
      BY <3>1, <3>2, <3>3
  <2>5. CoresInv'
    <3>1. CASE spare' = spare
      BY <1>1, <2>1, <2>4, <3>1 DEF FileInv, CoresInv, Held, Restores
    <3>2. CASE spare' = File!None("cores") /\ v.pc \notin {"stage", "swap"}
      <4>1. uncertain \/ spare = data["cores"]
        BY <2>1 DEF FileInv, CoresInv
      <4>2. uncertain \/ \A n \in Files["cores"] : Held(n) => Held(n)'
        BY <1>1, <4>1 DEF Held
      <4> QED
        BY <1>1, <2>1, <2>4, <3>2, <4>2 DEF FileInv, CoresInv, Restores
    <3> QED
      BY <2>1, <2>4, <3>1, <3>2
  <2> QED
    BY <1>1, <2>1, <2>4, <2>5, CoresStep, NoneFolder
<1> QED
  BY <1>3, <1>4

LEMMA SwapSteps ==
  ASSUME FileParameters, FileInv, File!Swap \/ File!Drop \/ File!Back
  PROVE  FileInv'
<1>1. /\ UNCHANGED <<archive, making, keyFile, key, keys, written, uncertain>>
      /\ work.pc \in {"swap", "drop", "back"} /\ archive # NoArchive /\ ~work.ok
      /\ data \in Trees /\ spare \in Folder("cores") /\ making = File!NotMaking
      /\ archive.files \in Trees /\ "cores" \in File!Parts
  BY DEF File!Swap, File!Drop, File!Back, File!WorkUnchanged, FileParameters, File!Parts,
         FileInv, FileTypes, OneArchiveInv, CopiedInv
<1>2. data["cores"] \in Folder("cores") /\ archive.files["cores"] \in Folder("cores")
  BY <1>1, TreeFacts
<1>3. \A f : /\ f \in Folder("cores") => [data EXCEPT !["cores"] = f] \in Trees
             /\ [data EXCEPT !["cores"] = f]["cores"] = f
  BY <1>1, TreeExcept, TreeFacts
<1>4. \A n \in Files["cores"] : making.files["cores"][n] = NoFile
  BY <1>1, NotMakingFacts
<1>5. DOMAIN data["cores"] = Files["cores"] /\ DOMAIN spare = Files["cores"]
  BY <1>1, <1>2 DEF Folder
<1>6. PICK v : /\ Restores(v) /\ v.since = work.since /\ ~v.ok /\ (v.pc = "copy" => v.at = 1)
               /\ \/ File!Swap /\ UNCHANGED <<data, spare>> /\ v.pc = "drop"
                  \/ /\ File!Swap /\ ~File!Has(data["cores"]) /\ v.pc = "copy"
                     /\ data' = [data EXCEPT !["cores"] = archive.files["cores"]]
                     /\ spare' = File!None("cores")
                  \/ File!Drop /\ v.pc = "back"
                  \/ File!Back /\ v.pc = "copy"
  <2>1. PICK w, x : w = [work EXCEPT !.pc = "copy", !.at = 1]
                    /\ x = [work EXCEPT !.pc = "copy", !.at = 1, !.swapped = TRUE]
    OBVIOUS
  <2>2. /\ w \in WorkRecord /\ w.pc = "copy" /\ w.at = 1 /\ w.since = work.since /\ ~w.ok
        /\ x \in WorkRecord /\ x.pc = "copy" /\ x.at = 1 /\ x.since = work.since /\ ~x.ok
    BY <1>1, <2>1, WorkEdits DEF WorkRecord, Restoring
  <2>3. PICK y, z : y = [work EXCEPT !.pc = "drop"] /\ z = [work EXCEPT !.pc = "back"]
    OBVIOUS
  <2>4. /\ y \in WorkRecord /\ y.pc = "drop" /\ y.since = work.since /\ ~y.ok
        /\ z \in WorkRecord /\ z.pc = "back" /\ z.since = work.since /\ ~z.ok
    BY <1>1, <2>3, WorkEdits DEF Restoring
  <2>5. \/ File!Swap /\ UNCHANGED <<data, spare>> /\ work' = y
        \/ /\ File!Swap /\ ~File!Has(data["cores"]) /\ work' = x
           /\ data' = [data EXCEPT !["cores"] = archive.files["cores"]]
           /\ spare' = File!None("cores")
        \/ File!Drop /\ work' = z
        \/ File!Back /\ work' \in {w, x}
    BY <2>1, <2>3 DEF File!Swap, File!Drop, File!Back, File!Goes, File!Onward
  <2> QED
    BY <1>1, <2>2, <2>4, <2>5 DEF Restores
<1>7. CASE File!Swap
  <2>1. work.pc = "swap"
    BY <1>7 DEF File!Swap
  <2>2. CASE UNCHANGED <<data, spare>> /\ work'.pc = "drop"
    <3>1. CoresInv'
      BY <1>1, <1>6, <2>1, <2>2 DEF FileInv, CoresInv, Held, Restores
    <3> QED
      BY <1>1, <1>6, <2>1, <2>2, <3>1, CoresStep
  <2>3. CASE /\ ~File!Has(data["cores"]) /\ work'.pc = "copy"
             /\ data' = [data EXCEPT !["cores"] = archive.files["cores"]]
             /\ spare' = File!None("cores")
    <3>1. data' \in Trees /\ data'["cores"] = archive.files["cores"]
      BY <1>2, <1>3, <2>3
    <3>2. CoresInv'
      BY <1>1, <1>4, <1>6, <2>1, <2>3, <3>1 DEF FileInv, CoresInv, Held, Restores
    <3> QED
      BY <1>1, <1>6, <2>1, <2>3, <3>1, <3>2, CoresStep, NoneFolder
  <2>4. work'.pc = v.pc
    BY <1>6 DEF Restores
  <2>5. ~File!Drop /\ ~File!Back
    BY <2>1 DEF File!Drop, File!Back
  <2> QED
    BY <1>6, <2>2, <2>3, <2>4, <2>5
<1>8. CASE File!Drop
  <2>1. data' = [data EXCEPT !["cores"] = File!None("cores")] /\ spare' = spare /\ work.pc = "drop"
    BY <1>8 DEF File!Drop
  <2>2. data' \in Trees /\ data'["cores"] = File!None("cores")
    BY <1>3, <2>1, NoneFolder
  <2>3. uncertain \/ spare = data["cores"]
    BY <2>1 DEF FileInv, CoresInv
  <2>4. CoresInv'
    BY <1>1, <1>6, <2>1, <2>2, <2>3 DEF FileInv, CoresInv, Held, Restores
  <2> QED
    BY <1>1, <1>6, <2>1, <2>2, <2>4, CoresStep
<1>9. CASE File!Back
  <2>1. CASE File!Has(spare) /\ ~File!Has(data["cores"])
    <3>1. /\ data' = [data EXCEPT !["cores"] = spare] /\ spare' = File!None("cores") /\ work.pc = "back"
      BY <1>9, <2>1 DEF File!Back
    <3>2. data' \in Trees /\ data'["cores"] = spare
      BY <1>1, <1>3, <3>1
    <3>3. \A n \in Files["cores"] : data["cores"][n] = NoFile
      BY <1>5, <2>1 DEF File!Has
    <3>4. CoresInv'
      BY <1>1, <1>4, <1>6, <3>1, <3>2, <3>3 DEF FileInv, CoresInv, Held, Restores
    <3> QED
      BY <1>1, <1>6, <3>1, <3>2, <3>4, CoresStep, NoneFolder
  <2>2. CASE ~(File!Has(spare) /\ ~File!Has(data["cores"]))
    <3>1. UNCHANGED <<data, spare>> /\ work.pc = "back"
      BY <1>9, <2>2 DEF File!Back
    <3>2. v.pc = "copy"
      BY <1>6, <3>1 DEF File!Swap, File!Drop
    <3>3. CoresInv'
      BY <1>1, <1>6, <3>1, <3>2 DEF FileInv, CoresInv, Held, Restores
    <3> QED
      BY <1>1, <1>6, <3>1, <3>2, <3>3, CoresStep
  <2> QED
    BY <2>1, <2>2
<1> QED
  BY <1>7, <1>8, <1>9

LEMMA RestorePartInv ==
  ASSUME FileParameters, FileInv, File!RestorePart
  PROVE  FileInv'
<1>1. PICK p, put : p = Copied[work.at] /\ put = File!Over(archive.files[p], data[p])
  OBVIOUS
<1>2. /\ work.pc = "copy" /\ work.at \in DOMAIN Copied
      /\ UNCHANGED <<archive, making, keyFile, key, keys, written, spare, uncertain>>
      /\ \/ data' = [data EXCEPT ![p] = put] /\ work' = [work EXCEPT !.at = @ + 1]
         \/ data' \in {data, [data EXCEPT ![p] = put]} /\ work' = [work EXCEPT !.pc = "report"]
  BY <1>1 DEF File!RestorePart, File!Fails, File!WorkUnchanged
<1>3. /\ archive # NoArchive /\ ~work.ok /\ archive.files \in Trees /\ data \in Trees
      /\ work \in WorkRecord /\ work.since <= written /\ "cores" \in File!Parts
  BY <1>2 DEF FileInv, FileTypes, OneArchiveInv, CopiedInv, WorkRecord, FileParameters, File!Parts
<1>4. p \in File!Parts
  BY <1>1, <1>2 DEF FileParameters, File!Parts
<1>5. put \in Folder(p) /\ \A n \in Files[p] : put[n] = IF archive.files[p][n] # NoFile THEN archive.files[p][n] ELSE data[p][n]
  BY <1>1, <1>3, <1>4, TreeFacts, OverFolder
<1>6. /\ data' \in Trees /\ \A q \in File!Parts \ {p} : data'[q] = data[q]
      /\ data'[p] \in {data[p], put}
      /\ data' = [data EXCEPT ![p] = put] => data'[p] = put
  BY <1>2, <1>3, <1>4, <1>5, TreeExcept, TreeFacts
<1>7. /\ work' \in WorkRecord /\ work'.since = work.since /\ ~work'.ok
      /\ \/ work'.pc = "copy" /\ work'.at = work.at + 1 /\ data'[p] = put
         \/ work'.pc = "report"
  <2>1. CASE data' = [data EXCEPT ![p] = put] /\ work' = [work EXCEPT !.at = @ + 1]
    BY <1>2, <1>3, <1>6, <2>1 DEF WorkRecord
  <2>2. CASE work' = [work EXCEPT !.pc = "report"]
    BY <1>3, <2>2, WorkEdits DEF Restoring
  <2> QED
    BY <1>2, <2>1, <2>2
<1>8. FileTypes'
  BY <1>2, <1>3, <1>6, <1>7 DEF FileInv, FileTypes, WorkRecord
<1>9. OneArchiveInv' /\ KeyInv'
  BY <1>2, <1>3 DEF FileInv, OneArchiveInv, KeyInv
<1>10. CopiedInv'
  <2> SUFFICES ASSUME work'.pc = "copy", NEW i \in DOMAIN Copied, i < work'.at PROVE PutBack(Copied[i])'
    BY <1>7 DEF CopiedInv
  <2>1. data'[p] = put /\ work'.at = work.at + 1 /\ i \in Nat /\ work.at \in Nat
    BY <1>2, <1>3, <1>7 DEF FileParameters, WorkRecord
  <2>2. CASE Copied[i] = p
    BY <1>2, <1>5, <2>1, <2>2 DEF PutBack
  <2>3. CASE Copied[i] # p
    <3>1. i < work.at /\ Copied[i] \in File!Parts
      BY <1>1, <2>1, <2>3 DEF FileParameters, File!Parts
    <3>2. PutBack(Copied[i])
      BY <1>2, <3>1 DEF FileInv, CopiedInv
    <3> QED
      BY <1>2, <1>6, <1>7, <2>3, <3>1, <3>2 DEF PutBack
  <2> QED
    BY <2>2, <2>3
<1>11. CoresInv'
  <2>1. \A n \in Files["cores"] : data["cores"][n] # NoFile => data'["cores"][n] # NoFile
    BY <1>3, <1>5, <1>6
  <2> QED
    BY <1>2, <1>7, <2>1 DEF FileInv, CoresInv, Held
<1> QED
  BY <1>8, <1>9, <1>10, <1>11 DEF FileInv

LEMMA RestartFilesInv ==
  ASSUME FileParameters, FileInv, File!Restart
  PROVE  FileInv'
<1>1. PICK k : k = IF keyFile # 0 THEN keyFile ELSE keys + 1
  OBVIOUS
<1>2. /\ keyFile' = k /\ key' = k /\ keys' = (IF keyFile # 0 THEN keys ELSE k)
      /\ making' = File!NotMaking /\ work' = File!NotWorking
      /\ UNCHANGED <<data, spare, archive, written, uncertain>>
  BY <1>1 DEF File!Restart
<1>3. FileTypes'
  BY <1>2, NotMakingFacts, NotWorkingFacts DEF FileInv, FileTypes
<1>4. OneArchiveInv' /\ CopiedInv'
  BY <1>2, NotWorkingFacts DEF OneArchiveInv, CopiedInv
<1>5. CoresInv'
  BY <1>2, NotMakingFacts, NotWorkingFacts DEF FileInv, CoresInv, Held
<1>6. KeyInv'
  BY <1>1, <1>2 DEF FileInv, KeyInv
<1> QED
  BY <1>3, <1>4, <1>5, <1>6 DEF FileInv

LEMMA FileNextInv == FileParameters /\ FileInv /\ [File!Next]_fileVars => FileInv'
<1> SUFFICES ASSUME FileParameters, FileInv, [File!Next]_fileVars PROVE FileInv'
  OBVIOUS
<1>1. CASE UNCHANGED fileVars
  BY <1>1 DEF fileVars, FileInv, FileTypes, OneArchiveInv, CopiedInv, PutBack, CoresInv, Held, KeyInv
<1>2. CASE File!PerformRestore
  BY <1>2, QuietSteps, SpareSteps, SwapSteps, RestorePartInv DEF File!PerformRestore
<1>3. CASE \E p \in File!Parts : \E n \in Files[p] : File!Write(p, n)
  BY <1>3, WriteInv
<1>4. CASE \/ \E parts \in SUBSET File!Parts : File!BackupRequest(parts \cup {"cores"})
           \/ File!CopyPart \/ File!Seal \/ File!BackupFails
  BY <1>4, BackupInv
<1> QED
  BY <1>1, <1>2, <1>3, <1>4, LoseKeyInv, QuietSteps, RestartFilesInv DEF File!Next

\* What a restore that succeeded reports is in place, a configuration that was
\* archived is in its place or beside it wherever a restore fails or is cut
\* off, and the archive opens unless the key was lost (performRestore).
THEOREM RestoredIsThere ==
  ASSUME FileParameters
  PROVE  Spec => []RestoreStands
<1> DEFINE Inv == part = "files" => FileInv
<1>1. Init => Inv
  BY FileInit DEF Init
<1>2. Inv /\ [Next]_vars => Inv'
  BY Exercised, FileNextInv
<1>3. Inv => RestoreStands
  <2> SUFFICES ASSUME FileInv PROVE File!RestoreStands
    BY DEF RestoreStands
  <2>1. File!CopiedBack
    BY DEF FileInv, CopiedInv, PutBack, File!CopiedBack
  <2>2. File!CoresRemain
    BY DEF FileInv, CoresInv, Held, File!CoresRemain
  <2>3. File!KeyOpens
    BY DEF FileInv, KeyInv, File!KeyOpens
  <2> QED
    BY <2>1, <2>2, <2>3 DEF File!RestoreStands
<1> QED
  BY <1>1, <1>2, <1>3, PTL DEF Spec

-----------------------------------------------------------------------------
(***************************************************************************)
(* Sessions: one token of a login works.                                   *)
(***************************************************************************)
\* The refresh tokens of login l that are not revoked.
Live(l) == {n \in Session!Issued : rows[n].login = l /\ ~rows[n].revoked}

Owned(n, l) == n \in Session!Issued /\ rows[n].login = l

LoginTypes ==
  /\ Len(logins) <= MaxLogins
  /\ \A n \in Session!Issued : rows[n].login \in DOMAIN logins
  /\ ended \subseteq DOMAIN logins
  /\ \A l \in Session!Login : session[l] # NoSession =>
       l \in DOMAIN logins /\ logins[l] /\ Owned(session[l].token, l)

AtWork(c) ==
  Session!At(c) # "idle" =>
    /\ Session!Of(c) \in DOMAIN logins /\ request[c].browser = logins[Session!Of(c)]
    /\ Session!At(c) \in {"find", "update"} => request[c].browser
    /\ Session!At(c) \in {"list", "insert"} => ~request[c].browser
    /\ Session!At(c) \in {"find", "revoke", "update"} => Owned(Session!Mine(c), Session!Of(c))

\* One request is at work for login l, and one token of it works.
Sole(l) ==
  /\ \A c, d \in Session!Busy(l) : c = d
  /\ \A n, m \in Live(l) : n = m
  /\ session[l] # NoSession => l \notin ended
  /\ session[l] # NoSession /\ Session!Busy(l) = {} => Live(l) = {session[l].token}
  /\ \A c \in Session!Busy(l) :
       /\ Session!At(c) \in {"find", "revoke", "update"} => Live(l) = {Session!Mine(c)}
       /\ Session!At(c) = "create" => Live(l) = {}

LiveInv ==
  /\ LoginTypes /\ \A c \in Client : AtWork(c)
  /\ \A l \in DOMAIN logins : l \in disturbed \/ Sole(l)

-----------------------------------------------------------------------------
(* Rows and requests.                                                      *)

\* Rows keep their login.
KeepLogins ==
  Session!Issued \subseteq Session!Issued' /\ \A n \in Session!Issued : rows'[n].login = rows[n].login

LEMMA SameRows ==
  ASSUME rows' = rows
  PROVE  KeepLogins /\ \A l : Live(l)' = Live(l)
BY DEF KeepLogins, Live, Session!Issued

LEMMA RowAdded ==
  ASSUME SessionTypes, NEW l \in Nat, rows' = Append(rows, Session!NewRow(l))
  PROVE  \E k : /\ k = Len(rows') /\ k \notin Session!Issued /\ Session!Issued' = Session!Issued \cup {k}
                /\ rows'[k].login = l /\ k \in Live(l)' /\ KeepLogins
                /\ Live(l)' = Live(l) \cup {k} /\ \A j : j # l => Live(j)' = Live(j)
<1>1. PICK k, r, row : k = Len(rows) + 1 /\ r = rows /\ row = Session!NewRow(l)
  OBVIOUS
<1>2. r \in Seq(SessionRowType) /\ row.login = l /\ ~row.revoked
  BY <1>1 DEF SessionTypes, Session!NewRow
<1>3. /\ Len(r) \in Nat /\ rows' = Append(r, row) /\ Len(rows') = k /\ DOMAIN r = 1..Len(r)
      /\ DOMAIN rows' = 1..k /\ rows'[k] = row /\ \A n \in 1..Len(r) : rows'[n] = r[n]
  BY <1>1, <1>2
<1>4. k \notin Session!Issued /\ Session!Issued' = Session!Issued \cup {k} /\ KeepLogins
      /\ \A n \in Session!Issued : rows'[n] = rows[n]
  BY <1>1, <1>3 DEF Session!Issued, KeepLogins
<1>5. Live(l)' = Live(l) \cup {k} /\ \A j : j # l => Live(j)' = Live(j)
  BY <1>2, <1>3, <1>4 DEF Live
<1> QED
  BY <1>2, <1>3, <1>4, <1>5

LEMMA RowMarked ==
  ASSUME SessionTypes, NEW k, rows' = [rows EXCEPT ![k].revoked = TRUE]
  PROVE  /\ KeepLogins /\ Session!Issued' = Session!Issued
         /\ \A l : Live(l)' = Live(l) \ {k}
<1>1. rows \in [1..Len(rows) -> SessionRowType] /\ Session!Issued = 1..Len(rows)
  BY DEF SessionTypes, Session!Issued
<1>2. \A row \in SessionRowType : /\ [row EXCEPT !.revoked = TRUE].login = row.login
                                  /\ [row EXCEPT !.revoked = TRUE].revoked
  BY DEF SessionRowType
<1>3. Session!Issued' = Session!Issued
      /\ \A n \in Session!Issued : rows'[n] = IF n = k THEN [rows[n] EXCEPT !.revoked = TRUE] ELSE rows[n]
  BY <1>1 DEF Session!Issued
<1>4. \A n \in Session!Issued : /\ rows'[n].login = rows[n].login
                                /\ rows'[n].revoked = IF n = k THEN TRUE ELSE rows[n].revoked
  BY <1>1, <1>2, <1>3
<1>5. \A l : Live(l)' = Live(l) \ {k}
  BY <1>3, <1>4 DEF Live
<1> QED
  BY <1>3, <1>4, <1>5 DEF KeepLogins

LEMMA RequestRecords ==
  ASSUME SessionTypes, NEW c \in Client
  PROVE  /\ Session!Finish(c) => /\ Session!At(c)' = "idle" /\ \A d \in Client \ {c} : request'[d] = request[d]
         /\ \A at : Session!Go(c, at) =>
              /\ Session!At(c)' = at /\ Session!Mine(c)' = Session!Mine(c) /\ Session!Of(c)' = Session!Of(c)
              /\ request'[c].browser = request[c].browser
              /\ \A d \in Client \ {c} : request'[d] = request[d]
         /\ \A at, b, l, n : Session!Begin(c, at, b, l, n) =>
              /\ Session!At(c)' = at /\ Session!Mine(c)' = n /\ Session!Of(c)' = l /\ request'[c].browser = b
              /\ \A d \in Client \ {c} : request'[d] = request[d]
<1>1. Session!Finish(c) => /\ Session!At(c)' = "idle" /\ \A d \in Client \ {c} : request'[d] = request[d]
  BY DEF SessionTypes, Session!Finish, Session!Idle, Session!At
<1>2. ASSUME NEW at, Session!Go(c, at)
      PROVE  /\ Session!At(c)' = at /\ Session!Mine(c)' = Session!Mine(c) /\ Session!Of(c)' = Session!Of(c)
             /\ request'[c].browser = request[c].browser
             /\ \A d \in Client \ {c} : request'[d] = request[d]
  BY <1>2 DEF SessionTypes, Session!Go, Session!At, Session!Mine, Session!Of, SessionRequestType
<1>3. ASSUME NEW at, NEW b, NEW l, NEW n, Session!Begin(c, at, b, l, n)
      PROVE  /\ Session!At(c)' = at /\ Session!Mine(c)' = n /\ Session!Of(c)' = l /\ request'[c].browser = b
             /\ \A d \in Client \ {c} : request'[d] = request[d]
  BY <1>3 DEF SessionTypes, Session!Begin, Session!At, Session!Mine, Session!Of, SessionRequestType
<1> QED
  BY <1>1, <1>2, <1>3

LEMMA LoginFacts ==
  ASSUME SessionTypes, SessionBounds, LoginTypes
  PROVE  /\ DOMAIN logins = 1..Len(logins) /\ Len(logins) \in Nat
         /\ \A l \in DOMAIN logins : l \in Session!Login /\ l \in Nat /\ logins[l] \in BOOLEAN
<1>1. logins \in Seq(BOOLEAN)
  BY DEF SessionTypes
<1>2. DOMAIN logins = 1..Len(logins) /\ Len(logins) \in Nat /\ \A l \in 1..Len(logins) : logins[l] \in BOOLEAN
  BY <1>1
<1> QED
  BY <1>2 DEF LoginTypes, Session!Login, SessionBounds

\* The step of a request for login k leaves the others as they are.
LEMMA OneLoginInv ==
  ASSUME LiveInv, LoginTypes', KeepLogins, logins' = logins, disturbed \subseteq disturbed',
         NEW k, NEW c \in Client, \A d \in Client \ {c} : request'[d] = request[d],
         Session!At(c) = "idle" \/ Session!Of(c) = k, Session!At(c)' = "idle" \/ Session!Of(c)' = k,
         AtWork(c)',
         \A l \in DOMAIN logins \ {k} : /\ Live(l)' = Live(l) /\ (l \in ended' => l \in ended)
                                        /\ session'[l] = session[l] \/ session'[l] = NoSession,
         k \in DOMAIN logins /\ k \notin disturbed' => Sole(k)'
  PROVE  LiveInv'
<1>1. ASSUME NEW d \in Client PROVE AtWork(d)'
  BY <1>1 DEF LiveInv, AtWork, Session!At, Session!Of, Session!Mine, Owned, KeepLogins
<1>2. ASSUME NEW l \in DOMAIN logins \ {k}, Sole(l) PROVE Sole(l)'
  <2>1. Session!Busy(l)' = Session!Busy(l)
    BY <1>2 DEF Session!Busy, Session!At, Session!Of
  <2>2. \A d \in Session!Busy(l) : d # c
    BY <1>2 DEF Session!Busy
  <2>3. \A d \in Session!Busy(l) : Session!At(d)' = Session!At(d) /\ Session!Mine(d)' = Session!Mine(d)
    BY <2>2 DEF Session!Busy, Session!At, Session!Mine
  <2> QED
    BY <1>2, <2>1, <2>3 DEF Sole
<1> QED
  BY <1>1, <1>2 DEF LiveInv

-----------------------------------------------------------------------------
(* What the steps of a request share.                                      *)

LEMMA LoginTypesKept ==
  ASSUME LoginTypes, KeepLogins, logins' = logins, ended' = ended,
         \A n \in Session!Issued' \ Session!Issued : rows'[n].login \in DOMAIN logins,
         \A l \in Session!Login :
            \/ session'[l] = session[l] \/ session'[l] = NoSession
            \/ session[l] # NoSession /\ Owned(session[l].token, l)'
  PROVE  LoginTypes'
BY DEF LoginTypes, KeepLogins, Owned

\* The requests for login k after a step of c.
LEMMA SoleStep ==
  ASSUME LiveInv, disturbed \subseteq disturbed', NEW k \in DOMAIN logins, k \notin disturbed',
         NEW c \in Client, \A d \in Client \ {c} : request'[d] = request[d],
         c \in Session!Busy(k) \/ Session!Busy(k) = {}
  PROVE  /\ Sole(k)
         /\ Session!At(c)' = "idle" => Session!Busy(k)' = {}
         /\ Session!At(c)' # "idle" /\ Session!Of(c)' = k => Session!Busy(k)' = {c}
<1>1. Sole(k)
  BY DEF LiveInv
<1>2. \A d \in Client \ {c} : d \notin Session!Busy(k) /\ d \notin Session!Busy(k)'
  BY <1>1 DEF Sole, Session!Busy, Session!At, Session!Of
<1> QED
  BY <1>1, <1>2 DEF Session!Busy

\* A step of a request at work for its login.
LEMMA OwnStep ==
  ASSUME LiveInv, NEW c \in Client, Session!At(c) # "idle"
  PROVE  /\ Session!Of(c) \in DOMAIN logins /\ c \in Session!Busy(Session!Of(c))
BY DEF LiveInv, AtWork, Session!Busy

-----------------------------------------------------------------------------
(* The steps of a refresh.                                                 *)

LEMMA RefreshLive ==
  ASSUME SessionInv, SessionBounds, LiveInv, NEW c \in Client, NEW n \in Session!Token,
         Session!Refresh(c, n)
  PROVE  LiveInv'
<1>1. PICK k : k = rows[n].login
  OBVIOUS
<1>2. /\ n \in Session!Issued /\ k \in DOMAIN logins /\ ~logins[k] /\ n \in Live(k) /\ Owned(n, k)
      /\ logins[k] \in BOOLEAN /\ k \in Session!Login
  <2>1. n \in Session!Issued /\ ~logins[k] /\ ~rows[n].revoked
    BY <1>1 DEF Session!Refresh, Session!Held, Session!Usable
  <2> QED
    BY <1>1, <2>1, LoginFacts DEF LiveInv, LoginTypes, Live, Owned, SessionInv
<1>3. /\ rows' = rows /\ logins' = logins /\ session' = session /\ ended' = ended
      /\ Session!Begin(c, "revoke", FALSE, k, n) /\ Session!At(c) = "idle"
  BY <1>1 DEF Session!Refresh, Session!tokens, Session!past
<1>4. /\ KeepLogins /\ \A l : Live(l)' = Live(l)
      /\ Session!At(c)' = "revoke" /\ Session!Mine(c)' = n /\ Session!Of(c)' = k
      /\ request'[c].browser = FALSE /\ \A d \in Client \ {c} : request'[d] = request[d]
  BY <1>3, SameRows, RequestRecords DEF SessionInv
<1>5. disturbed \subseteq disturbed' /\ (k \notin disturbed' => Session!Busy(k) = {})
  BY <1>3 DEF Session!Begin
<1>6. LoginTypes'
  BY <1>3, <1>4, LoginTypesKept DEF LiveInv, Session!Issued
<1>7. AtWork(c)'
  BY <1>2, <1>3, <1>4 DEF AtWork, Owned, Session!Issued
<1>8. ASSUME k \notin disturbed' PROVE Sole(k)'
  <2>1. Sole(k) /\ Session!Busy(k)' = {c} /\ session[k] = NoSession
    BY <1>2, <1>4, <1>5, <1>8, SoleStep DEF LiveInv, LoginTypes
  <2>2. Live(k)' = {n}
    BY <1>2, <1>4, <2>1 DEF Sole
  <2> QED
    BY <1>3, <1>4, <2>1, <2>2 DEF Sole
<1> QED
  BY <1>3, <1>4, <1>5, <1>6, <1>7, <1>8, OneLoginInv

LEMMA RotateLive ==
  ASSUME SessionInv, SessionBounds, LiveInv, NEW c \in Client,
         Session!FindRow(c) \/ Session!RevokeOld(c) \/ Session!RefreshFails(c)
  PROVE  LiveInv'
<1>1. PICK k, n : k = Session!Of(c) /\ n = Session!Mine(c)
  OBVIOUS
<1>2. /\ k \in DOMAIN logins /\ k \in Session!Login /\ c \in Session!Busy(k)
      /\ Session!At(c) \in {"find", "revoke"} => Owned(n, k)
      /\ request[c].browser = logins[k] /\ Session!At(c) \in {"find", "revoke", "create"}
      /\ Session!At(c) = "find" => request[c].browser
  BY <1>1, OwnStep, LoginFacts DEF LiveInv, AtWork, SessionInv, Session!FindRow, Session!RevokeOld,
     Session!RefreshFails
<1>3. /\ logins' = logins /\ ended' = ended /\ disturbed \subseteq disturbed'
  BY DEF Session!FindRow, Session!RevokeOld, Session!RefreshFails, Session!tokens, Session!past
<1>4. ASSUME k \notin disturbed', \A d \in Client \ {c} : request'[d] = request[d]
      PROVE  /\ Sole(k)
             /\ Session!At(c)' = "idle" => Session!Busy(k)' = {}
             /\ Session!At(c)' # "idle" /\ Session!Of(c)' = k => Session!Busy(k)' = {c}
  BY <1>2, <1>3, <1>4, SoleStep
<1>5. CASE Session!FindRow(c)
  <2>1. KeepLogins /\ (\A l : Live(l)' = Live(l)) /\ rows' = rows /\ Session!At(c) = "find"
    BY <1>5, SameRows DEF Session!FindRow, Session!tokens
  <2>2. CASE Session!Go(c, "revoke") /\ UNCHANGED session
    <3>1. /\ Session!At(c)' = "revoke" /\ Session!Mine(c)' = n /\ Session!Of(c)' = k
          /\ request'[c].browser = request[c].browser /\ \A d \in Client \ {c} : request'[d] = request[d]
      BY <1>1, <2>2, RequestRecords DEF SessionInv
    <3>2. LoginTypes'
      BY <1>3, <2>1, <2>2, LoginTypesKept DEF LiveInv, Session!Issued
    <3>3. AtWork(c)'
      BY <1>2, <1>3, <2>1, <3>1 DEF AtWork, Owned, Session!Issued
    <3>4. ASSUME k \notin disturbed' PROVE Sole(k)'
      <4>1. Sole(k) /\ Session!Busy(k)' = {c}
        BY <1>4, <3>1, <3>4
      <4> QED
        BY <1>1, <1>2, <1>3, <2>1, <2>2, <3>1, <4>1 DEF Sole
    <3> QED
      BY <1>1, <1>3, <2>1, <2>2, <3>1, <3>2, <3>3, <3>4, OneLoginInv
  <2>3. CASE session' = [session EXCEPT ![k] = NoSession] /\ Session!Finish(c)
    <3>1. Session!At(c)' = "idle" /\ \A d \in Client \ {c} : request'[d] = request[d]
      BY <2>3, RequestRecords DEF SessionInv
    <3>2. session'[k] = NoSession /\ \A l \in Session!Login \ {k} : session'[l] = session[l]
      BY <1>2, <2>3 DEF SessionInv, SessionTypes
    <3>3. LoginTypes'
      BY <1>3, <2>1, <3>2, LoginTypesKept DEF LiveInv, Session!Issued
    <3>4. AtWork(c)'
      BY <3>1 DEF AtWork
    <3>5. ASSUME k \notin disturbed' PROVE Sole(k)'
      <4>1. Sole(k) /\ Session!Busy(k)' = {}
        BY <1>4, <3>1, <3>5
      <4> QED
        BY <2>1, <3>2, <4>1 DEF Sole
    <3>6. \A l \in DOMAIN logins : l \in Session!Login
      BY LoginFacts DEF LiveInv, SessionInv
    <3> QED
      BY <1>1, <1>3, <2>1, <3>1, <3>2, <3>3, <3>4, <3>5, <3>6, OneLoginInv
  <2> QED
    BY <1>1, <1>5, <2>2, <2>3 DEF Session!FindRow
<1>6. CASE Session!RevokeOld(c)
  <2>1. /\ rows' = [rows EXCEPT ![n].revoked = TRUE] /\ Session!Go(c, "create") /\ session' = session
        /\ Session!At(c) = "revoke"
    BY <1>1, <1>6 DEF Session!RevokeOld
  <2>2. KeepLogins /\ Session!Issued' = Session!Issued /\ \A l : Live(l)' = Live(l) \ {n}
    BY <2>1, RowMarked DEF SessionInv
  <2>3. /\ Session!At(c)' = "create" /\ Session!Mine(c)' = n /\ Session!Of(c)' = k
        /\ request'[c].browser = request[c].browser /\ \A d \in Client \ {c} : request'[d] = request[d]
    BY <1>1, <2>1, RequestRecords DEF SessionInv
  <2>4. LoginTypes'
    BY <1>3, <2>1, <2>2, LoginTypesKept DEF LiveInv
  <2>5. AtWork(c)'
    BY <1>2, <1>3, <2>3 DEF AtWork
  <2>6. \A l \in DOMAIN logins \ {k} : Live(l)' = Live(l)
    BY <1>2, <2>1, <2>2 DEF Live, Owned
  <2>7. ASSUME k \notin disturbed' PROVE Sole(k)'
    <3>1. Sole(k) /\ Session!Busy(k)' = {c}
      BY <1>4, <2>3, <2>7
    <3>2. Live(k)' = {}
      BY <1>1, <1>2, <2>1, <2>2, <3>1 DEF Sole
    <3> QED
      BY <1>3, <2>1, <2>3, <3>1, <3>2 DEF Sole
  <2> QED
    BY <1>1, <1>3, <2>1, <2>2, <2>3, <2>4, <2>5, <2>6, <2>7, OneLoginInv
<1>7. CASE Session!RefreshFails(c)
  <2>1. /\ rows' = rows /\ Session!Finish(c) /\ session' = session /\ k \in disturbed'
    BY <1>1, <1>7 DEF Session!RefreshFails, Session!tokens
  <2>2. KeepLogins /\ \A l : Live(l)' = Live(l)
    BY <2>1, SameRows
  <2>3. Session!At(c)' = "idle" /\ \A d \in Client \ {c} : request'[d] = request[d]
    BY <2>1, RequestRecords DEF SessionInv
  <2>4. LoginTypes' /\ AtWork(c)'
    BY <1>3, <2>1, <2>2, <2>3, LoginTypesKept DEF LiveInv, Session!Issued, AtWork
  <2> QED
    BY <1>1, <1>3, <2>1, <2>2, <2>3, <2>4, OneLoginInv
<1> QED
  BY <1>5, <1>6, <1>7

LEMMA CreateLive ==
  ASSUME SessionInv, SessionBounds, LiveInv, NEW c \in Client, Session!CreateNew(c)
  PROVE  LiveInv'
<1>1. PICK k, m : k = Session!Of(c) /\ m = Len(rows')
  OBVIOUS
<1>2. /\ k \in DOMAIN logins /\ k \in Session!Login /\ k \in Nat /\ c \in Session!Busy(k)
      /\ Session!At(c) = "create" /\ request[c].browser = logins[k]
  BY <1>1, OwnStep, LoginFacts DEF LiveInv, AtWork, SessionInv, Session!CreateNew
<1>3. /\ logins' = logins /\ ended' = ended /\ disturbed' = disturbed /\ session' = session
      /\ rows' = Append(rows, Session!NewRow(k))
  BY <1>1 DEF Session!CreateNew, Session!past
<1>4. /\ m \notin Session!Issued /\ Session!Issued' = Session!Issued \cup {m}
      /\ rows'[m].login = k /\ KeepLogins /\ Live(k)' = Live(k) \cup {m}
      /\ \A j : j # k => Live(j)' = Live(j)
  <2>1. rows' = Append(rows, Session!NewRow(k)) /\ k \in Nat /\ SessionTypes
    BY <1>2, <1>3 DEF SessionInv
  <2> QED
    BY <1>1, <2>1, RowAdded
<1>5. LoginTypes'
  BY <1>2, <1>3, <1>4, LoginTypesKept DEF LiveInv
<1>6. ASSUME \A d \in Client \ {c} : request'[d] = request[d], AtWork(c)',
             Session!At(c)' = "idle" \/ (Session!At(c)' = "update" /\ Session!Mine(c)' = m /\ Session!Of(c)' = k)
      PROVE  LiveInv'
  <2>1. ASSUME k \notin disturbed' PROVE Sole(k)'
    <3>1. /\ Sole(k)
          /\ Session!At(c)' = "idle" => Session!Busy(k)' = {}
          /\ Session!At(c)' # "idle" /\ Session!Of(c)' = k => Session!Busy(k)' = {c}
      BY <1>2, <1>3, <1>6, <2>1, SoleStep
    <3>2. Live(k)' = {m}
      BY <1>2, <1>4, <3>1 DEF Sole
    <3>3. CASE Session!At(c)' = "update" /\ Session!Mine(c)' = m /\ Session!Of(c)' = k
      BY <1>3, <3>1, <3>2, <3>3 DEF Sole
    \* The one who keeps the token is a bearer, and has no session.
    <3>4. CASE Session!At(c)' = "idle"
      <4>1. ~request[c].browser
        BY <1>1, <3>4, RequestRecords DEF Session!CreateNew, Session!At, SessionInv, SessionTypes, SessionRequestType
      <4>2. session[k] = NoSession
        BY <1>2, <4>1 DEF LiveInv, LoginTypes
      <4> QED
        BY <1>3, <3>1, <3>2, <3>4, <4>2 DEF Sole
    <3> QED
      BY <1>6, <3>3, <3>4
  <2> QED
    BY <1>1, <1>3, <1>4, <1>5, <1>6, <2>1, OneLoginInv
<1>7. CASE Session!Finish(c)
  BY <1>6, <1>7, RequestRecords DEF SessionInv, AtWork
<1>8. CASE request' = [request EXCEPT ![c].at = "update", ![c].token = m] /\ request[c].browser
  <2>1. request[c] \in SessionRequestType /\ request \in [Client -> SessionRequestType]
    BY DEF SessionInv, SessionTypes
  <2>2. /\ Session!At(c)' = "update" /\ Session!Mine(c)' = m /\ Session!Of(c)' = k
        /\ request'[c].browser = request[c].browser /\ \A d \in Client \ {c} : request'[d] = request[d]
    BY <1>1, <1>8, <2>1 DEF SessionRequestType, Session!At, Session!Mine, Session!Of
  <2>3. AtWork(c)'
    BY <1>2, <1>3, <1>4, <1>8, <2>2 DEF AtWork, Owned
  <2> QED
    BY <1>6, <2>2, <2>3
<1> QED
  BY <1>1, <1>7, <1>8 DEF Session!CreateNew

LEMMA UpdateLive ==
  ASSUME SessionInv, SessionBounds, LiveInv, NEW c \in Client, Session!UpdateRefreshToken(c)
  PROVE  LiveInv'
<1>1. PICK k, n : k = Session!Of(c) /\ n = Session!Mine(c)
  OBVIOUS
<1>2. /\ k \in DOMAIN logins /\ k \in Session!Login /\ c \in Session!Busy(k)
      /\ Session!At(c) = "update" /\ Owned(n, k)
  BY <1>1, OwnStep, LoginFacts DEF LiveInv, AtWork, SessionInv, Session!UpdateRefreshToken
<1>3. /\ logins' = logins /\ ended' = ended /\ disturbed' = disturbed /\ rows' = rows /\ Session!Finish(c)
      /\ session' = [session EXCEPT ![k] = IF @ = NoSession THEN NoSession
                                           ELSE IF now > @.refresh THEN NoSession
                                           ELSE Session!NewSession(n)]
  BY <1>1 DEF Session!UpdateRefreshToken, Session!tokens, Session!past
<1>4. /\ Session!At(c)' = "idle" /\ \A d \in Client \ {c} : request'[d] = request[d]
      /\ KeepLogins /\ \A l : Live(l)' = Live(l)
  BY <1>3, RequestRecords, SameRows DEF SessionInv
<1>5. /\ session'[k] = NoSession \/ (session[k] # NoSession /\ session'[k].token = n)
      /\ \A l \in Session!Login \ {k} : session'[l] = session[l]
  BY <1>2, <1>3 DEF SessionInv, SessionTypes, Session!NewSession
<1>6. LoginTypes' /\ AtWork(c)'
  <2>1. Owned(n, k)'
    BY <1>2, <1>3 DEF Owned, Session!Issued
  <2>2. \A l \in Session!Login :
            \/ session'[l] = session[l] \/ session'[l] = NoSession
            \/ session[l] # NoSession /\ Owned(session[l].token, l)'
    BY <1>5, <2>1
  <2> QED
    BY <1>3, <1>4, <2>2, LoginTypesKept DEF LiveInv, Session!Issued, AtWork
<1>7. ASSUME k \notin disturbed' PROVE Sole(k)'
  <2>1. Sole(k) /\ Session!Busy(k)' = {}
    BY <1>2, <1>3, <1>4, <1>7, SoleStep
  <2>2. Live(k)' = {n}
    BY <1>1, <1>2, <1>4, <2>1 DEF Sole
  <2> QED
    BY <1>3, <1>5, <2>1, <2>2 DEF Sole
<1>8. \A l \in DOMAIN logins : l \in Session!Login
  BY LoginFacts DEF LiveInv, SessionInv
<1> QED
  BY <1>1, <1>3, <1>4, <1>5, <1>6, <1>7, <1>8, OneLoginInv

LEMMA SessionRefreshLive ==
  ASSUME SessionInv, SessionBounds, LiveInv, NEW c \in Client, NEW k \in Session!Login,
         Session!SessionRefresh(c, k)
  PROVE  LiveInv'
<1>1. PICK n : n = session[k].token
  OBVIOUS
<1>2. /\ k \in DOMAIN logins /\ logins[k] = TRUE /\ Owned(n, k) /\ session[k] # NoSession /\ Session!At(c) = "idle"
      /\ \A l \in DOMAIN logins : l \in Session!Login
  BY <1>1, LoginFacts DEF Session!SessionRefresh, LiveInv, LoginTypes, SessionInv
<1>3. /\ logins' = logins /\ ended' = ended /\ rows' = rows /\ KeepLogins /\ \A l : Live(l)' = Live(l)
  BY SameRows DEF Session!SessionRefresh, Session!tokens, Session!past
<1>4. CASE session' = [session EXCEPT ![k] = NoSession] /\ Session!Meets(k) /\ UNCHANGED request
  <2>1. session'[k] = NoSession /\ \A l \in Session!Login \ {k} : session'[l] = session[l]
    BY <1>4 DEF SessionInv, SessionTypes
  <2>2. /\ disturbed \subseteq disturbed' /\ (k \notin disturbed' => Session!Busy(k) = {})
        /\ Session!At(c)' = "idle" /\ \A d \in Client \ {c} : request'[d] = request[d]
    BY <1>2, <1>4 DEF Session!Meets, Session!At
  <2>3. LoginTypes' /\ AtWork(c)'
    BY <1>3, <2>1, <2>2, LoginTypesKept DEF LiveInv, Session!Issued, AtWork
  <2>4. ASSUME k \notin disturbed' PROVE Sole(k)'
    <3>1. Sole(k) /\ Session!Busy(k)' = {}
      BY <1>2, <2>2, <2>4, SoleStep
    <3> QED
      BY <1>3, <2>1, <3>1 DEF Sole
  <2> QED
    BY <1>2, <1>3, <2>1, <2>2, <2>3, <2>4, OneLoginInv
<1>5. CASE Session!Begin(c, "find", TRUE, k, n) /\ UNCHANGED session
  <2>1. /\ Session!At(c)' = "find" /\ Session!Mine(c)' = n /\ Session!Of(c)' = k
        /\ request'[c].browser = TRUE /\ \A d \in Client \ {c} : request'[d] = request[d]
    <3>1. PICK b : b = TRUE
      OBVIOUS
    <3>2. SessionTypes /\ Session!Begin(c, "find", b, k, n)
      BY <1>5, <3>1 DEF SessionInv
    <3>3. /\ Session!At(c)' = "find" /\ Session!Mine(c)' = n /\ Session!Of(c)' = k
          /\ request'[c].browser = b /\ \A d \in Client \ {c} : request'[d] = request[d]
      BY <3>2, RequestRecords
    <3> QED
      BY <3>1, <3>3
  <2>2. disturbed \subseteq disturbed' /\ (k \notin disturbed' => Session!Busy(k) = {})
    BY <1>5 DEF Session!Begin
  <2>3. LoginTypes'
    BY <1>3, <1>5, LoginTypesKept DEF LiveInv, Session!Issued
  <2>4. AtWork(c)'
    BY <1>2, <1>3, <2>1 DEF AtWork, Owned, Session!Issued
  <2>5. ASSUME k \notin disturbed' PROVE Sole(k)'
    <3>1. Sole(k) /\ Session!Busy(k)' = {c} /\ Session!Busy(k) = {}
      BY <1>2, <2>1, <2>2, <2>5, SoleStep
    <3>2. Live(k)' = {n}
      BY <1>1, <1>2, <1>3, <3>1 DEF Sole
    <3> QED
      BY <1>3, <1>5, <2>1, <3>1, <3>2 DEF Sole
  <2> QED
    BY <1>2, <1>3, <1>5, <2>1, <2>2, <2>3, <2>4, <2>5, OneLoginInv
<1> QED
  BY <1>1, <1>4, <1>5 DEF Session!SessionRefresh

-----------------------------------------------------------------------------
(* The steps of a logout.                                                  *)

LEMMA LogoutLive ==
  ASSUME SessionInv, SessionBounds, LiveInv, NEW c \in Client, NEW n \in Session!Token,
         Session!Logout(c, n)
  PROVE  LiveInv'
<1>1. PICK k : k = rows[n].login
  OBVIOUS
<1>2. /\ n \in Session!Issued /\ k \in DOMAIN logins /\ ~logins[k] /\ Owned(n, k)
      /\ logins[k] \in BOOLEAN /\ k \in Session!Login
  <2>1. n \in Session!Issued /\ ~logins[k]
    BY <1>1 DEF Session!Logout, Session!Held
  <2> QED
    BY <1>1, <2>1, LoginFacts DEF LiveInv, LoginTypes, Owned, SessionInv
<1>3. /\ rows' = [rows EXCEPT ![n].revoked = TRUE] /\ logins' = logins /\ session' = session
      /\ ended' = ended /\ Session!Begin(c, "list", FALSE, k, n) /\ Session!At(c) = "idle"
  BY <1>1 DEF Session!Logout, Session!past
<1>4. KeepLogins /\ Session!Issued' = Session!Issued /\ \A l : Live(l)' = Live(l) \ {n}
  BY <1>3, RowMarked DEF SessionInv
<1>5. /\ Session!At(c)' = "list" /\ Session!Mine(c)' = n /\ Session!Of(c)' = k
      /\ request'[c].browser = FALSE /\ \A d \in Client \ {c} : request'[d] = request[d]
  BY <1>3, RequestRecords DEF SessionInv
<1>6. disturbed \subseteq disturbed' /\ (k \notin disturbed' => Session!Busy(k) = {})
  BY <1>3 DEF Session!Begin
<1>7. LoginTypes'
  BY <1>3, <1>4, LoginTypesKept DEF LiveInv
<1>8. AtWork(c)'
  BY <1>2, <1>3, <1>5 DEF AtWork
<1>9. \A l \in DOMAIN logins \ {k} : Live(l)' = Live(l)
  BY <1>1, <1>4 DEF Live
<1>10. ASSUME k \notin disturbed' PROVE Sole(k)'
  <2>1. Sole(k) /\ Session!Busy(k)' = {c} /\ session[k] = NoSession
    BY <1>2, <1>5, <1>6, <1>10, SoleStep DEF LiveInv, LoginTypes
  <2> QED
    BY <1>3, <1>4, <1>5, <2>1 DEF Sole
<1> QED
  BY <1>3, <1>4, <1>5, <1>6, <1>7, <1>8, <1>9, <1>10, OneLoginInv

LEMMA ListLive ==
  ASSUME SessionInv, SessionBounds, LiveInv, NEW c \in Client,
         Session!BlacklistAccessToken(c) \/ Session!InsertRevoked(c)
  PROVE  LiveInv'
<1>1. PICK k : k = Session!Of(c)
  OBVIOUS
<1>2. /\ k \in DOMAIN logins /\ k \in Session!Login /\ c \in Session!Busy(k)
      /\ request[c].browser = logins[k] /\ ~request[c].browser
  BY <1>1, OwnStep, LoginFacts DEF SessionInv, LiveInv, AtWork, Session!BlacklistAccessToken, Session!InsertRevoked
<1>3. /\ logins' = logins /\ ended' = ended /\ disturbed' = disturbed /\ session' = session /\ rows' = rows
  BY DEF Session!BlacklistAccessToken, Session!InsertRevoked, Session!tokens, Session!past
<1>4. KeepLogins /\ \A l : Live(l)' = Live(l)
  BY <1>3, SameRows
<1>5. /\ \A d \in Client \ {c} : request'[d] = request[d]
      /\ \/ Session!At(c)' = "idle"
         \/ Session!At(c)' = "insert" /\ Session!Of(c)' = k /\ request'[c].browser = request[c].browser
  BY <1>1, RequestRecords DEF Session!BlacklistAccessToken, Session!InsertRevoked, SessionInv
<1>6. LoginTypes' /\ AtWork(c)'
  BY <1>2, <1>3, <1>4, <1>5, LoginTypesKept DEF LiveInv, Session!Issued, AtWork
<1>7. ASSUME k \notin disturbed' PROVE Sole(k)'
  <2>1. /\ Sole(k)
        /\ Session!At(c)' = "idle" => Session!Busy(k)' = {}
        /\ Session!At(c)' # "idle" /\ Session!Of(c)' = k => Session!Busy(k)' = {c}
    BY <1>2, <1>3, <1>5, <1>7, SoleStep
  <2>2. session[k] = NoSession
    BY <1>2 DEF LiveInv, LoginTypes
  <2> QED
    BY <1>3, <1>4, <1>5, <2>1, <2>2 DEF Sole
<1> QED
  BY <1>1, <1>3, <1>4, <1>5, <1>6, <1>7, OneLoginInv

LEMMA SessionLogoutLive ==
  ASSUME SessionInv, SessionBounds, LiveInv, NEW k \in Session!Login, Session!SessionLogout(k)
  PROVE  LiveInv'
<1>1. /\ k \in DOMAIN logins /\ logins' = logins /\ rows' = rows /\ request' = request
      /\ ended' = ended \cup {k} /\ Session!Meets(k)
      /\ session'[k] = NoSession /\ \A l \in Session!Login \ {k} : session'[l] = session[l]
  BY DEF Session!SessionLogout, Session!tokens, SessionInv, SessionTypes
<1>2. /\ KeepLogins /\ (\A l : Live(l)' = Live(l)) /\ \A l \in DOMAIN logins : l \in Session!Login
  BY <1>1, SameRows, LoginFacts DEF LiveInv, SessionInv
<1>3. LoginTypes' /\ \A c \in Client : AtWork(c)'
  BY <1>1, <1>2 DEF LiveInv, LoginTypes, AtWork, Owned, Session!Issued, Session!At, Session!Of, Session!Mine
<1>4. /\ disturbed \subseteq disturbed' /\ (k \notin disturbed' => Session!Busy(k) = {})
      /\ \A l : Session!Busy(l)' = Session!Busy(l)
  BY <1>1 DEF Session!Meets, Session!Busy, Session!At, Session!Of
<1>5. ASSUME NEW l \in DOMAIN logins, l \notin disturbed' PROVE Sole(l)'
  <2>1. Sole(l)
    BY <1>4, <1>5 DEF LiveInv
  <2>2. CASE l = k
    BY <1>1, <1>2, <1>4, <1>5, <2>1, <2>2 DEF Sole
  <2>3. CASE l # k
    BY <1>1, <1>2, <1>4, <2>1, <2>3 DEF Sole, Session!At, Session!Mine
  <2> QED
    BY <2>2, <2>3
<1> QED
  BY <1>1, <1>3, <1>5 DEF LiveInv

-----------------------------------------------------------------------------
(* The other steps.                                                        *)

\* A new login is its own: nothing of it was there before.
LEMMA LogInLive ==
  ASSUME SessionInv, SessionBounds, LiveInv, NEW browser \in BOOLEAN, Session!LogIn(browser)
  PROVE  LiveInv'
<1>1. PICK k, m, past : k = Len(logins) + 1 /\ m = Len(rows') /\ past = logins
  OBVIOUS
<1>2. /\ past \in Seq(BOOLEAN) /\ Len(past) \in Nat /\ k \in Nat /\ MaxLogins \in Nat /\ Len(past) < MaxLogins
      /\ logins' = Append(past, browser)
  BY <1>1 DEF Session!LogIn, SessionInv, SessionTypes, SessionBounds
<1>3. /\ DOMAIN logins = 1..Len(past) /\ Len(logins') = k /\ k <= MaxLogins
      /\ k \notin DOMAIN logins /\ DOMAIN logins' = DOMAIN logins \cup {k}
      /\ logins'[k] = browser /\ \A l \in DOMAIN logins : logins'[l] = logins[l]
  BY <1>1, <1>2
<1>4. /\ request' = request /\ ended' = ended /\ disturbed' = disturbed
      /\ rows' = Append(rows, Session!NewRow(k))
      /\ session' = IF browser THEN [session EXCEPT ![k] = Session!NewSession(m)] ELSE session
  BY <1>1, <1>3 DEF Session!LogIn, Session!past
<1>5. /\ m \notin Session!Issued /\ Session!Issued' = Session!Issued \cup {m}
      /\ rows'[m].login = k /\ KeepLogins /\ Live(k)' = Live(k) \cup {m}
      /\ \A j : j # k => Live(j)' = Live(j)
  <2>1. rows' = Append(rows, Session!NewRow(k)) /\ k \in Nat /\ SessionTypes
    BY <1>2, <1>4 DEF SessionInv
  <2> QED
    BY <1>1, <2>1, RowAdded
<1>6. /\ Live(k) = {} /\ k \notin ended /\ k \in Session!Login
      /\ session[k] = NoSession /\ \A c \in Client : Session!At(c) = "idle" \/ Session!Of(c) # k
  <2>1. k \in Session!Login
    BY <1>1, <1>2 DEF Session!Login
  <2> QED
    BY <1>3, <2>1 DEF LiveInv, LoginTypes, AtWork, Live
<1>7. /\ \A l \in Session!Login \ {k} : session'[l] = session[l]
      /\ session'[k] # NoSession => browser /\ session'[k].token = m
  <2>1. session \in [Session!Login -> SessionType \cup {NoSession}]
    BY DEF SessionInv, SessionTypes
  <2>2. Session!NewSession(m).token = m
    BY DEF Session!NewSession
  <2>3. CASE browser
    BY <1>4, <1>6, <2>1, <2>2, <2>3
  <2>4. CASE ~browser
    BY <1>4, <1>6, <2>4
  <2> QED
    BY <2>3, <2>4
<1>8. LoginTypes'
  <2>1. \A n \in Session!Issued' : rows'[n].login \in DOMAIN logins'
    BY <1>3, <1>5 DEF LiveInv, LoginTypes, KeepLogins
  <2>2. ASSUME NEW l \in Session!Login, session'[l] # NoSession
        PROVE  l \in DOMAIN logins' /\ logins'[l] /\ Owned(session[l].token, l)'
    <3>1. CASE l = k
      BY <1>3, <1>5, <1>7, <2>2, <3>1 DEF Owned
    <3>2. CASE l # k
      BY <1>3, <1>5, <1>7, <2>2, <3>2 DEF Owned, LiveInv, LoginTypes, KeepLogins
    <3> QED
      BY <3>1, <3>2
  <2>3. Len(logins') <= MaxLogins /\ ended' \subseteq DOMAIN logins'
    BY <1>3, <1>4 DEF LiveInv, LoginTypes
  <2> QED
    BY <2>1, <2>2, <2>3 DEF LoginTypes
<1>9. ASSUME NEW c \in Client PROVE AtWork(c)'
  BY <1>3, <1>4, <1>5 DEF LiveInv, AtWork, Owned, KeepLogins, Session!At, Session!Of, Session!Mine
<1>10. \A l : Session!Busy(l)' = Session!Busy(l)
  BY <1>4 DEF Session!Busy, Session!At, Session!Of
<1>11. Sole(k)'
  <2>1. Session!Busy(k)' = {} /\ Live(k)' = {m}
    BY <1>5, <1>6, <1>10 DEF Session!Busy
  <2> QED
    BY <1>4, <1>6, <1>7, <2>1 DEF Sole
<1>12. ASSUME NEW l \in DOMAIN logins, Sole(l) PROVE Sole(l)'
  <2>1. l # k /\ l \in Session!Login
    BY <1>3, LoginFacts DEF SessionInv, LiveInv
  <2>2. Live(l)' = Live(l) /\ session'[l] = session[l] /\ Session!Busy(l)' = Session!Busy(l)
    BY <1>5, <1>7, <1>10, <2>1
  <2> QED
    BY <1>4, <1>12, <2>2 DEF Sole, Session!At, Session!Mine
<1> QED
  BY <1>3, <1>4, <1>8, <1>9, <1>11, <1>12 DEF LiveInv

LEMMA StillLive ==
  ASSUME SessionInv, SessionBounds, LiveInv,
         Session!CleanupBlacklist \/ Session!CleanupSessions \/ Session!Tick \/ UNCHANGED sessionVars
  PROVE  LiveInv'
<1>1. /\ logins' = logins /\ rows' = rows /\ request' = request /\ ended' = ended /\ disturbed' = disturbed
      /\ \A l \in Session!Login : session'[l] = session[l] \/ session'[l] = NoSession
  BY DEF Session!CleanupBlacklist, Session!CleanupSessions, Session!Tick, Session!tokens, Session!past, sessionVars
<1>2. /\ KeepLogins /\ (\A l : Live(l)' = Live(l)) /\ \A l \in DOMAIN logins : l \in Session!Login
  BY <1>1, SameRows, LoginFacts DEF LiveInv, SessionInv
<1>3. LoginTypes' /\ \A c \in Client : AtWork(c)'
  BY <1>1, <1>2 DEF LiveInv, LoginTypes, AtWork, Owned, Session!Issued, Session!At, Session!Of, Session!Mine
<1>4. \A l : Session!Busy(l)' = Session!Busy(l)
  BY <1>1 DEF Session!Busy, Session!At, Session!Of
<1>5. ASSUME NEW l \in DOMAIN logins, Sole(l) PROVE Sole(l)'
  <2>1. session'[l] = session[l] \/ session'[l] = NoSession
    BY <1>1, <1>2, <1>5
  <2> QED
    BY <1>1, <1>2, <1>4, <1>5, <2>1 DEF Sole, Session!At, Session!Mine
<1> QED
  BY <1>1, <1>3, <1>5 DEF LiveInv

LEMMA RestartLive ==
  ASSUME SessionInv, SessionBounds, LiveInv, Session!Restart
  PROVE  LiveInv'
<1>1. /\ logins' = logins /\ rows' = rows /\ ended' = ended
      /\ disturbed' = disturbed \cup {Session!Of(c) : c \in {c \in Client : Session!At(c) # "idle"}}
      /\ (\A l \in Session!Login : session'[l] = NoSession) /\ \A c \in Client : Session!At(c)' = "idle"
  BY DEF Session!Restart, Session!tokens, Session!Idle, Session!At
<1>2. /\ KeepLogins /\ (\A l : Live(l)' = Live(l)) /\ \A l \in DOMAIN logins : l \in Session!Login
  BY <1>1, SameRows, LoginFacts DEF LiveInv, SessionInv
<1>3. LoginTypes' /\ \A c \in Client : AtWork(c)'
  BY <1>1, <1>2 DEF LiveInv, LoginTypes, AtWork, Session!Issued
<1>4. ASSUME NEW l \in DOMAIN logins, Sole(l) PROVE Sole(l)'
  BY <1>1, <1>2, <1>4 DEF Sole, Session!Busy
<1> QED
  BY <1>1, <1>3, <1>4 DEF LiveInv

LEMMA LiveNext == SessionBounds /\ SessionInv /\ LiveInv /\ [Session!Next]_sessionVars => LiveInv'
<1> SUFFICES ASSUME SessionBounds, SessionInv, LiveInv, [Session!Next]_sessionVars PROVE LiveInv'
  OBVIOUS
<1>1. ASSUME NEW c \in Client,
             \/ Session!Rotation(c) \/ Session!BlacklistAccessToken(c) \/ Session!InsertRevoked(c)
             \/ \E n \in Session!Token : Session!Refresh(c, n) \/ Session!Logout(c, n)
             \/ \E l \in Session!Login : Session!SessionRefresh(c, l)
      PROVE  LiveInv'
  BY <1>1, RefreshLive, RotateLive, CreateLive, UpdateLive, SessionRefreshLive, LogoutLive, ListLive
     DEF Session!Rotation
<1> QED
  BY <1>1, SessionLogoutLive, LogInLive, StillLive, RestartLive DEF Session!Next

LEMMA LiveInit == SessionBounds /\ Session!Init => LiveInv
<1> SUFFICES ASSUME SessionBounds, Session!Init PROVE LiveInv
  OBVIOUS
<1>1. logins = <<>> /\ Len(logins) = 0 /\ DOMAIN logins = {} /\ Session!Issued = {}
  BY DEF Session!Init, Session!Issued
<1>2. \A c \in Client : Session!At(c) = "idle"
  BY DEF Session!Init, Session!At, Session!Idle
<1> QED
  BY <1>1, <1>2 DEF Session!Init, LiveInv, LoginTypes, AtWork, SessionBounds

\* Whatever the rotation of a login's tokens went through, it leaves one that
\* works at most; a session holds that one, and does not come back after its
\* logout.  Only two requests of one login that met, or one that was cut, may
\* leave it otherwise.
THEOREM OneTokenEach ==
  ASSUME SessionBounds
  PROVE  Spec => []OneLiveToken
<1> DEFINE Inv == part = "sessions" => SessionInv /\ LiveInv
<1>1. Init => Inv
  BY SessionInitInv, LiveInit DEF Init
<1>2. Inv /\ [Next]_vars => Inv'
  BY Exercised, SessionNextInv, LiveNext
<1>3. Inv => OneLiveToken
  <2> SUFFICES ASSUME SessionInv, LiveInv, NEW l \in DOMAIN logins, l \notin disturbed, Session!Busy(l) = {}
               PROVE  /\ Cardinality(Live(l)) <= 1
                      /\ session[l] # NoSession => l \notin ended /\ Live(l) = {session[l].token}
    <3>1. \A S : Session!Cardinality(S) = Cardinality(S)
      BY DEF Session!Cardinality, Cardinality
    <3> QED
      BY <3>1 DEF OneLiveToken, Session!OneLiveToken, Live
  <2>1. Sole(l)
    BY DEF LiveInv
  <2>2. Cardinality({}) = 0 /\ \A n : Cardinality({n}) = 1
    BY FS_EmptySet, FS_Singleton
  <2>3. Cardinality(Live(l)) <= 1
    <3>1. CASE Live(l) = {}
      BY <2>2, <3>1
    <3>2. ASSUME NEW n \in Live(l) PROVE Cardinality(Live(l)) <= 1
      <4>1. Live(l) = {n}
        BY <2>1, <3>2 DEF Sole
      <4>2. Cardinality(Live(l)) = 1
        BY <2>2, <4>1, Zenon
      <4> QED
        BY <4>2
    <3> QED
      BY <3>1, <3>2
  <2> QED
    BY <2>1, <2>3 DEF Sole
<1> QED
  BY <1>1, <1>2, <1>3, PTL DEF Spec

-----------------------------------------------------------------------------
(***************************************************************************)
(* Certificates: rows, files and the listener's pair agree.                *)
(***************************************************************************)
CertificateRow ==
  [domain : Certificate!Names, dir : Certificate!Names, cert : Nat, key : Nat \ {0},
   status : {"active", "expiring", "expired", "revoked"}]

CertificatePair == [cert : Nat, key : Nat]

PairTypes == [Certificate!Names -> CertificatePair \cup {NoPair}]

\* No row is not a row, and no pair not a pair.
CertificateParameters ==
  NoRow \notin CertificateRow /\ NoPair \notin CertificatePair /\ MaxRows \in Nat /\ MaxIssued \in Nat

StepsOf(kind) ==
  IF kind = "none" THEN {}
  ELSE IF kind = "revoke" THEN {"row", "notify"} ELSE IF kind = "delete" THEN {"delete", "notify"}
  ELSE IF kind = "view" THEN {"save"} ELSE {"cert", "key", "row", "notify"}

OperationRecord ==
  [at : {"idle", "cert", "key", "row", "delete", "notify", "save"}, id : Nat,
   kind : {"none", "request", "renew", "revoke", "delete", "upload", "view"},
   row : CertificateRow \cup {NoRow}]

\* An operation when n certificates are issued.
Operation(o, n) ==
  /\ o \in OperationRecord
  /\ o = Certificate!Idle \/ /\ o.at # "idle" /\ o.at \in StepsOf(o.kind)
                             /\ o.row \in CertificateRow /\ o.row.cert \in 1..n

\* A row with the id was made.
Known(id) == id \in Certificate!Id /\ id < nextRow

OperationTypes ==
  /\ Operation(op, issued) /\ op.kind \in {"none", "request", "renew", "revoke", "delete"}
  /\ op.kind \in {"renew", "revoke", "delete"} => Known(op.id)
  /\ Operation(upload, issued) /\ upload.kind \in {"none", "upload"}
  /\ Operation(view, issued) /\ view.kind \in {"none", "view"}
  /\ view.kind = "view" => Known(view.id)

RowTypes ==
  /\ certificates \in [Certificate!Id -> CertificateRow \cup {NoRow}]
  /\ \A i \in Certificate!Present : certificates[i].cert \in 1..issued /\ i < nextRow
  /\ nextRow \in Nat /\ nextRow >= 1

CertificateTypes ==
  /\ issued \in Nat /\ issued <= MaxIssued /\ keyOf \in [Certificate!Cert -> Nat]
  /\ age \in [Certificate!Cert -> {"valid", "due", "expired"}]
  /\ files \in PairTypes
  /\ RowTypes /\ OperationTypes

\* The files in directory d are those of its row.
Agrees(d) ==
  /\ \A i \in Certificate!Of(d) : files[d] = Certificate!Pair(certificates[i])
  /\ Certificate!Of(d) = {} => files[d] = NoPair

\* A request or an upload that writes to d.
MakesNew(o, d) ==
  IF o.at = "notify" THEN Agrees(d)
  ELSE /\ Certificate!Of(d) = {}
       /\ o.at = "cert" => files[d] = NoPair
       /\ o.at = "key" => files[d] # NoPair /\ files[d].cert = o.row.cert
       /\ o.at = "row" => files[d] = Certificate!Pair(o.row)

\* An operation on the row whose directory is d.
Changes(o, d) ==
  IF o.at = "notify" THEN Agrees(d)
  ELSE /\ o.id \in Certificate!Of(d)
       /\ o.at = "cert" => Agrees(d)
       /\ o.kind = "renew" => files[d] # NoPair /\ files[d].key = o.row.key
       /\ o.at = "key" => files[d].cert = o.row.cert
       /\ o.kind = "renew" /\ o.at = "row" => files[d] = Certificate!Pair(o.row)
       /\ o.kind = "revoke" => Agrees(d) /\ Certificate!Pair(o.row) = Certificate!Pair(certificates[o.id])
       /\ o.kind = "delete" => files[d] = NoPair

Works(o, d) == o.at # "idle" /\ o.row.dir = d

\* A directory has one row and one writer, and files as far as that one got.
Stands(d) ==
  /\ \A i, j \in Certificate!Of(d) : i = j
  /\ Works(op, d) => IF op.kind = "request" THEN MakesNew(op, d) ELSE Changes(op, d)
  /\ Works(upload, d) => MakesNew(upload, d)
  /\ Works(op, d) => ~Works(upload, d)
  /\ Works(op, d) \/ Works(upload, d) \/ Agrees(d)

\* The listener is to be told.
Stale == op.at = "notify" \/ upload.at = "notify" \/ (op.kind = "renew" /\ op.at \in {"key", "row"})

ListenerInv ==
  cached # NoPair /\ ~Stale =>
    Certificate!Present # {} /\ cached = Certificate!Pair(certificates[Certificate!Newest])

CertificateInv ==
  CertificateTypes /\ (certDisturbed \/ ((\A d \in Certificate!Names : Stands(d)) /\ ListenerInv))

-----------------------------------------------------------------------------
(* Operations, rows and keys.                                              *)

LEMMA IdleOperation ==
  /\ \A n : Operation(Certificate!Idle, n)
  /\ Certificate!Idle.at = "idle" /\ Certificate!Idle.kind = "none"
BY DEF Certificate!Idle, Operation, OperationRecord

LEMMA OperationBegins ==
  ASSUME NEW n \in Nat, NEW id \in Nat,
         NEW kind \in {"request", "renew", "revoke", "delete", "upload", "view"}, NEW at \in StepsOf(kind),
         NEW row \in CertificateRow, row.cert \in 1..n
  PROVE  \E o : /\ o = Certificate!Begin(kind, at, id, row) /\ Operation(o, n)
                /\ o.at = at /\ o.at # "idle" /\ o.kind = kind /\ o.id = id /\ o.row = row
<1>1. at \in {"cert", "key", "row", "delete", "notify", "save"}
  BY DEF StepsOf
<1>2. PICK o : o = [at |-> at, kind |-> kind, id |-> id, row |-> row]
  OBVIOUS
<1>3. o \in OperationRecord /\ o.at = at /\ o.at # "idle" /\ o.kind = kind /\ o.id = id /\ o.row = row
  BY <1>1, <1>2 DEF OperationRecord
<1>4. o = Certificate!Begin(kind, at, id, row)
  BY <1>2 DEF Certificate!Begin
<1> QED
  BY <1>3, <1>4 DEF Operation

LEMMA OperationGoes ==
  ASSUME NEW n, NEW o, Operation(o, n), o.at # "idle", NEW at \in StepsOf(o.kind)
  PROVE  \E p : /\ p = [o EXCEPT !.at = at] /\ Operation(p, n)
                /\ p.at = at /\ p.at # "idle" /\ p.kind = o.kind /\ p.id = o.id /\ p.row = o.row
<1>1. at \in {"cert", "key", "row", "delete", "notify", "save"}
  BY DEF StepsOf
<1>2. PICK p : p = [o EXCEPT !.at = at]
  OBVIOUS
<1>3. /\ p \in OperationRecord /\ p.at = at /\ p.at # "idle" /\ p.kind = o.kind /\ p.id = o.id
      /\ p.row = o.row
  BY <1>1, <1>2 DEF Operation, OperationRecord
<1>4. o.row \in CertificateRow /\ o.row.cert \in 1..n
  BY IdleOperation DEF Operation
<1> QED
  BY <1>2, <1>3, <1>4 DEF Operation

LEMMA OperationKept ==
  ASSUME NEW n \in Nat, NEW m \in Nat, n <= m, NEW o, Operation(o, n)
  PROVE  Operation(o, m)
BY DEF Operation

\* What an operation at work is about.
LEMMA OperationFacts ==
  ASSUME NEW n, NEW o, Operation(o, n)
  PROVE  /\ o.at = "idle" <=> o = Certificate!Idle
         /\ o.at # "idle" => /\ o.row \in CertificateRow /\ o.row.cert \in 1..n /\ o.row.dir \in Certificate!Names
                             /\ o.at \in StepsOf(o.kind) /\ o.id \in Nat /\ o.row.cert \in Nat
                             /\ o.row.key \in Nat
BY IdleOperation DEF Operation, OperationRecord, CertificateRow

LEMMA PresentFacts ==
  ASSUME CertificateParameters, RowTypes, NEW i \in Certificate!Present
  PROVE  /\ i \in Certificate!Id /\ i \in Nat /\ Known(i) /\ certificates[i] \in CertificateRow
         /\ certificates[i].dir \in Certificate!Names /\ certificates[i].cert \in 1..issued
         /\ i \in Certificate!Of(certificates[i].dir)
BY DEF RowTypes, Known, CertificateRow, Certificate!Present, Certificate!Of, Certificate!Id, CertificateParameters

LEMMA Greatest ==
  ASSUME NEW n \in Nat, NEW S, S \subseteq 1..n, S # {}
  PROVE  \E x \in S : \A y \in S : x >= y
<1> DEFINE R == OpToRel(<, Nat)
           T == {n - x : x \in S}
<1>1. IsWellFoundedOn(R, Nat)
  BY NatLessThanWellFounded
<1>2. \A x, y \in Nat : x < y => <<x, y>> \in R
  BY DEF OpToRel
<1>3. \A x \in S : x \in Nat /\ n - x \in Nat
  OBVIOUS
<1>4. T \subseteq Nat /\ T # {}
  BY <1>3
<1> HIDE DEF R
<1>5. PICK t \in T : \A u \in T : ~(<<u, t>> \in R)
  BY <1>1, <1>4, WFMin
<1>6. PICK x \in S : t = n - x
  BY <1>5
<1>7. ASSUME NEW y \in S PROVE x >= y
  <2>1. n - y \in T /\ n - y \in Nat /\ n - x \in Nat /\ x \in Nat /\ y \in Nat
    BY <1>3
  <2>2. ~(n - y < n - x)
    BY <1>2, <1>5, <1>6, <2>1
  <2> QED
    BY <2>1, <2>2
<1> QED
  BY <1>7

\* There is a row that expires last.
LEMMA NewestFacts ==
  ASSUME CertificateTypes, CertificateParameters, Certificate!Present # {}
  PROVE  Certificate!Newest \in Certificate!Present
<1>1. PICK r, n, P : r = certificates /\ n = issued /\ P = Certificate!Present
  OBVIOUS
<1>2. n \in Nat /\ \A i \in P : r[i].cert \in 1..n
  BY <1>1 DEF CertificateTypes, RowTypes
<1>3. {r[i].cert : i \in P} \subseteq 1..n /\ {r[i].cert : i \in P} # {}
  BY <1>1, <1>2
<1>4. PICK x \in {r[i].cert : i \in P} : \A y \in {r[i].cert : i \in P} : x >= y
  BY <1>2, <1>3, Greatest
<1>5. \E i \in P : \A j \in P : r[i].cert >= r[j].cert
  BY <1>4
<1>6. (CHOOSE i \in P : \A j \in P : r[i].cert >= r[j].cert) \in P
  BY <1>5
<1> QED
  BY <1>1, <1>6 DEF Certificate!Newest

-----------------------------------------------------------------------------
(* What a step leaves as it is.                                            *)

IssuedGrows == issued \in Nat /\ issued' \in Nat /\ issued <= issued' /\ issued' <= MaxIssued

\* The rows with directory d tell of the pairs they told of.
RowsKept(d) ==
  /\ Certificate!Of(d)' = Certificate!Of(d)
  /\ \A i \in Certificate!Of(d) : Certificate!Pair(certificates[i])' = Certificate!Pair(certificates[i])

LEMMA AgreesKept ==
  ASSUME CertificateParameters, CertificateTypes, IssuedGrows, NEW d \in Certificate!Names, RowsKept(d),
         files'[d] = files[d], Agrees(d)
  PROVE  Agrees(d)'
BY DEF Agrees, RowsKept

LEMMA StandsKept ==
  ASSUME CertificateParameters, CertificateTypes, IssuedGrows, NEW d \in Certificate!Names, RowsKept(d),
         files'[d] = files[d], Stands(d),
         op' = op \/ (~Works(op, d) /\ ~Works(op, d)'),
         upload' = upload \/ (~Works(upload, d) /\ ~Works(upload, d)')
  PROVE  Stands(d)'
<1>1. Agrees(d) => Agrees(d)'
  BY AgreesKept
<1>2. \A row : Certificate!Pair(row)' = Certificate!Pair(row)
  BY DEF Certificate!Pair
<1>3. ASSUME Works(op, d), op' = op
      PROVE  IF op'.kind = "request" THEN MakesNew(op, d)' ELSE Changes(op, d)'
  <2>1. PICK o : o = op
    OBVIOUS
  <2>2. Certificate!Pair(o.row)' = Certificate!Pair(o.row)
    BY <1>2
  <2>3. MakesNew(o, d) => MakesNew(o, d)'
    BY <1>1, <2>2 DEF MakesNew, RowsKept
  <2>4. Changes(o, d) => Changes(o, d)'
    BY <1>1, <2>2 DEF Changes, RowsKept
  <2> QED
    BY <1>3, <2>1, <2>3, <2>4 DEF Stands, MakesNew, Changes
<1>4. ASSUME Works(upload, d), upload' = upload
      PROVE  MakesNew(upload, d)'
  <2>1. PICK o : o = upload
    OBVIOUS
  <2>2. Certificate!Pair(o.row)' = Certificate!Pair(o.row)
    BY <1>2
  <2>3. MakesNew(o, d) => MakesNew(o, d)'
    BY <1>1, <2>2 DEF MakesNew, RowsKept
  <2> QED
    BY <1>4, <2>1, <2>3 DEF Stands, MakesNew
<1>5. \A i, j \in Certificate!Of(d)' : i = j
  BY DEF Stands, RowsKept
<1> QED
  BY <1>1, <1>3, <1>4, <1>5 DEF Stands, Works

LEMMA ListenerKept ==
  ASSUME CertificateParameters, CertificateTypes, IssuedGrows, ListenerInv,
         Certificate!Present' = Certificate!Present,
         \A i \in Certificate!Present :
           Certificate!Pair(certificates[i])' = Certificate!Pair(certificates[i]),
         cached' = NoPair \/ (cached' = cached /\ (Stale => Stale'))
  PROVE  ListenerInv'
<1> SUFFICES ASSUME cached' # NoPair, ~Stale'
             PROVE  /\ Certificate!Present' # {}
                    /\ cached' = Certificate!Pair(certificates[Certificate!Newest])'
  BY DEF ListenerInv
<1>1. cached' = cached /\ Certificate!Present # {} /\ cached = Certificate!Pair(certificates[Certificate!Newest])
  BY DEF ListenerInv
<1>2. \A i \in Certificate!Present : certificates'[i].cert = certificates[i].cert
  BY DEF Certificate!Pair
<1>3. Certificate!Newest' = Certificate!Newest
  BY <1>2 DEF Certificate!Newest
<1>4. PICK i : i = Certificate!Newest
  OBVIOUS
<1>5. i \in Certificate!Present
  BY <1>1, <1>4, NewestFacts
<1>6. Certificate!Pair(certificates[i])' = Certificate!Pair(certificates[i])
  BY <1>5
<1> QED
  BY <1>1, <1>3, <1>4, <1>6 DEF Certificate!Pair

\* A step that is about domain d only.
Apart(e) ==
  /\ RowsKept(e) /\ files'[e] = files[e]
  /\ op' = op \/ (~Works(op, e) /\ ~Works(op, e)')
  /\ upload' = upload \/ (~Works(upload, e) /\ ~Works(upload, e)')

LEMMA OneDomain ==
  ASSUME CertificateParameters, CertificateInv, IssuedGrows, CertificateTypes', NEW d,
         certDisturbed => certDisturbed',
         ~certDisturbed' => /\ \A e \in Certificate!Names \ {d} : Apart(e)
                            /\ d \in Certificate!Names => Stands(d)'
                            /\ ListenerInv'
  PROVE  CertificateInv'
<1> SUFFICES ASSUME ~certDisturbed' PROVE (\A e \in Certificate!Names : Stands(e)) '
  BY DEF CertificateInv
<1>1. ASSUME NEW e \in Certificate!Names \ {d} PROVE Stands(e)'
  BY <1>1, StandsKept DEF CertificateInv, Apart
<1> QED
  BY <1>1

LEMMA OperationsKept ==
  ASSUME CertificateTypes, IssuedGrows
  PROVE  Operation(op, issued') /\ Operation(upload, issued') /\ Operation(view, issued')
<1>1. PICK n, m, o, u, v : n = issued /\ m = issued' /\ o = op /\ u = upload /\ v = view
  OBVIOUS
<1>2. n \in Nat /\ m \in Nat /\ n <= m /\ Operation(o, n) /\ Operation(u, n) /\ Operation(v, n)
  BY <1>1 DEF IssuedGrows, CertificateTypes, OperationTypes
<1>3. Operation(o, m) /\ Operation(u, m) /\ Operation(v, m)
  BY <1>2, OperationKept
<1> QED
  BY <1>1, <1>3

LEMMA RowTypesKept ==
  ASSUME CertificateTypes, IssuedGrows, certificates' = certificates, nextRow' = nextRow
  PROVE  RowTypes'
BY DEF CertificateTypes, RowTypes, IssuedGrows, Certificate!Present

LEMMA OperationWorks ==
  ASSUME CertificateParameters, CertificateTypes
  PROVE  /\ op.at = "idle" <=> op = Certificate!Idle
         /\ upload.at = "idle" <=> upload = Certificate!Idle
         /\ op.at # "idle" => op.row \in CertificateRow /\ op.row.cert \in 1..issued /\ op.row.cert \in Nat
                               /\ op.row.dir \in Certificate!Names /\ op.at \in StepsOf(op.kind)
         /\ upload.at # "idle" => upload.row \in CertificateRow /\ upload.row.cert \in 1..issued
                               /\ upload.row.cert \in Nat
                               /\ upload.row.dir \in Certificate!Names /\ upload.at \in StepsOf("upload")
         /\ view.at # "idle" => view.row \in CertificateRow /\ view.row.cert \in 1..issued
                               /\ view.at = "save" /\ view.kind = "view" /\ Known(view.id)
<1>1. PICK n, o, u, v : n = issued /\ o = op /\ u = upload /\ v = view
  OBVIOUS
<1>2. Operation(o, n) /\ Operation(u, n) /\ Operation(v, n)
  BY <1>1 DEF CertificateTypes, OperationTypes
<1>3. /\ o.at = "idle" <=> o = Certificate!Idle
      /\ o.at # "idle" => o.row \in CertificateRow /\ o.row.cert \in 1..n /\ o.row.dir \in Certificate!Names
                          /\ o.at \in StepsOf(o.kind) /\ o.row.cert \in Nat
      /\ u.at = "idle" <=> u = Certificate!Idle
      /\ u.at # "idle" => u.row \in CertificateRow /\ u.row.cert \in 1..n /\ u.row.dir \in Certificate!Names
                          /\ u.at \in StepsOf(u.kind) /\ u.row.cert \in Nat
      /\ v.at # "idle" => v.row \in CertificateRow /\ v.row.cert \in 1..n /\ v.at \in StepsOf(v.kind)
  BY <1>2, OperationFacts
<1>4. u.at # "idle" => u.kind = "upload"
  BY <1>1, <1>3 DEF CertificateTypes, OperationTypes, Operation, StepsOf
<1>5. v.at # "idle" => v.at = "save" /\ v.kind = "view" /\ Known(v.id)
  BY <1>1, <1>3 DEF CertificateTypes, OperationTypes, Operation, StepsOf
<1> QED
  BY <1>1, <1>3, <1>4, <1>5

-----------------------------------------------------------------------------
(* Operations begin.                                                       *)

LEMMA BeginsInv ==
  ASSUME CertificateParameters, CertificateInv, IssuedGrows, op = Certificate!Idle,
         keyOf' \in [Certificate!Cert -> Nat], age' = age,
         NEW kind \in {"request", "renew", "revoke", "delete"}, NEW at \in StepsOf(kind), at # "notify",
         NEW id \in Nat, kind # "request" => Known(id),
         NEW row \in CertificateRow, row.cert \in 1..issued',
         op' = Certificate!Begin(kind, at, id, row),
         files' \in PairTypes,
         \A e \in Certificate!Names \ {row.dir} : files'[e] = files[e],
         certDisturbed => certDisturbed', ~certDisturbed' => Certificate!Writers(row.dir) = {},
         UNCHANGED <<certificates, nextRow, cached, upload, view>>,
         ~certDisturbed' /\ Agrees(row.dir) /\ (\A i, j \in Certificate!Of(row.dir) : i = j) =>
           (IF kind = "request" THEN MakesNew(op, row.dir) ELSE Changes(op, row.dir))'
  PROVE  CertificateInv'
<1>1. PICK d, m : d = row.dir /\ m = issued'
  OBVIOUS
<1>2. d \in Certificate!Names /\ m \in Nat
  BY <1>1 DEF CertificateRow, IssuedGrows
<1>3. PICK o : /\ o = op' /\ Operation(o, m) /\ o.at = at /\ o.at # "idle" /\ o.kind = kind /\ o.id = id
               /\ o.row = row
  BY <1>1, <1>2, OperationBegins
<1>4. CertificateTypes
  BY DEF CertificateInv
<1>5. CertificateTypes'
  BY <1>1, <1>2, <1>3, <1>4, OperationsKept, RowTypesKept
     DEF CertificateTypes, OperationTypes, IssuedGrows, Known
<1>6. ASSUME ~certDisturbed'
      PROVE  /\ \A e \in Certificate!Names \ {d} : Apart(e)
             /\ d \in Certificate!Names => Stands(d)'
             /\ ListenerInv'
  <2>1. ~Works(upload, d) /\ ~certDisturbed /\ op.at = "idle"
    BY <1>1, <1>4, <1>6, OperationWorks DEF Certificate!Writers, Works
  <2>2. Stands(d) /\ ListenerInv /\ Agrees(d)
    BY <1>2, <2>1 DEF CertificateInv, Stands, Works
  <2>3. Certificate!Of(d)' = Certificate!Of(d)
    BY DEF Certificate!Of, Certificate!Present
  <2>4. Stands(d)'
    BY <1>1, <1>3, <1>6, <2>1, <2>2, <2>3 DEF Stands, Works
  <2>5. \A e \in Certificate!Names \ {d} : Apart(e)
    BY <1>1, <1>3, <2>1
       DEF Apart, RowsKept, Works, Certificate!Of, Certificate!Present, Certificate!Pair
  <2>6. Stale => Stale'
    BY <2>1 DEF Stale
  <2>7. ListenerInv'
    BY <1>4, <2>2, <2>6, ListenerKept DEF Certificate!Present, Certificate!Pair
  <2> QED
    BY <2>4, <2>5, <2>7
<1> QED
  BY <1>5, <1>6, OneDomain

LEMMA IssueFacts ==
  ASSUME CertificateParameters, CertificateTypes, issued < MaxIssued, NEW k \in Nat, Certificate!Issue(k)
  PROVE  /\ IssuedGrows /\ issued' = issued + 1 /\ issued' \in Nat /\ age' = age
         /\ keyOf' \in [Certificate!Cert -> Nat]
         /\ \A n, d \in Certificate!Names : \A k0 \in Nat \ {0} :
              \E row : /\ row = Certificate!NewRow(n, d, k0) /\ row \in CertificateRow
                       /\ row.cert = issued + 1 /\ row.dir = d /\ row.key = k0
<1>1. issued \in Nat /\ issued + 1 \in Nat /\ issued + 1 \in Certificate!Cert /\ issued' = issued + 1
      /\ keyOf \in [Certificate!Cert -> Nat] /\ keyOf' = [keyOf EXCEPT ![issued + 1] = k]
  BY DEF CertificateTypes, CertificateParameters, Certificate!Issue, Certificate!Cert
<1>2. keyOf' \in [Certificate!Cert -> Nat]
  BY <1>1
<1>3. IssuedGrows
  BY <1>1 DEF IssuedGrows, CertificateParameters
<1>4. ASSUME NEW n \in Certificate!Names, NEW d \in Certificate!Names, NEW k0 \in Nat \ {0}
      PROVE  \E row : /\ row = Certificate!NewRow(n, d, k0) /\ row \in CertificateRow
                      /\ row.cert = issued + 1 /\ row.dir = d /\ row.key = k0
  <2>1. PICK c, row : /\ c = issued + 1
                      /\ row = [domain |-> n, dir |-> d, cert |-> c, key |-> k0, status |-> "active"]
    OBVIOUS
  <2>2. c \in Nat /\ row \in CertificateRow /\ row.cert = c /\ row.dir = d /\ row.key = k0
    BY <1>1, <2>1 DEF CertificateRow
  <2>3. row = Certificate!NewRow(n, d, k0)
    BY <2>1 DEF Certificate!NewRow
  <2> QED
    BY <2>1, <2>2, <2>3
<1> QED
  BY <1>1, <1>2, <1>3, <1>4 DEF Certificate!Issue

LEMMA RequestCertificateInv ==
  ASSUME CertificateParameters, CertificateInv, NEW d \in Certificate!Names, Certificate!RequestCertificate(d)
  PROVE  CertificateInv'
<1>1. /\ op = Certificate!Idle /\ issued < MaxIssued /\ CertificateTypes
      /\ Certificate!Issue(issued + 1)
      /\ op' = Certificate!Begin("request", "cert", 0, Certificate!NewRow(d, d, issued + 1))
      /\ certDisturbed' = (certDisturbed \/ Certificate!Writers(d) # {} \/ Certificate!Of(d) # {})
      /\ UNCHANGED <<certificates, nextRow, files, cached, upload, view>>
  BY DEF Certificate!RequestCertificate, CertificateInv
<1>2. PICK k : k = issued + 1 /\ k \in Nat /\ k \in Nat \ {0} /\ issued \in Nat
  BY <1>1 DEF CertificateTypes
<1>3. IssuedGrows /\ issued' = issued + 1 /\ age' = age /\ issued' \in Nat /\ keyOf' \in [Certificate!Cert -> Nat]
  BY <1>1, <1>2, IssueFacts
<1>4. PICK row : /\ row = Certificate!NewRow(d, d, k) /\ row \in CertificateRow
                 /\ row.cert = issued + 1 /\ row.dir = d
  BY <1>1, <1>2, IssueFacts
<1>5. row.cert \in 1..issued'
  BY <1>2, <1>3, <1>4
<1>6. ~certDisturbed' /\ Agrees(d) => MakesNew(op, d)'
  <2>1. op'.at = "cert" /\ Certificate!Of(d)' = Certificate!Of(d)
    BY <1>1 DEF Certificate!Begin, Certificate!Of, Certificate!Present
  <2> QED
    BY <1>1, <2>1 DEF Agrees, MakesNew
<1>7. "cert" \in StepsOf("request") /\ 0 \in Nat /\ files \in PairTypes
  BY <1>1 DEF StepsOf, CertificateTypes
<1>8. op' = Certificate!Begin("request", "cert", 0, row)
  BY <1>1, <1>2, <1>4
<1>9. /\ files' \in PairTypes /\ \A e \in Certificate!Names \ {row.dir} : files'[e] = files[e]
      /\ certDisturbed => certDisturbed'
      /\ ~certDisturbed' => Certificate!Writers(row.dir) = {}
      /\ ~certDisturbed' /\ Agrees(row.dir) => MakesNew(op, row.dir)'
  BY <1>1, <1>4, <1>6, <1>7
<1> QED
  BY <1>1, <1>3, <1>4, <1>5, <1>7, <1>8, <1>9, BeginsInv

LEMMA RenewCertificateInv ==
  ASSUME CertificateParameters, CertificateInv, NEW i \in Certificate!Id, Certificate!RenewCertificate(i)
  PROVE  CertificateInv'
<1>1. PICK old, d, f, k0 : /\ old = certificates[i] /\ d = old.domain /\ f = files[old.dir]
                            /\ k0 = (IF f.key = 0 THEN issued + 1 ELSE f.key)
  OBVIOUS
<1>2. /\ op = Certificate!Idle /\ i \in Certificate!Present /\ issued < MaxIssued /\ CertificateTypes
      /\ f # NoPair /\ Certificate!Issue(k0)
      /\ op' = Certificate!Begin("renew", "cert", i, Certificate!NewRow(d, d, k0))
      /\ certDisturbed' = (certDisturbed \/ Certificate!Writers(d) # {} \/ old.dir # d)
      /\ UNCHANGED <<certificates, nextRow, files, cached, upload, view>>
  BY <1>1 DEF Certificate!RenewCertificate, CertificateInv
<1>3. /\ old \in CertificateRow /\ d \in Certificate!Names /\ old.dir \in Certificate!Names
      /\ i \in Certificate!Of(old.dir) /\ i \in Nat /\ Known(i) /\ old.key # 0
  BY <1>1, <1>2, PresentFacts DEF CertificateTypes, CertificateRow
<1>4. k0 \in Nat \ {0} /\ k0 \in Nat /\ files \in PairTypes
  <2>1. issued + 1 \in Nat \ {0} /\ files \in PairTypes
    BY <1>2 DEF CertificateTypes
  <2>2. f \in CertificatePair
    BY <1>1, <1>2, <1>3, <2>1 DEF PairTypes
  <2> QED
    BY <1>1, <2>1, <2>2 DEF CertificatePair
<1>5. IssuedGrows /\ issued' = issued + 1 /\ age' = age /\ issued' \in Nat /\ keyOf' \in [Certificate!Cert -> Nat]
  BY <1>2, <1>4, IssueFacts
<1>6. PICK row : /\ row = Certificate!NewRow(d, d, k0) /\ row \in CertificateRow
                 /\ row.cert = issued + 1 /\ row.dir = d /\ row.key = k0
  BY <1>2, <1>3, <1>4, IssueFacts
<1>7. row.cert \in 1..issued'
  BY <1>2, <1>5, <1>6 DEF CertificateTypes
<1>8. RowsKept(d) /\ files'[d] = files[d]
  BY <1>2 DEF RowsKept, Certificate!Of, Certificate!Present, Certificate!Pair
<1>9. ASSUME ~certDisturbed', Agrees(d) PROVE Changes(op, d)'
  <2>1. op'.at = "cert" /\ op'.kind = "renew" /\ op'.id = i /\ op'.row = row
    BY <1>2, <1>6 DEF Certificate!Begin
  <2>2. Agrees(d)'
    BY <1>2, <1>3, <1>5, <1>8, <1>9, AgreesKept
  <2>3. old.dir = d
    BY <1>2, <1>9
  <2>4. files[d] = Certificate!Pair(old)
    BY <1>1, <1>3, <1>9, <2>3 DEF Agrees
  <2>5. files[d].key = row.key
    BY <1>1, <1>3, <1>6, <2>3, <2>4 DEF Certificate!Pair
  <2>6. i \in Certificate!Of(d)'
    BY <1>3, <1>8, <2>3 DEF RowsKept
  <2>7. files'[d] # NoPair /\ files'[d].key = op'.row.key
    BY <1>1, <1>2, <1>8, <2>1, <2>3, <2>5
  <2> QED
    BY <2>1, <2>2, <2>6, <2>7 DEF Changes
<1>10. "cert" \in StepsOf("renew")
  BY DEF StepsOf
<1>11. op' = Certificate!Begin("renew", "cert", i, row)
  BY <1>2, <1>6
<1>12. /\ files' \in PairTypes /\ \A e \in Certificate!Names \ {row.dir} : files'[e] = files[e]
       /\ certDisturbed => certDisturbed'
       /\ ~certDisturbed' => Certificate!Writers(row.dir) = {}
       /\ ~certDisturbed' /\ Agrees(row.dir) => Changes(op, row.dir)'
  BY <1>2, <1>4, <1>6, <1>9
<1> QED
  BY <1>2, <1>3, <1>5, <1>6, <1>7, <1>10, <1>11, <1>12, BeginsInv

LEMMA RevokeCertificateInv ==
  ASSUME CertificateParameters, CertificateInv, NEW i \in Certificate!Id, Certificate!RevokeCertificate(i)
  PROVE  CertificateInv'
<1>1. /\ op = Certificate!Idle /\ i \in Certificate!Present /\ CertificateTypes
      /\ op' = Certificate!Begin("revoke", "row", i, [certificates[i] EXCEPT !.status = "revoked"])
      /\ certDisturbed' = (certDisturbed \/ Certificate!Writers(certificates[i].dir) # {})
      /\ UNCHANGED <<certificates, nextRow, files, cached, issued, keyOf, age, upload, view>>
  BY DEF Certificate!RevokeCertificate, CertificateInv, Certificate!acme
<1>2. PICK old, row : old = certificates[i] /\ row = [old EXCEPT !.status = "revoked"]
  OBVIOUS
<1>3. old \in CertificateRow /\ old.cert \in 1..issued /\ old.dir \in Certificate!Names
      /\ i \in Certificate!Of(old.dir) /\ i \in Nat /\ Known(i)
  BY <1>1, <1>2, PresentFacts DEF CertificateTypes
<1>4. row \in CertificateRow /\ row.cert = old.cert /\ row.dir = old.dir /\ row.key = old.key
  BY <1>2, <1>3 DEF CertificateRow
<1>5. IssuedGrows /\ files \in PairTypes /\ keyOf \in [Certificate!Cert -> Nat]
  BY <1>1 DEF IssuedGrows, CertificateTypes
<1>6. RowsKept(row.dir) /\ files'[row.dir] = files[row.dir]
  BY <1>1 DEF RowsKept, Certificate!Of, Certificate!Present, Certificate!Pair
<1>7. Agrees(row.dir) => Changes(op, row.dir)'
  <2>1. op'.at = "row" /\ op'.kind = "revoke" /\ op'.id = i /\ op'.row = row
    BY <1>1, <1>2 DEF Certificate!Begin
  <2>2. Agrees(row.dir) => Agrees(row.dir)'
    BY <1>1, <1>3, <1>4, <1>5, <1>6, AgreesKept
  <2>3. Certificate!Pair(op.row)' = Certificate!Pair(certificates[op.id])'
    BY <1>1, <1>2, <1>4, <2>1 DEF Certificate!Pair
  <2> QED
    BY <1>3, <1>4, <1>6, <2>1, <2>2, <2>3 DEF Changes, RowsKept
<1>8. "row" \in StepsOf("revoke") /\ row.cert \in 1..issued'
  BY <1>1, <1>3, <1>4 DEF StepsOf
<1>9. op' = Certificate!Begin("revoke", "row", i, row)
  BY <1>1, <1>2
<1>10. /\ files' \in PairTypes /\ \A e \in Certificate!Names \ {row.dir} : files'[e] = files[e]
       /\ certDisturbed => certDisturbed'
       /\ ~certDisturbed' => Certificate!Writers(row.dir) = {}
  BY <1>1, <1>2, <1>4, <1>5
<1> QED
  BY <1>1, <1>3, <1>4, <1>5, <1>7, <1>8, <1>9, <1>10, BeginsInv

LEMMA DeleteCertificateInv ==
  ASSUME CertificateParameters, CertificateInv, NEW i \in Certificate!Id, Certificate!DeleteCertificate(i)
  PROVE  CertificateInv'
<1>1. /\ op = Certificate!Idle /\ i \in Certificate!Present /\ CertificateTypes
      /\ UNCHANGED <<certificates, nextRow, cached, issued, keyOf, age, upload, view>>
  BY DEF Certificate!DeleteCertificate, CertificateInv, Certificate!acme
<1>2. PICK row, f : row = certificates[i] /\ f = files
  OBVIOUS
<1>3. row \in CertificateRow /\ row.cert \in 1..issued /\ row.dir \in Certificate!Names
      /\ i \in Certificate!Of(row.dir) /\ i \in Nat /\ Known(i)
  BY <1>1, <1>2, PresentFacts DEF CertificateTypes
<1>4. IssuedGrows /\ f \in PairTypes /\ keyOf \in [Certificate!Cert -> Nat]
  BY <1>1, <1>2 DEF IssuedGrows, CertificateTypes
<1>5. ASSUME files' = [f EXCEPT ![row.dir] = NoPair], op' = Certificate!Begin("delete", "delete", i, row),
             certDisturbed' = (certDisturbed \/ Certificate!Writers(row.dir) # {})
      PROVE  CertificateInv'
  <2>1. /\ files' \in PairTypes /\ files'[row.dir] = NoPair
        /\ \A e \in Certificate!Names \ {row.dir} : files'[e] = files[e]
    BY <1>2, <1>3, <1>4, <1>5 DEF PairTypes
  <2>2. Changes(op, row.dir)'
    <3>1. op'.at = "delete" /\ op'.kind = "delete" /\ op'.id = i
      BY <1>5 DEF Certificate!Begin
    <3>2. Certificate!Of(row.dir)' = Certificate!Of(row.dir)
      BY <1>1 DEF Certificate!Of, Certificate!Present
    <3> QED
      BY <1>3, <2>1, <3>1, <3>2 DEF Changes
  <2>3. "delete" \in StepsOf("delete") /\ row.cert \in 1..issued'
    BY <1>1, <1>3 DEF StepsOf
  <2>4. (certDisturbed => certDisturbed') /\ (~certDisturbed' => Certificate!Writers(row.dir) = {})
    BY <1>5
  <2> QED
    BY <1>1, <1>3, <1>4, <1>5, <2>1, <2>2, <2>3, <2>4, BeginsInv
<1>6. ASSUME f[row.dir] # NoPair,
             files' \in {[f EXCEPT ![row.dir].cert = 0], [f EXCEPT ![row.dir].key = 0]},
             certDisturbed' = TRUE, op' = op
      PROVE  CertificateInv'
  <2>1. f[row.dir] \in CertificatePair
    BY <1>3, <1>4, <1>6 DEF PairTypes
  <2>2. PICK a, b : a = [f[row.dir] EXCEPT !.cert = 0] /\ b = [f[row.dir] EXCEPT !.key = 0]
    OBVIOUS
  <2>3. a \in CertificatePair /\ b \in CertificatePair
    BY <2>1, <2>2 DEF CertificatePair
  <2>4. files' = [f EXCEPT ![row.dir] = a] \/ files' = [f EXCEPT ![row.dir] = b]
    BY <1>6, <2>2
  <2>5. files' \in PairTypes
    BY <1>3, <1>4, <2>3, <2>4 DEF PairTypes
  <2>6. CertificateTypes'
    BY <1>1, <1>4, <1>6, <2>5, RowTypesKept DEF CertificateTypes, OperationTypes, Known
  <2> QED
    BY <1>6, <2>6 DEF CertificateInv
<1> QED
  BY <1>2, <1>5, <1>6 DEF Certificate!DeleteCertificate

-----------------------------------------------------------------------------
(* The files of a domain are written.                                      *)

LEMMA FilesWritten ==
  ASSUME CertificateParameters, NEW f \in PairTypes, NEW o, o.row \in CertificateRow,
         Certificate!CanWrite(f, o), NEW d, d = o.row.dir, NEW g, g = Certificate!Written(f, o)
  PROVE  /\ g \in PairTypes /\ g[d] # NoPair /\ d \in Certificate!Names
         /\ \A e \in Certificate!Names \ {d} : g[e] = f[e]
         /\ o.at = "cert" => /\ g[d].cert = o.row.cert
                             /\ f[d] # NoPair => g[d].key = f[d].key
         /\ o.at = "key" => (f[d].cert = o.row.cert => g[d] = Certificate!Pair(o.row))
<1>1. d \in Certificate!Names /\ o.row.cert \in Nat /\ o.row.key \in Nat
  BY DEF CertificateRow
<1>2. CASE o.at = "cert"
  <2>1. PICK pair : pair = [cert |-> o.row.cert, key |-> IF f[d] = NoPair THEN 0 ELSE f[d].key]
    OBVIOUS
  <2>2. pair \in CertificatePair /\ pair.cert = o.row.cert /\ (f[d] # NoPair => pair.key = f[d].key)
    BY <1>1, <2>1 DEF CertificatePair, PairTypes
  <2>3. g = [f EXCEPT ![d] = pair]
    BY <1>2, <2>1 DEF Certificate!Written
  <2>4. g[d] = pair /\ pair # NoPair
    BY <1>1, <2>2, <2>3 DEF CertificateParameters, PairTypes
  <2> QED
    BY <1>1, <1>2, <2>2, <2>3, <2>4 DEF PairTypes
<1>3. CASE o.at = "key"
  <2>1. f[d] \in CertificatePair
    BY <1>1, <1>3 DEF Certificate!CanWrite, PairTypes
  <2>2. PICK pair : pair = [f[d] EXCEPT !.key = o.row.key]
    OBVIOUS
  <2>3. pair \in CertificatePair /\ pair = [cert |-> f[d].cert, key |-> o.row.key]
    BY <1>1, <2>1, <2>2 DEF CertificatePair
  <2>4. g = [f EXCEPT ![d] = pair]
    BY <1>3, <2>2 DEF Certificate!Written
  <2>5. g[d] = pair /\ pair # NoPair
    BY <1>1, <2>3, <2>4 DEF CertificateParameters, PairTypes
  <2>6. f[d].cert = o.row.cert => pair = Certificate!Pair(o.row)
    BY <2>3 DEF Certificate!Pair
  <2> QED
    BY <1>1, <1>3, <2>3, <2>4, <2>5, <2>6 DEF PairTypes
<1> QED
  BY <1>2, <1>3 DEF Certificate!CanWrite

\* What a write leaves that fails or is cut, in one directory.
LEMMA FilesLeft ==
  ASSUME CertificateParameters, NEW f \in PairTypes, NEW n, NEW o, Operation(o, n),
         NEW g \in Certificate!Left(f, o)
  PROVE  /\ g \in PairTypes /\ \A e \in Certificate!Names \ {o.row.dir} : g[e] = f[e]
<1>1. CASE g = f
  BY <1>1
<1>2. CASE Certificate!CanWrite(f, o) /\ g \in {Certificate!Torn(f, o), Certificate!Written(f, o)}
  <2>1. PICK d : d = o.row.dir
    OBVIOUS
  <2>2. o.at \in {"cert", "key"} /\ o.row \in CertificateRow /\ d \in Certificate!Names
    BY <1>2, <2>1, OperationFacts DEF Certificate!CanWrite
  <2>3. CASE g = Certificate!Written(f, o)
    BY <1>2, <2>1, <2>2, <2>3, FilesWritten
  <2>4. CASE g = Certificate!Torn(f, o) /\ o.at = "cert"
    <3>1. PICK pair : pair = [cert |-> 0, key |-> IF f[d] = NoPair THEN 0 ELSE f[d].key]
      OBVIOUS
    <3>2. pair \in CertificatePair
      BY <2>2, <3>1 DEF CertificatePair, PairTypes
    <3>3. g = [f EXCEPT ![d] = pair]
      BY <2>1, <2>4, <3>1 DEF Certificate!Torn
    <3> QED
      BY <2>1, <2>2, <3>2, <3>3 DEF PairTypes
  <2>5. CASE g = Certificate!Torn(f, o) /\ o.at = "key"
    <3>1. f[d] \in CertificatePair
      BY <1>2, <2>1, <2>2, <2>5 DEF Certificate!CanWrite, PairTypes
    <3>2. PICK pair : pair = [f[d] EXCEPT !.key = 0]
      OBVIOUS
    <3>3. pair \in CertificatePair
      BY <3>1, <3>2 DEF CertificatePair
    <3>4. g = [f EXCEPT ![d] = pair]
      BY <2>1, <2>5, <3>2 DEF Certificate!Torn
    <3> QED
      BY <2>1, <2>2, <3>3, <3>4 DEF PairTypes
  <2> QED
    BY <1>2, <2>2, <2>3, <2>4, <2>5
<1> QED
  BY <1>1, <1>2 DEF Certificate!Left

LEMMA AllKept ==
  ASSUME CertificateParameters, CertificateTypes, UNCHANGED <<certificates, issued, keyOf>>
  PROVE  /\ IssuedGrows /\ Certificate!Present' = Certificate!Present
         /\ \A d : RowsKept(d)
         /\ \A i \in Certificate!Present :
              Certificate!Pair(certificates[i])' = Certificate!Pair(certificates[i])
BY DEF CertificateTypes, IssuedGrows, RowsKept, Certificate!Present, Certificate!Of, Certificate!Pair

LEMMA SaveCertificateInv ==
  ASSUME CertificateParameters, CertificateInv, Certificate!SaveCertificate
  PROVE  CertificateInv'
<1>1. /\ Certificate!CanWrite(files, op) /\ files' = Certificate!Written(files, op) /\ CertificateTypes
      /\ op' = [op EXCEPT !.at = IF op.at = "cert" THEN "key" ELSE "row"]
      /\ UNCHANGED <<certificates, nextRow, cached, issued, keyOf, age, upload, view, certDisturbed>>
  BY DEF Certificate!SaveCertificate, Certificate!acme, CertificateInv
<1>2. PICK o, d, n, f, g : o = op /\ d = op.row.dir /\ n = issued /\ f = files /\ g = files'
  OBVIOUS
<1>3. /\ o \in OperationRecord /\ Operation(o, n) /\ o.at \in {"cert", "key"} /\ o.at # "idle"
      /\ o.kind \in {"request", "renew"} /\ d \in Certificate!Names /\ o.row \in CertificateRow
      /\ f \in PairTypes
  BY <1>1, <1>2, OperationWorks DEF Certificate!CanWrite, CertificateTypes, OperationTypes, Operation, StepsOf
<1>4. PICK at : at = IF o.at = "cert" THEN "key" ELSE "row"
  OBVIOUS
<1>5. PICK p : /\ p = [o EXCEPT !.at = at] /\ Operation(p, n) /\ p.at = at /\ p.kind = o.kind
               /\ p.id = o.id /\ p.row = o.row
  BY <1>3, <1>4, OperationGoes DEF StepsOf
<1>6. op' = p
  BY <1>1, <1>2, <1>4, <1>5
<1>7. /\ files' \in PairTypes /\ files'[d] # NoPair
      /\ \A e \in Certificate!Names \ {d} : files'[e] = files[e]
      /\ o.at = "cert" => /\ files'[d].cert = o.row.cert
                          /\ files[d] # NoPair => files'[d].key = files[d].key
      /\ o.at = "key" => (files[d].cert = o.row.cert => files'[d] = Certificate!Pair(o.row))
  <2>1. Certificate!CanWrite(f, o) /\ d = o.row.dir /\ g = Certificate!Written(f, o)
    BY <1>1, <1>2
  <2> QED
    BY <1>2, <1>3, <2>1, FilesWritten
<1>8. /\ IssuedGrows /\ Certificate!Present' = Certificate!Present /\ \A e : RowsKept(e)
      /\ \A i \in Certificate!Present :
           Certificate!Pair(certificates[i])' = Certificate!Pair(certificates[i])
  BY <1>1, AllKept
<1>9. CertificateTypes'
  BY <1>1, <1>2, <1>3, <1>5, <1>6, <1>7, <1>8, RowTypesKept DEF CertificateTypes, OperationTypes, Known
<1>10. ASSUME ~certDisturbed'
       PROVE  /\ \A e \in Certificate!Names \ {d} : Apart(e)
              /\ d \in Certificate!Names => Stands(d)'
              /\ ListenerInv'
  <2>1. Stands(d) /\ ListenerInv /\ Works(op, d) /\ ~Works(upload, d)
    BY <1>1, <1>2, <1>3, <1>10 DEF CertificateInv, Stands, Works
  <2>2. \A e \in Certificate!Names \ {d} : Apart(e)
    BY <1>1, <1>2, <1>5, <1>6, <1>7, <1>8 DEF Apart, Works
  <2>3. Certificate!Pair(o.row)' = Certificate!Pair(o.row)
    BY <1>1 DEF Certificate!Pair
  <2>4. /\ Certificate!Of(d)' = Certificate!Of(d) /\ Works(op, d)' /\ ~Works(upload, d)'
        /\ op'.kind = o.kind
    BY <1>1, <1>2, <1>3, <1>4, <1>5, <1>6, <1>8, <2>1 DEF Works, RowsKept
  <2>5. ASSUME o.kind = "request" PROVE Stands(d)'
    <3>1. MakesNew(op, d)
      BY <1>2, <2>1, <2>5 DEF Stands
    <3>2. MakesNew(op, d)'
      BY <1>2, <1>3, <1>4, <1>5, <1>6, <1>7, <1>8, <2>3, <3>1 DEF MakesNew, RowsKept
    <3> QED
      BY <2>1, <2>5, <2>4, <3>2 DEF Stands
  <2>6. ASSUME o.kind = "renew" PROVE Stands(d)'
    <3>1. Changes(op, d)
      BY <1>2, <2>1, <2>6 DEF Stands
    <3>2. /\ o.id \in Certificate!Of(d) /\ files[d] # NoPair /\ files[d].key = o.row.key
          /\ o.at = "key" => files[d].cert = o.row.cert
      BY <1>2, <1>3, <2>6, <3>1 DEF Changes
    <3>3. CASE o.at = "cert"
      <4>1. files'[d].key = o.row.key /\ files'[d].cert = o.row.cert
        BY <1>7, <3>2, <3>3
      <4>2. Changes(op, d)'
        BY <1>4, <1>5, <1>6, <1>7, <1>8, <2>4, <2>6, <3>2, <3>3, <4>1 DEF Changes
      <4> QED
        BY <2>1, <2>6, <2>4, <4>2 DEF Stands
    <3>4. CASE o.at = "key"
      <4>1. files'[d] = Certificate!Pair(o.row) /\ files'[d].key = o.row.key
        BY <1>7, <3>2, <3>4 DEF Certificate!Pair
      <4>2. op'.at = "row" /\ op'.kind = "renew" /\ op'.id = o.id /\ op'.row = o.row
        BY <1>4, <1>5, <1>6, <2>6, <3>4
      <4>3. Changes(op, d)'
        BY <1>7, <2>3, <2>4, <3>2, <4>1, <4>2 DEF Changes, Certificate!Pair
      <4> QED
        BY <2>1, <2>6, <2>4, <4>3 DEF Stands
    <3> QED
      BY <1>3, <3>3, <3>4
  <2>7. Stale => Stale'
    BY <1>1, <1>2, <1>3, <1>4, <1>5, <1>6 DEF Stale
  <2>8. ListenerInv'
    BY <1>1, <1>8, <2>1, <2>7, ListenerKept
  <2> QED
    BY <1>3, <2>2, <2>5, <2>6, <2>8
<1> QED
  BY <1>1, <1>8, <1>9, <1>10, OneDomain

LEMMA UploadFileInv ==
  ASSUME CertificateParameters, CertificateInv, Certificate!UploadFile
  PROVE  CertificateInv'
<1>1. /\ Certificate!CanWrite(files, upload) /\ files' = Certificate!Written(files, upload) /\ CertificateTypes
      /\ upload' = [upload EXCEPT !.at = IF upload.at = "cert" THEN "key" ELSE "row"]
      /\ UNCHANGED <<certificates, nextRow, cached, issued, keyOf, age, op, view, certDisturbed>>
  BY DEF Certificate!UploadFile, Certificate!acme, CertificateInv
<1>2. PICK o, d, n, f, g : o = upload /\ d = upload.row.dir /\ n = issued /\ f = files /\ g = files'
  OBVIOUS
<1>3. /\ o \in OperationRecord /\ Operation(o, n) /\ o.at \in {"cert", "key"} /\ o.at # "idle"
      /\ o.kind \in {"none", "upload"} /\ d \in Certificate!Names /\ o.at \in StepsOf(o.kind)
      /\ o.row \in CertificateRow /\ f \in PairTypes
  BY <1>1, <1>2, OperationWorks, OperationFacts
     DEF Certificate!CanWrite, CertificateTypes, OperationTypes, Operation, StepsOf
<1>4. PICK at : at = IF o.at = "cert" THEN "key" ELSE "row"
  OBVIOUS
<1>5. PICK p : /\ p = [o EXCEPT !.at = at] /\ Operation(p, n) /\ p.at = at /\ p.kind = o.kind
               /\ p.id = o.id /\ p.row = o.row
  BY <1>3, <1>4, OperationGoes DEF StepsOf
<1>6. upload' = p
  BY <1>1, <1>2, <1>4, <1>5
<1>7. /\ files' \in PairTypes /\ files'[d] # NoPair
      /\ \A e \in Certificate!Names \ {d} : files'[e] = files[e]
      /\ o.at = "cert" => files'[d].cert = o.row.cert
      /\ o.at = "key" => (files[d].cert = o.row.cert => files'[d] = Certificate!Pair(o.row))
  <2>1. Certificate!CanWrite(f, o) /\ d = o.row.dir /\ g = Certificate!Written(f, o)
    BY <1>1, <1>2
  <2> QED
    BY <1>2, <1>3, <2>1, FilesWritten
<1>8. IssuedGrows /\ Certificate!Present' = Certificate!Present /\ \A e : RowsKept(e)
      /\ \A i \in Certificate!Present :
           Certificate!Pair(certificates[i])' = Certificate!Pair(certificates[i])
  BY <1>1, AllKept
<1>9. CertificateTypes'
  BY <1>1, <1>2, <1>3, <1>5, <1>6, <1>7, <1>8, RowTypesKept DEF CertificateTypes, OperationTypes, Known
<1>10. ASSUME ~certDisturbed'
       PROVE  /\ \A e \in Certificate!Names \ {d} : Apart(e)
              /\ d \in Certificate!Names => Stands(d)'
              /\ ListenerInv'
  <2>1. Stands(d) /\ ListenerInv /\ Works(upload, d) /\ ~Works(op, d)
    BY <1>1, <1>2, <1>3, <1>10 DEF CertificateInv, Stands, Works
  <2>2. \A e \in Certificate!Names \ {d} : Apart(e)
    BY <1>1, <1>2, <1>5, <1>6, <1>7, <1>8 DEF Apart, Works
  <2>3. Certificate!Pair(o.row)' = Certificate!Pair(o.row)
    BY <1>1 DEF Certificate!Pair
  <2>4. MakesNew(upload, d)'
    BY <1>2, <1>3, <1>4, <1>5, <1>6, <1>7, <1>8, <2>1, <2>3 DEF MakesNew, RowsKept, Stands
  <2>5. Stands(d)'
    BY <1>1, <1>2, <1>3, <1>5, <1>6, <1>8, <1>4, <2>1, <2>4 DEF Stands, Works, RowsKept
  <2>6. Stale => Stale'
    BY <1>1, <1>2, <1>3, <1>4, <1>5, <1>6 DEF Stale
  <2>7. ListenerInv'
    BY <1>1, <1>8, <2>1, <2>6, ListenerKept
  <2> QED
    BY <2>2, <2>5, <2>7
<1> QED
  BY <1>1, <1>8, <1>9, <1>10, OneDomain

-----------------------------------------------------------------------------
(* The row of a domain is written.                                         *)

LEMMA RowWritten ==
  ASSUME CertificateParameters, RowTypes, NEW i \in Certificate!Id, NEW row \in CertificateRow \cup {NoRow},
         certificates' = [certificates EXCEPT ![i] = row]
  PROVE  /\ certificates' \in [Certificate!Id -> CertificateRow \cup {NoRow}]
         /\ certificates'[i] = row /\ \A j \in Certificate!Id \ {i} : certificates'[j] = certificates[j]
         /\ \A j : j \in Certificate!Present' <=>
              (j # i /\ j \in Certificate!Present) \/ (j = i /\ row # NoRow)
         /\ \A d, j : j \in Certificate!Of(d)' <=>
              (j # i /\ j \in Certificate!Of(d)) \/ (j = i /\ row # NoRow /\ row.dir = d)
<1>1. /\ certificates' \in [Certificate!Id -> CertificateRow \cup {NoRow}]
      /\ certificates'[i] = row /\ \A j \in Certificate!Id \ {i} : certificates'[j] = certificates[j]
  BY DEF RowTypes
<1>2. \A j : j \in Certificate!Present' <=> (j # i /\ j \in Certificate!Present) \/ (j = i /\ row # NoRow)
  BY <1>1 DEF Certificate!Present
<1>3. \A d, j : j \in Certificate!Of(d)' <=>
        (j # i /\ j \in Certificate!Of(d)) \/ (j = i /\ row # NoRow /\ row.dir = d)
  <2> SUFFICES ASSUME NEW d, NEW j
               PROVE  j \in Certificate!Of(d)' <=>
                        (j # i /\ j \in Certificate!Of(d)) \/ (j = i /\ row # NoRow /\ row.dir = d)
    OBVIOUS
  <2>1. j \in Certificate!Of(d)' <=> j \in Certificate!Present' /\ certificates'[j].dir = d
    BY DEF Certificate!Of
  <2>2. j \in Certificate!Of(d) <=> j \in Certificate!Present /\ certificates[j].dir = d
    BY DEF Certificate!Of
  <2>3. j \in Certificate!Present => j \in Certificate!Id
    BY DEF Certificate!Present
  <2> QED
    BY <1>1, <1>2, <2>1, <2>2, <2>3
<1> QED
  BY <1>1, <1>2, <1>3

\* The operation at work writes its row and goes on to tell the listener.
LEMMA RowStepInv ==
  ASSUME CertificateParameters, CertificateInv, op.at \in {"row", "delete"},
         op' = [op EXCEPT !.at = "notify"],
         UNCHANGED <<files, cached, issued, keyOf, age, upload, view>>,
         NEW i \in Certificate!Id, NEW row \in CertificateRow \cup {NoRow},
         certificates' = [certificates EXCEPT ![i] = row],
         row # NoRow => row.dir = op.row.dir /\ row.cert \in 1..issued /\ i < nextRow',
         nextRow' \in Nat, nextRow <= nextRow',
         certDisturbed => certDisturbed',
         ~certDisturbed' => /\ i \in Certificate!Of(op.row.dir) \/ i \notin Certificate!Present
                            /\ Certificate!Of(op.row.dir) \in {{}, {i}}
                            /\ IF row = NoRow THEN files[op.row.dir] = NoPair
                               ELSE files[op.row.dir] = Certificate!Pair(row)
  PROVE  CertificateInv'
<1>1. PICK o, d, n : o = op /\ d = op.row.dir /\ n = issued
  OBVIOUS
<1>2. /\ CertificateTypes /\ o \in OperationRecord /\ Operation(o, n) /\ o.at # "idle" /\ d \in Certificate!Names
      /\ "notify" \in StepsOf(o.kind)
  BY <1>1, OperationWorks DEF CertificateInv, CertificateTypes, OperationTypes, Operation, StepsOf
<1>3. PICK p : /\ p = [o EXCEPT !.at = "notify"] /\ Operation(p, n) /\ p.at = "notify" /\ p.kind = o.kind
               /\ p.id = o.id /\ p.row = o.row
  BY <1>2, OperationGoes
<1>4. /\ certificates' \in [Certificate!Id -> CertificateRow \cup {NoRow}]
      /\ certificates'[i] = row /\ \A j \in Certificate!Id \ {i} : certificates'[j] = certificates[j]
      /\ \A j : j \in Certificate!Present' <=>
           (j # i /\ j \in Certificate!Present) \/ (j = i /\ row # NoRow)
      /\ \A e, j : j \in Certificate!Of(e)' <=>
           (j # i /\ j \in Certificate!Of(e)) \/ (j = i /\ row # NoRow /\ row.dir = e)
  BY <1>2, RowWritten DEF CertificateTypes
<1>5. IssuedGrows
  BY <1>2 DEF IssuedGrows, CertificateTypes
<1>6. CertificateTypes'
  <2>1. RowTypes'
    <3>1. \A j \in Certificate!Present : j \in Certificate!Id /\ j \in Nat
      BY DEF Certificate!Present, Certificate!Id, CertificateParameters
    <3>2. \A j \in Certificate!Present' : certificates'[j].cert \in 1..issued' /\ j < nextRow'
      BY <1>2, <1>4, <3>1 DEF CertificateTypes, RowTypes
    <3> QED
      BY <1>2, <1>4, <3>2 DEF CertificateTypes, RowTypes
  <2>2. OperationTypes'
    <3>1. \A id : Known(id) => Known(id)'
      BY <1>2 DEF Known, CertificateTypes, RowTypes, Certificate!Id, CertificateParameters
    <3> QED
      BY <1>1, <1>2, <1>3, <3>1 DEF CertificateTypes, OperationTypes
  <2> QED
    BY <1>2, <2>1, <2>2 DEF CertificateTypes
<1>7. ASSUME ~certDisturbed'
      PROVE  /\ \A e \in Certificate!Names \ {d} : Apart(e)
             /\ d \in Certificate!Names => Stands(d)'
             /\ ListenerInv'
  <2>1. Stands(d) /\ Works(op, d) /\ ~Works(upload, d)
    BY <1>1, <1>2, <1>7 DEF CertificateInv, Stands, Works
  <2>2. i \in Certificate!Of(d) \/ i \notin Certificate!Present
    BY <1>1, <1>7
  <2>3. ASSUME NEW e \in Certificate!Names \ {d} PROVE RowsKept(e)
    <3>1. i \notin Certificate!Of(e)
      BY <2>2 DEF Certificate!Of
    <3>2. \A j : j \in Certificate!Of(e)' <=> j \in Certificate!Of(e)
      BY <1>1, <1>4, <3>1
    <3>3. \A j \in Certificate!Of(e) : certificates'[j] = certificates[j]
      BY <1>4, <3>1 DEF Certificate!Of, Certificate!Present
    <3> QED
      BY <3>2, <3>3 DEF RowsKept, Certificate!Pair
  <2>4. \A e \in Certificate!Names \ {d} : Apart(e)
    BY <1>1, <1>3, <2>3 DEF Apart, Works
  <2>5. IF row = NoRow THEN Certificate!Of(d)' = {} ELSE Certificate!Of(d)' = {i}
    <3>1. \A j : j \in Certificate!Of(d)' <=> j = i /\ row # NoRow
      BY <1>1, <1>4, <1>7
    <3> QED
      BY <3>1
  <2>6. Certificate!Pair(row)' = Certificate!Pair(row)
    BY DEF Certificate!Pair
  <2>7. Agrees(d)'
    BY <1>1, <1>4, <1>7, <2>5, <2>6 DEF Agrees, Certificate!Pair
  <2>8. (\A k, j \in Certificate!Of(d) : k = j)'
    BY <2>5
  <2>9. op'.at = "notify" /\ Works(op, d)' /\ ~Works(upload, d)'
    BY <1>1, <1>3, <2>1 DEF Works
  <2>10. Stands(d)'
    BY <2>7, <2>8, <2>9 DEF Stands, MakesNew, Changes
  <2>11. ListenerInv'
    BY <2>9 DEF ListenerInv, Stale
  <2> QED
    BY <2>4, <2>10, <2>11
<1> QED
  BY <1>5, <1>6, <1>7, OneDomain

LEMMA SaveRowInv ==
  ASSUME CertificateParameters, CertificateInv, Certificate!SaveRow
  PROVE  CertificateInv'
<1>1. /\ op.at = "row" /\ op' = [op EXCEPT !.at = "notify"]
      /\ UNCHANGED <<files, cached, issued, keyOf, age, upload, view>>
  BY DEF Certificate!SaveRow, Certificate!acme
<1>2. PICK d, row : d = op.row.dir /\ row = op.row
  OBVIOUS
<1>3. /\ row \in CertificateRow /\ row.cert \in 1..issued /\ d \in Certificate!Names /\ row # NoRow
      /\ op.kind \in {"request", "renew", "revoke"}
      /\ op.kind # "request" => Known(op.id)
      /\ nextRow \in Nat /\ nextRow >= 1 /\ \A i \in Certificate!Present : i < nextRow
  BY <1>1, <1>2, OperationWorks
     DEF CertificateInv, CertificateTypes, OperationTypes, RowTypes, StepsOf, CertificateParameters
<1>4. ~certDisturbed => Stands(d) /\ Works(op, d)
  BY <1>1, <1>2, <1>3 DEF CertificateInv, Works
<1>5. CASE op.kind = "request"
  <2>1. PICK i : i = nextRow
    OBVIOUS
  <2>2. /\ i \in Certificate!Id /\ certificates' = [certificates EXCEPT ![i] = row] /\ nextRow' = nextRow + 1
        /\ certDisturbed' = (certDisturbed \/ Certificate!Of(d) # {})
    BY <1>2, <1>3, <1>5, <2>1 DEF Certificate!SaveRow, Certificate!Id, CertificateParameters
  <2>3. i \notin Certificate!Present
    BY <1>3, <2>1
  <2>4. ~certDisturbed' => Certificate!Of(d) = {} /\ files[d] = Certificate!Pair(row)
    BY <1>1, <1>2, <1>4, <1>5, <2>2 DEF Stands, MakesNew
  <2>5. /\ row # NoRow => row.dir = op.row.dir /\ row.cert \in 1..issued /\ i < nextRow'
        /\ nextRow' \in Nat /\ nextRow <= nextRow'
    BY <1>2, <1>3, <2>1, <2>2
  <2>6. ~certDisturbed' => /\ i \in Certificate!Of(op.row.dir) \/ i \notin Certificate!Present
                           /\ Certificate!Of(op.row.dir) \in {{}, {i}}
                           /\ IF row = NoRow THEN files[op.row.dir] = NoPair
                              ELSE files[op.row.dir] = Certificate!Pair(row)
    BY <1>2, <1>3, <2>3, <2>4
  <2> QED
    BY <1>1, <1>3, <2>2, <2>5, <2>6, RowStepInv
<1>6. CASE op.kind # "request"
  <2>1. PICK i : i = op.id
    OBVIOUS
  <2>2. /\ i \in Certificate!Id /\ certificates' = [certificates EXCEPT ![i] = row] /\ nextRow' = nextRow
        /\ certDisturbed' = certDisturbed /\ i < nextRow'
    BY <1>2, <1>3, <1>6, <2>1 DEF Certificate!SaveRow, Known
  <2>3. ASSUME ~certDisturbed'
        PROVE  /\ i \in Certificate!Of(d) /\ Certificate!Of(d) \in {{}, {i}}
               /\ files[d] = Certificate!Pair(row)
    <3>1. Changes(op, d) /\ \A j, k \in Certificate!Of(d) : j = k
      BY <1>4, <1>6, <2>2, <2>3 DEF Stands
    <3>2. i \in Certificate!Of(d) /\ Certificate!Of(d) = {i}
      BY <1>1, <2>1, <3>1 DEF Changes
    <3>3. CASE op.kind = "renew"
      BY <1>1, <1>2, <3>1, <3>2, <3>3 DEF Changes
    <3>4. CASE op.kind = "revoke"
      BY <1>1, <1>2, <2>1, <3>1, <3>2, <3>4 DEF Changes, Agrees, Certificate!Pair
    <3> QED
      BY <1>3, <1>6, <3>3, <3>4
  <2>4. /\ row # NoRow => row.dir = op.row.dir /\ row.cert \in 1..issued /\ i < nextRow'
        /\ nextRow' \in Nat /\ nextRow <= nextRow'
    BY <1>2, <1>3, <2>2
  <2>5. ~certDisturbed' => /\ i \in Certificate!Of(op.row.dir) \/ i \notin Certificate!Present
                           /\ Certificate!Of(op.row.dir) \in {{}, {i}}
                           /\ IF row = NoRow THEN files[op.row.dir] = NoPair
                              ELSE files[op.row.dir] = Certificate!Pair(row)
    BY <1>2, <1>3, <2>3
  <2> QED
    BY <1>1, <1>3, <2>2, <2>4, <2>5, RowStepInv
<1> QED
  BY <1>5, <1>6

LEMMA DeleteRowInv ==
  ASSUME CertificateParameters, CertificateInv, Certificate!DeleteRow
  PROVE  CertificateInv'
<1>1. /\ op.at = "delete" /\ op' = [op EXCEPT !.at = "notify"]
      /\ UNCHANGED <<nextRow, files, cached, issued, keyOf, age, upload, view, certDisturbed>>
      /\ certificates' = [certificates EXCEPT ![op.id] = NoRow]
  BY DEF Certificate!DeleteRow, Certificate!acme
<1>2. PICK i, d : i = op.id /\ d = op.row.dir
  OBVIOUS
<1>3. /\ d \in Certificate!Names /\ op.kind = "delete" /\ i \in Certificate!Id /\ nextRow \in Nat /\ nextRow <= nextRow
  BY <1>1, <1>2, OperationWorks
     DEF CertificateInv, CertificateTypes, OperationTypes, RowTypes, StepsOf, Known
<1>4. ASSUME ~certDisturbed'
      PROVE  /\ i \in Certificate!Of(d) /\ Certificate!Of(d) \in {{}, {i}}
             /\ files[d] = NoPair
  <2>1. Changes(op, d) /\ \A j, k \in Certificate!Of(d) : j = k
    BY <1>1, <1>2, <1>3, <1>4 DEF CertificateInv, Works, Stands
  <2> QED
    BY <1>1, <1>2, <1>3, <2>1 DEF Changes
<1> QED
  BY <1>1, <1>2, <1>3, <1>4, RowStepInv

-----------------------------------------------------------------------------
(* Operations end.                                                         *)

\* Operation op ends, and the files of its domain are those of the row.
LEMMA EndsInv ==
  ASSUME CertificateParameters, CertificateInv, op.at # "idle", op' = Certificate!Idle,
         UNCHANGED <<certificates, nextRow, issued, keyOf, age, upload, view>>,
         NEW d, d = op.row.dir,
         files' \in PairTypes,
         \A e \in Certificate!Names \ {d} : files'[e] = files[e],
         certDisturbed => certDisturbed',
         ~certDisturbed' =>
           /\ cached' = NoPair \/ (cached' = cached /\ (Stale => upload.at = "notify"))
           /\ Stands(d) => Agrees(d)'
  PROVE  CertificateInv'
<1>1. CertificateTypes /\ d \in Certificate!Names
  BY OperationWorks DEF CertificateInv
<1>2. /\ IssuedGrows /\ Certificate!Present' = Certificate!Present /\ \A e : RowsKept(e)
      /\ \A j \in Certificate!Present :
           Certificate!Pair(certificates[j])' = Certificate!Pair(certificates[j])
  BY <1>1, AllKept
<1>3. Operation(op, issued)' /\ op'.kind = "none" /\ op'.at = "idle"
  BY IdleOperation
<1>4. CertificateTypes'
  BY <1>1, <1>2, <1>3, RowTypesKept DEF CertificateTypes, OperationTypes, Known
<1>5. ASSUME ~certDisturbed'
      PROVE  /\ \A e \in Certificate!Names \ {d} : Apart(e)
             /\ d \in Certificate!Names => Stands(d)'
             /\ ListenerInv'
  <2>1. Stands(d) /\ ListenerInv /\ Works(op, d) /\ ~Works(upload, d)
    BY <1>1, <1>5 DEF CertificateInv, Stands, Works
  <2>2. \A e \in Certificate!Names \ {d} : Apart(e)
    BY <1>2, <1>3 DEF Apart, Works
  <2>3. Certificate!Of(d)' = Certificate!Of(d) /\ ~Works(op, d)' /\ ~Works(upload, d)'
    BY <1>2, <1>3, <2>1 DEF Works, RowsKept
  <2>4. Stands(d)'
    BY <1>5, <2>1, <2>3 DEF Stands
  <2>5. ListenerInv'
    BY <1>1, <1>2, <1>5, <2>1, ListenerKept DEF Stale
  <2> QED
    BY <2>2, <2>4, <2>5
<1> QED
  BY <1>2, <1>4, <1>5, OneDomain

LEMMA NotifyInv ==
  ASSUME CertificateParameters, CertificateInv, Certificate!Notify
  PROVE  CertificateInv'
<1>1. /\ op.at = "notify" /\ op' = Certificate!Idle /\ cached' = NoPair
      /\ UNCHANGED <<certificates, nextRow, files, issued, keyOf, age, upload, view, certDisturbed>>
  BY DEF Certificate!Notify, Certificate!acme
<1>2. PICK d : d = op.row.dir
  OBVIOUS
<1>3. CertificateTypes /\ d \in Certificate!Names
  BY <1>1, <1>2, OperationWorks DEF CertificateInv
<1>4. Stands(d) => Agrees(d)
  BY <1>1, <1>2 DEF Stands, MakesNew, Changes, Works
<1>5. Agrees(d) => Agrees(d)'
  BY <1>1, <1>3, AllKept, AgreesKept
<1> QED
  BY <1>1, <1>2, <1>3, <1>4, <1>5, EndsInv DEF CertificateTypes

LEMMA OperationFailsInv ==
  ASSUME CertificateParameters, CertificateInv, Certificate!OperationFails
  PROVE  CertificateInv'
<1>1. /\ op.at \in {"cert", "key", "row", "delete"} /\ op' = Certificate!Idle
      /\ UNCHANGED <<certificates, nextRow, cached, issued, keyOf, age, upload, view>>
      /\ certDisturbed => certDisturbed'
  BY DEF Certificate!OperationFails, Certificate!acme
<1>2. PICK d : d = op.row.dir
  OBVIOUS
<1>3. CertificateTypes /\ d \in Certificate!Names /\ op.at \in StepsOf(op.kind)
      /\ op.kind \in {"request", "renew", "revoke", "delete"}
  BY <1>1, <1>2, OperationWorks DEF CertificateInv, CertificateTypes, OperationTypes, StepsOf
<1>4. \A e : RowsKept(e)
  BY <1>1, <1>3, AllKept
<1>5. CASE op.kind = "request" /\ op.at = "row"
  <2>1. files' = [files EXCEPT ![d] = NoPair]
    BY <1>2, <1>5 DEF Certificate!OperationFails
  <2>2. /\ files' \in PairTypes /\ files'[d] = NoPair
        /\ \A e \in Certificate!Names \ {d} : files'[e] = files[e]
    BY <1>3, <2>1 DEF CertificateTypes, PairTypes
  <2>3. Stands(d) => Certificate!Of(d) = {}
    BY <1>2, <1>5 DEF Stands, MakesNew, Works
  <2>4. Stands(d) => Agrees(d)'
    BY <1>4, <2>2, <2>3 DEF Agrees, RowsKept
  <2>5. Stale => upload.at = "notify"
    BY <1>5 DEF Stale
  <2> QED
    BY <1>1, <1>2, <2>2, <2>4, <2>5, EndsInv
<1>6. CASE ~(op.kind = "request" /\ op.at = "row")
  <2>1. PICK o, n, f, g : o = op /\ n = issued /\ f = files /\ g = files'
    OBVIOUS
  <2>2. /\ Operation(o, n) /\ f \in PairTypes /\ g \in Certificate!Left(f, o) /\ o.row.dir = d
        /\ ~certDisturbed' => files' = files /\ (op.at = "cert" \/ op.kind = "revoke")
    BY <1>2, <1>3, <1>6, <2>1 DEF Certificate!OperationFails, CertificateTypes, OperationTypes
  <2>3. files' \in PairTypes /\ \A e \in Certificate!Names \ {d} : files'[e] = files[e]
    <3>1. g \in PairTypes /\ \A e \in Certificate!Names \ {o.row.dir} : g[e] = f[e]
      BY <2>2, FilesLeft
    <3> QED
      BY <2>1, <2>2, <3>1
  <2>4. ~certDisturbed' => (Stands(d) => Agrees(d))
    <3>1. CASE op.kind = "request" /\ op.at = "cert"
      BY <1>2, <3>1 DEF Stands, MakesNew, Agrees, Works
    <3>2. CASE op.kind = "renew" /\ op.at = "cert"
      BY <1>2, <3>2 DEF Stands, Changes, Works
    <3>3. CASE op.kind = "revoke"
      BY <1>1, <1>2, <3>3 DEF Stands, Changes, Works
    <3>4. ~certDisturbed' => \/ op.kind \in {"request", "renew"} /\ op.at = "cert"
                             \/ op.kind = "revoke"
      BY <1>3, <2>2 DEF StepsOf
    <3> QED
      BY <3>1, <3>2, <3>3, <3>4
  <2>5. ~certDisturbed' => (Agrees(d) => Agrees(d)')
    BY <1>1, <1>3, <2>2, AllKept, AgreesKept
  <2>6. ~certDisturbed' => (Stale => upload.at = "notify")
    BY <1>1, <2>2 DEF Stale
  <2> QED
    BY <1>1, <1>2, <2>3, <2>4, <2>5, <2>6, EndsInv
<1> QED
  BY <1>5, <1>6

-----------------------------------------------------------------------------
(* Uploads.                                                                *)

LEMMA UploadCertificateInv ==
  ASSUME CertificateParameters, CertificateInv, NEW m \in Certificate!Names, Certificate!UploadCertificate(m)
  PROVE  CertificateInv'
<1>1. PICK d : d = Certificate!Base(m)
  OBVIOUS
<1>2. /\ upload = Certificate!Idle /\ issued < MaxIssued /\ CertificateTypes
      /\ Certificate!Issue(issued + 1)
      /\ \E k0 \in {issued + 1, Certificate!OtherKey} :
           upload' = Certificate!Begin("upload", "cert", 0, Certificate!NewRow(m, d, k0))
      /\ certDisturbed' = (certDisturbed \/ Certificate!Writers(d) # {} \/ Certificate!Of(d) # {})
      /\ UNCHANGED <<certificates, nextRow, files, cached, op, view>>
  BY <1>1 DEF Certificate!UploadCertificate, CertificateInv
<1>3. d \in Certificate!Names
  BY <1>1 DEF Certificate!Base, Certificate!Names
<1>4. PICK k : k = issued + 1 /\ k \in Nat /\ issued \in Nat /\ k \in Nat \ {0}
  BY <1>2 DEF CertificateTypes
<1>5. PICK k0 \in Nat \ {0} :
        upload' = Certificate!Begin("upload", "cert", 0, Certificate!NewRow(m, d, k0))
  BY <1>2, <1>4 DEF Certificate!OtherKey, CertificateParameters
<1>6. IssuedGrows /\ issued' = issued + 1 /\ age' = age /\ issued' \in Nat /\ keyOf' \in [Certificate!Cert -> Nat]
  BY <1>2, <1>4, IssueFacts
<1>7. PICK row : /\ row = Certificate!NewRow(m, d, k0) /\ row \in CertificateRow
                 /\ row.cert = issued + 1 /\ row.dir = d
  BY <1>2, <1>3, <1>4, IssueFacts
<1>8. row.cert \in 1..k /\ k = issued' /\ "cert" \in StepsOf("upload") /\ 0 \in Nat
  BY <1>4, <1>6, <1>7 DEF StepsOf
<1>9. PICK o : /\ o = upload' /\ Operation(o, k) /\ o.at = "cert" /\ o.kind = "upload" /\ o.row = row
  <2>1. \E o : /\ o = Certificate!Begin("upload", "cert", 0, row) /\ Operation(o, k)
               /\ o.at = "cert" /\ o.at # "idle" /\ o.kind = "upload" /\ o.id = 0 /\ o.row = row
    BY <1>4, <1>7, <1>8, OperationBegins
  <2> QED
    BY <1>5, <1>7, <2>1
<1>10. CertificateTypes'
  BY <1>2, <1>6, <1>8, <1>9, OperationsKept, RowTypesKept
     DEF CertificateTypes, OperationTypes, IssuedGrows, Known
<1>11. ASSUME ~certDisturbed'
       PROVE  /\ \A e \in Certificate!Names \ {d} : Apart(e)
              /\ d \in Certificate!Names => Stands(d)'
              /\ ListenerInv'
  <2>1. /\ ~Works(op, d) /\ ~Works(upload, d) /\ ~certDisturbed /\ upload.at = "idle"
        /\ Certificate!Of(d) = {}
    BY <1>2, <1>11, OperationWorks DEF Certificate!Writers, Works
  <2>2. Stands(d) /\ ListenerInv /\ Agrees(d)
    BY <1>3, <2>1 DEF CertificateInv, Stands
  <2>3. \A e \in Certificate!Names : Certificate!Of(e)' = Certificate!Of(e) /\ RowsKept(e)
    BY <1>2 DEF Certificate!Of, Certificate!Present, RowsKept, Certificate!Pair
  <2>4. Works(upload, d)' /\ ~Works(op, d)' /\ MakesNew(upload, d)'
    BY <1>2, <1>3, <1>7, <1>9, <2>1, <2>2, <2>3 DEF Works, MakesNew, Agrees
  <2>5. Stands(d)'
    BY <1>3, <2>1, <2>3, <2>4 DEF Stands
  <2>6. \A e \in Certificate!Names \ {d} : Apart(e)
    BY <1>2, <1>7, <1>9, <2>1, <2>3 DEF Apart, Works
  <2>7. Stale => Stale'
    BY <1>2, <2>1 DEF Stale
  <2>8. ListenerInv'
    BY <1>2, <1>6, <2>2, <2>7, ListenerKept DEF Certificate!Present, Certificate!Pair
  <2> QED
    BY <2>5, <2>6, <2>8
<1> QED
  BY <1>2, <1>6, <1>10, <1>11, OneDomain

LEMMA UploadRowInv ==
  ASSUME CertificateParameters, CertificateInv, Certificate!UploadRow
  PROVE  CertificateInv'
<1>1. /\ upload.at = "row" /\ nextRow <= MaxRows /\ CertificateTypes
      /\ certificates' = [certificates EXCEPT ![nextRow] = upload.row] /\ nextRow' = nextRow + 1
      /\ upload' = [upload EXCEPT !.at = "notify"]
      /\ UNCHANGED <<files, cached, issued, keyOf, age, op, view, certDisturbed>>
  BY DEF Certificate!UploadRow, Certificate!acme, CertificateInv
<1>2. PICK o, d, n, i, row : o = upload /\ d = upload.row.dir /\ n = issued /\ i = nextRow /\ row = upload.row
  OBVIOUS
<1>3. /\ o \in OperationRecord /\ Operation(o, n) /\ o.at # "idle" /\ d \in Certificate!Names
      /\ o.kind \in {"none", "upload"} /\ "notify" \in StepsOf(o.kind)
      /\ row \in CertificateRow /\ row.cert \in 1..n /\ row # NoRow /\ row.dir = d
  BY <1>1, <1>2, OperationWorks, OperationFacts
     DEF CertificateTypes, OperationTypes, Operation, StepsOf, CertificateParameters
<1>4. PICK p : /\ p = [o EXCEPT !.at = "notify"] /\ Operation(p, n) /\ p.at = "notify" /\ p.kind = o.kind
               /\ p.id = o.id /\ p.row = o.row
  BY <1>3, OperationGoes
<1>5. /\ i \in Certificate!Id /\ i \in Nat /\ i \notin Certificate!Present /\ RowTypes
      /\ \A j \in Certificate!Present : j \in Certificate!Id /\ j < i /\ j \in Nat
  BY <1>1, <1>2 DEF CertificateTypes, RowTypes, Certificate!Id, CertificateParameters, Certificate!Present
<1>6. certificates' = [certificates EXCEPT ![i] = row]
  BY <1>1, <1>2
<1>7. /\ certificates' \in [Certificate!Id -> CertificateRow \cup {NoRow}]
      /\ certificates'[i] = row /\ \A j \in Certificate!Id \ {i} : certificates'[j] = certificates[j]
      /\ \A j : j \in Certificate!Present' <=>
           (j # i /\ j \in Certificate!Present) \/ (j = i /\ row # NoRow)
      /\ \A e, j : j \in Certificate!Of(e)' <=>
           (j # i /\ j \in Certificate!Of(e)) \/ (j = i /\ row # NoRow /\ row.dir = e)
  <2>1. /\ CertificateParameters /\ RowTypes /\ i \in Certificate!Id /\ row \in CertificateRow \cup {NoRow}
        /\ certificates' = [certificates EXCEPT ![i] = row]
    BY <1>3, <1>5, <1>6
  <2> QED
    BY <2>1, RowWritten
<1>8. IssuedGrows
  BY <1>1 DEF IssuedGrows, CertificateTypes
<1>9. CertificateTypes'
  <2>1. RowTypes'
    <3>1. \A j \in Certificate!Present' : certificates'[j].cert \in 1..issued' /\ j < nextRow'
      BY <1>1, <1>2, <1>3, <1>5, <1>7 DEF RowTypes
    <3> QED
      BY <1>1, <1>2, <1>5, <1>7, <3>1 DEF RowTypes
  <2>2. OperationTypes'
    <3>1. \A id : Known(id) => Known(id)'
      BY <1>1, <1>2, <1>5 DEF Known, Certificate!Id, CertificateParameters
    <3> QED
      BY <1>1, <1>2, <1>3, <1>4, <3>1 DEF CertificateTypes, OperationTypes
  <2> QED
    BY <1>1, <2>1, <2>2 DEF CertificateTypes
<1>10. ASSUME ~certDisturbed'
       PROVE  /\ \A e \in Certificate!Names \ {d} : Apart(e)
              /\ d \in Certificate!Names => Stands(d)'
              /\ ListenerInv'
  <2>1. Stands(d) /\ Works(upload, d) /\ ~Works(op, d)
    BY <1>1, <1>2, <1>3, <1>10 DEF CertificateInv, Stands, Works
  <2>2. Certificate!Of(d) = {} /\ files[d] = Certificate!Pair(row)
    BY <1>1, <1>2, <2>1 DEF Stands, MakesNew
  <2>3. ASSUME NEW e \in Certificate!Names \ {d} PROVE RowsKept(e)
    <3>1. i \notin Certificate!Of(e)
      BY <1>5 DEF Certificate!Of
    <3>2. \A j : j \in Certificate!Of(e)' <=> j \in Certificate!Of(e)
      BY <1>3, <1>7, <3>1
    <3>3. \A j \in Certificate!Of(e) : certificates'[j] = certificates[j]
      BY <1>7, <3>1 DEF Certificate!Of, Certificate!Present
    <3> QED
      BY <3>2, <3>3 DEF RowsKept, Certificate!Pair
  <2>4. \A e \in Certificate!Names \ {d} : Apart(e)
    BY <1>1, <1>2, <1>4, <2>3 DEF Apart, Works
  <2>5. Certificate!Of(d)' = {i}
    <3>1. \A j : j \in Certificate!Of(d)' <=> j = i
      BY <1>3, <1>7, <2>2
    <3> QED
      BY <3>1
  <2>6. Agrees(d)'
    BY <1>1, <1>7, <2>2, <2>5 DEF Agrees, Certificate!Pair
  <2>7. upload'.at = "notify" /\ Works(upload, d)' /\ ~Works(op, d)'
    BY <1>1, <1>2, <1>4, <2>1 DEF Works
  <2>8. Stands(d)'
    BY <2>5, <2>6, <2>7 DEF Stands, MakesNew
  <2>9. ListenerInv'
    BY <2>7 DEF ListenerInv, Stale
  <2> QED
    BY <2>4, <2>8, <2>9
<1> QED
  BY <1>1, <1>8, <1>9, <1>10, OneDomain

\* An upload ends.
LEMMA UploadEndsInv ==
  ASSUME CertificateParameters, CertificateInv, upload.at # "idle", upload' = Certificate!Idle,
         UNCHANGED <<certificates, nextRow, issued, keyOf, age, op, view>>,
         NEW d, d = upload.row.dir,
         files' \in PairTypes,
         \A e \in Certificate!Names \ {d} : files'[e] = files[e],
         certDisturbed => certDisturbed',
         ~certDisturbed' =>
           /\ cached' = NoPair \/ (cached' = cached /\ upload.at # "notify")
           /\ MakesNew(upload, d) => Agrees(d)'
  PROVE  CertificateInv'
<1>1. CertificateTypes /\ d \in Certificate!Names
  BY OperationWorks DEF CertificateInv
<1>2. /\ IssuedGrows /\ Certificate!Present' = Certificate!Present /\ \A e : RowsKept(e)
      /\ \A j \in Certificate!Present :
           Certificate!Pair(certificates[j])' = Certificate!Pair(certificates[j])
  BY <1>1, AllKept
<1>3. Operation(upload, issued)' /\ upload'.kind = "none" /\ upload'.at = "idle"
  BY IdleOperation
<1>4. CertificateTypes'
  BY <1>1, <1>2, <1>3, RowTypesKept DEF CertificateTypes, OperationTypes, Known
<1>5. ASSUME ~certDisturbed'
      PROVE  /\ \A e \in Certificate!Names \ {d} : Apart(e)
             /\ d \in Certificate!Names => Stands(d)'
             /\ ListenerInv'
  <2>1. Stands(d) /\ ListenerInv /\ Works(upload, d) /\ ~Works(op, d) /\ MakesNew(upload, d)
    BY <1>1, <1>5 DEF CertificateInv, Stands, Works
  <2>2. \A e \in Certificate!Names \ {d} : Apart(e)
    BY <1>2, <1>3 DEF Apart, Works
  <2>3. Certificate!Of(d)' = Certificate!Of(d) /\ ~Works(op, d)' /\ ~Works(upload, d)'
    BY <1>2, <1>3, <2>1 DEF Works, RowsKept
  <2>4. Stands(d)'
    BY <1>5, <2>1, <2>3 DEF Stands
  <2>5. ListenerInv'
    BY <1>1, <1>2, <1>5, <2>1, ListenerKept DEF Stale
  <2> QED
    BY <2>2, <2>4, <2>5
<1> QED
  BY <1>2, <1>4, <1>5, OneDomain

LEMMA UploadNotifyInv ==
  ASSUME CertificateParameters, CertificateInv, Certificate!UploadNotify
  PROVE  CertificateInv'
<1>1. /\ upload.at = "notify" /\ upload' = Certificate!Idle /\ cached' = NoPair /\ CertificateTypes
      /\ UNCHANGED <<certificates, nextRow, files, issued, keyOf, age, op, view, certDisturbed>>
  BY DEF Certificate!UploadNotify, Certificate!acme, CertificateInv
<1>2. PICK d : d = upload.row.dir
  OBVIOUS
<1>3. d \in Certificate!Names
  BY <1>1, <1>2, OperationWorks
<1>4. MakesNew(upload, d) => Agrees(d)
  BY <1>1 DEF MakesNew
<1>5. Agrees(d) => Agrees(d)'
  BY <1>1, <1>3, AllKept, AgreesKept
<1> QED
  BY <1>1, <1>2, <1>4, <1>5, UploadEndsInv DEF CertificateTypes

LEMMA UploadFailsInv ==
  ASSUME CertificateParameters, CertificateInv, Certificate!UploadFails
  PROVE  CertificateInv'
<1>1. /\ upload.at \in {"cert", "key", "row"} /\ upload' = Certificate!Idle /\ CertificateTypes
      /\ certDisturbed => certDisturbed'
      /\ UNCHANGED <<certificates, nextRow, cached, issued, keyOf, age, op, view>>
  BY DEF Certificate!UploadFails, Certificate!acme, CertificateInv
<1>2. PICK d, o, n, f, g : d = upload.row.dir /\ o = upload /\ n = issued /\ f = files /\ g = files'
  OBVIOUS
<1>3. d \in Certificate!Names /\ f \in PairTypes /\ Operation(o, n) /\ o.row.dir = d
  BY <1>1, <1>2, OperationWorks DEF CertificateTypes, OperationTypes
<1>4. Certificate!Of(d)' = Certificate!Of(d)
  BY <1>1 DEF Certificate!Of, Certificate!Present
<1>5. CASE upload.at = "row"
  <2>1. g = [f EXCEPT ![d] = NoPair]
    BY <1>2, <1>5 DEF Certificate!UploadFails
  <2>2. g \in PairTypes /\ g[d] = NoPair /\ \A e \in Certificate!Names \ {d} : g[e] = f[e]
    BY <1>3, <2>1 DEF PairTypes
  <2>3. /\ files' \in PairTypes /\ files'[d] = NoPair
        /\ \A e \in Certificate!Names \ {d} : files'[e] = files[e]
    BY <1>2, <2>2
  <2>4. MakesNew(upload, d) => Agrees(d)'
    BY <1>4, <1>5, <2>3 DEF MakesNew, Agrees
  <2> QED
    BY <1>1, <1>2, <1>5, <2>3, <2>4, UploadEndsInv
<1>6. CASE upload.at # "row"
  <2>1. /\ g \in Certificate!Left(f, o)
        /\ ~certDisturbed' => files' = files /\ upload.at = "cert"
    BY <1>1, <1>2, <1>6 DEF Certificate!UploadFails
  <2>2. g \in PairTypes /\ \A e \in Certificate!Names \ {o.row.dir} : g[e] = f[e]
    BY <1>3, <2>1, FilesLeft
  <2>3. files' \in PairTypes /\ \A e \in Certificate!Names \ {d} : files'[e] = files[e]
    BY <1>2, <2>2
  <2>4. ~certDisturbed' => (MakesNew(upload, d) => Agrees(d)')
    BY <1>4, <2>1 DEF MakesNew, Agrees
  <2> QED
    BY <1>1, <1>2, <2>3, <2>4, UploadEndsInv
<1> QED
  BY <1>5, <1>6

-----------------------------------------------------------------------------
(* Handlers that show certificates, the listener, and restarts.            *)

LEMMA NowhereInv ==
  ASSUME CertificateParameters, CertificateInv, IssuedGrows, CertificateTypes',
         certDisturbed => certDisturbed', UNCHANGED <<files, op, upload>>,
         ~certDisturbed' => (\A e \in Certificate!Names : RowsKept(e)) /\ ListenerInv'
  PROVE  CertificateInv'
<1>1. ASSUME ~certDisturbed' PROVE (\A e \in Certificate!Names : Stands(e))' /\ ListenerInv'
  <2>1. ASSUME NEW e \in Certificate!Names PROVE Stands(e)'
    BY <1>1, StandsKept DEF CertificateInv
  <2> QED
    BY <1>1, <2>1
<1> QED
  BY <1>1 DEF CertificateInv

LEMMA ViewInv ==
  ASSUME CertificateParameters, CertificateInv, NEW i \in Certificate!Id, Certificate!View(i)
  PROVE  CertificateInv'
<1>1. /\ i \in Certificate!Present /\ view' = Certificate!Begin("view", "save", i, certificates[i])
      /\ UNCHANGED <<certificates, nextRow, files, cached, issued, keyOf, age, op, upload, certDisturbed>>
      /\ CertificateTypes
  BY DEF Certificate!View, Certificate!acme, CertificateInv
<1>2. PICK row, n : row = certificates[i] /\ n = issued
  OBVIOUS
<1>3. row \in CertificateRow /\ row.cert \in 1..n /\ n \in Nat /\ i \in Nat /\ Known(i) /\ "save" \in StepsOf("view")
  BY <1>1, <1>2, PresentFacts DEF CertificateTypes, StepsOf
<1>4. \E o : /\ o = Certificate!Begin("view", "save", i, row) /\ Operation(o, n)
             /\ o.at = "save" /\ o.at # "idle" /\ o.kind = "view" /\ o.id = i /\ o.row = row
  BY <1>3, OperationBegins
<1>5. /\ IssuedGrows /\ Certificate!Present' = Certificate!Present /\ \A e : RowsKept(e)
      /\ \A j \in Certificate!Present :
           Certificate!Pair(certificates[j])' = Certificate!Pair(certificates[j])
  BY <1>1, AllKept
<1>6. CertificateTypes'
  BY <1>1, <1>2, <1>3, <1>4, <1>5, RowTypesKept DEF CertificateTypes, OperationTypes, Known
<1>7. ~certDisturbed' => ListenerInv'
  BY <1>1, <1>5, ListenerKept DEF CertificateInv, Stale
<1> QED
  BY <1>1, <1>5, <1>6, <1>7, NowhereInv

LEMMA UpdateStatusInv ==
  ASSUME CertificateParameters, CertificateInv, Certificate!UpdateCertificateStatus
  PROVE  CertificateInv'
<1>1. /\ view.at = "save" /\ view' = Certificate!Idle /\ CertificateTypes
      /\ certificates' = [certificates EXCEPT ![view.id] =
                            [view.row EXCEPT !.status = Certificate!Status(view.row.cert)]]
      /\ certDisturbed' = (certDisturbed \/ certificates[view.id] # view.row)
      /\ UNCHANGED <<nextRow, files, cached, issued, keyOf, age, op, upload>>
  BY DEF Certificate!UpdateCertificateStatus, Certificate!acme, CertificateInv
<1>2. PICK old, i, status, row : /\ old = view.row /\ i = view.id /\ status = Certificate!Status(old.cert)
                                 /\ row = [old EXCEPT !.status = status]
  OBVIOUS
<1>3. old \in CertificateRow /\ old.cert \in 1..issued /\ Known(i) /\ issued \in Nat /\ issued <= MaxIssued
  BY <1>1, <1>2, OperationWorks DEF CertificateTypes
<1>4. status \in {"active", "expiring", "expired"}
  <2>1. age[old.cert] \in {"valid", "due", "expired"}
    <3>1. old.cert \in Certificate!Cert
      BY <1>3 DEF Certificate!Cert, CertificateParameters
    <3> QED
      BY <1>1, <3>1 DEF CertificateTypes
  <2> QED
    BY <1>2, <2>1 DEF Certificate!Status
<1>5. /\ row \in CertificateRow /\ row.cert = old.cert /\ row.dir = old.dir /\ row.key = old.key
      /\ row # NoRow
  <2>1. /\ row \in CertificateRow /\ row.cert = old.cert /\ row.dir = old.dir
        /\ row.key = old.key
    BY <1>2, <1>3, <1>4 DEF CertificateRow
  <2> QED
    BY <2>1 DEF CertificateParameters
<1>6. /\ i \in Certificate!Id /\ i < nextRow /\ RowTypes
      /\ certificates' = [certificates EXCEPT ![i] = row]
  BY <1>1, <1>2, <1>3 DEF Known, CertificateTypes
<1>7. /\ certificates' \in [Certificate!Id -> CertificateRow \cup {NoRow}]
      /\ certificates'[i] = row /\ \A j \in Certificate!Id \ {i} : certificates'[j] = certificates[j]
      /\ \A j : j \in Certificate!Present' <=>
           (j # i /\ j \in Certificate!Present) \/ (j = i /\ row # NoRow)
      /\ \A e, j : j \in Certificate!Of(e)' <=>
           (j # i /\ j \in Certificate!Of(e)) \/ (j = i /\ row # NoRow /\ row.dir = e)
  <2>1. row \in CertificateRow \cup {NoRow} /\ RowTypes /\ i \in Certificate!Id
    BY <1>5, <1>6
  <2>2. certificates' = [certificates EXCEPT ![i] = row]
    BY <1>6
  <2> QED
    BY <2>1, <2>2, RowWritten
<1>8. IssuedGrows
  BY <1>1 DEF IssuedGrows, CertificateTypes
<1>9. CertificateTypes'
  <2>1. RowTypes'
    <3>1. \A j \in Certificate!Present' : certificates'[j].cert \in 1..issued' /\ j < nextRow'
      BY <1>1, <1>3, <1>5, <1>6, <1>7 DEF CertificateTypes, RowTypes, Certificate!Present
    <3> QED
      BY <1>1, <1>7, <3>1 DEF CertificateTypes, RowTypes
  <2> QED
    BY <1>1, <2>1, IdleOperation DEF CertificateTypes, OperationTypes, Known
<1>10. ASSUME ~certDisturbed' PROVE (\A e \in Certificate!Names : RowsKept(e)) /\ ListenerInv'
  <2>1. certificates[i] = old /\ ~certDisturbed
    BY <1>1, <1>2, <1>10
  <2>2. i \in Certificate!Present
    BY <1>3, <1>6, <2>1 DEF Certificate!Present, CertificateParameters
  <2>3. Certificate!Present' = Certificate!Present
    BY <1>5, <1>7, <2>2
  <2>4. \A j \in Certificate!Present :
          Certificate!Pair(certificates[j])' = Certificate!Pair(certificates[j])
    BY <1>5, <1>7, <2>1 DEF Certificate!Present, Certificate!Pair
  <2>5. ASSUME NEW e \in Certificate!Names PROVE RowsKept(e)
    <3>1. i \in Certificate!Of(e) <=> row.dir = e
      BY <1>5, <2>1, <2>2 DEF Certificate!Of
    <3>2. Certificate!Of(e)' = Certificate!Of(e)
      BY <1>5, <1>7, <3>1
    <3> QED
      BY <2>4, <3>2 DEF RowsKept, Certificate!Of
  <2>6. Stale => Stale'
    BY <1>1 DEF Stale
  <2>7. ListenerInv'
    BY <1>1, <1>8, <2>1, <2>3, <2>4, <2>6, ListenerKept DEF CertificateInv
  <2> QED
    BY <2>5, <2>7
<1> QED
  BY <1>1, <1>8, <1>9, <1>10, NowhereInv

LEMMA LoadPairInv ==
  ASSUME CertificateParameters, CertificateInv, Certificate!LoadPair
  PROVE  CertificateInv'
<1>1. PICK i, d, pair : i = Certificate!Newest /\ d = certificates[i].dir /\ pair = files[d]
  OBVIOUS
<1>2. /\ Certificate!Present # {} /\ pair # NoPair /\ cached' = pair /\ CertificateTypes
      /\ UNCHANGED <<certificates, nextRow, files, issued, keyOf, age, op, upload, view, certDisturbed>>
  BY <1>1 DEF Certificate!LoadPair, Certificate!acme, CertificateInv
<1>3. i \in Certificate!Present /\ d \in Certificate!Names /\ i \in Certificate!Of(d)
  BY <1>1, <1>2, NewestFacts, PresentFacts DEF CertificateTypes
<1>4. IssuedGrows /\ Certificate!Present' = Certificate!Present /\ \A e : RowsKept(e)
  BY <1>2, AllKept
<1>5. CertificateTypes'
  BY <1>2, <1>4, RowTypesKept DEF CertificateTypes, OperationTypes, Known
<1>6. ASSUME ~certDisturbed', ~Stale PROVE cached' = Certificate!Pair(certificates[i])
  <2>1. Stands(d)
    BY <1>2, <1>3, <1>6 DEF CertificateInv
  <2>2. CASE Works(op, d)
    <3>1. op.kind # "request"
      BY <1>3, <1>6, <2>1, <2>2 DEF Stands, MakesNew, Stale
    <3>2. op.kind # "delete"
      BY <1>1, <1>2, <1>6, <2>1, <2>2, <3>1 DEF Stands, Changes, Stale
    <3>3. op.kind \in {"renew", "revoke"} /\ op.at \in StepsOf(op.kind)
      BY <1>2, <2>2, <3>1, <3>2, OperationWorks
         DEF CertificateTypes, OperationTypes, StepsOf, Works
    <3>4. Agrees(d)
      BY <1>6, <2>1, <2>2, <3>1, <3>3 DEF Stands, Changes, Stale, StepsOf
    <3> QED
      BY <1>1, <1>2, <1>3, <3>4 DEF Agrees
  <2>3. CASE Works(upload, d)
    BY <1>3, <1>6, <2>1, <2>3 DEF Stands, MakesNew, Stale
  <2>4. CASE Agrees(d)
    BY <1>1, <1>2, <1>3, <2>4 DEF Agrees
  <2> QED
    BY <2>1, <2>2, <2>3, <2>4 DEF Stands
<1>7. ~certDisturbed' => ListenerInv'
  <2>1. Certificate!Newest' = i /\ Stale' = Stale
    BY <1>1, <1>2, <1>4 DEF Certificate!Newest, Stale
  <2>2. Certificate!Pair(certificates[i])' = Certificate!Pair(certificates[i])
    BY <1>2 DEF Certificate!Pair
  <2> QED
    BY <1>2, <1>4, <1>6, <2>1, <2>2 DEF ListenerInv
<1> QED
  BY <1>2, <1>4, <1>5, <1>7, NowhereInv

LEMMA PairExpiresInv ==
  ASSUME CertificateParameters, CertificateInv, Certificate!CacheExpires
  PROVE  CertificateInv'
<1>1. /\ cached' = NoPair /\ CertificateTypes
      /\ UNCHANGED <<certificates, nextRow, files, issued, keyOf, age, op, upload, view, certDisturbed>>
  BY DEF Certificate!CacheExpires, Certificate!acme, CertificateInv
<1>2. IssuedGrows /\ Certificate!Present' = Certificate!Present /\ \A e : RowsKept(e)
  BY <1>1, AllKept
<1>3. CertificateTypes'
  BY <1>1, <1>2, RowTypesKept DEF CertificateTypes, OperationTypes, Known
<1> QED
  BY <1>1, <1>2, <1>3, NowhereInv DEF ListenerInv

LEMMA AgesInv ==
  ASSUME CertificateParameters, CertificateInv, NEW n \in Certificate!Cert, Certificate!Ages(n)
  PROVE  CertificateInv'
<1>1. /\ age' = [age EXCEPT ![n] = IF age[n] = "valid" THEN "due" ELSE "expired"] /\ CertificateTypes
      /\ UNCHANGED <<certificates, nextRow, files, cached, issued, keyOf, op, upload, view, certDisturbed>>
  BY DEF Certificate!Ages, CertificateInv
<1>2. /\ IssuedGrows /\ Certificate!Present' = Certificate!Present /\ \A e : RowsKept(e)
      /\ \A j \in Certificate!Present :
           Certificate!Pair(certificates[j])' = Certificate!Pair(certificates[j])
  BY <1>1, AllKept
<1>3. CertificateTypes'
  BY <1>1, <1>2, RowTypesKept DEF CertificateTypes, OperationTypes, Known
<1>4. ~certDisturbed' => ListenerInv'
  BY <1>1, <1>2, ListenerKept DEF CertificateInv, Stale
<1> QED
  BY <1>1, <1>2, <1>3, <1>4, NowhereInv

LEMMA CertificateRestartInv ==
  ASSUME CertificateParameters, CertificateInv, Certificate!Restart
  PROVE  CertificateInv'
<1>1. /\ op' = Certificate!Idle /\ upload' = Certificate!Idle /\ view' = Certificate!Idle
      /\ cached' = NoPair /\ CertificateTypes
      /\ UNCHANGED <<certificates, nextRow, issued, keyOf, age>>
      /\ \E f \in Certificate!Left(files, op) : files' \in Certificate!Left(f, upload)
      /\ certDisturbed => certDisturbed'
      /\ ~certDisturbed' => /\ files' = files /\ upload.at \notin {"key", "row"}
                            /\ ~(op.at \in {"key", "row", "delete"} /\ op.kind # "revoke")
  BY DEF Certificate!Restart, Certificate!acme, CertificateInv
<1>2. IssuedGrows /\ Certificate!Present' = Certificate!Present /\ \A e : RowsKept(e)
  BY <1>1, AllKept
<1>3. files' \in PairTypes
  <2>1. PICK o, u, n, f0, g : o = op /\ u = upload /\ n = issued /\ f0 = files /\ g = files'
    OBVIOUS
  <2>2. Operation(o, n) /\ Operation(u, n) /\ f0 \in PairTypes
    BY <1>1, <2>1 DEF CertificateTypes, OperationTypes
  <2>3. PICK f \in Certificate!Left(f0, o) : g \in Certificate!Left(f, u)
    BY <1>1, <2>1
  <2>4. f \in PairTypes
    BY <2>2, <2>3, FilesLeft
  <2>5. g \in PairTypes
    BY <2>2, <2>3, <2>4, FilesLeft
  <2> QED
    BY <2>1, <2>5
<1>4. CertificateTypes'
  BY <1>1, <1>2, <1>3, RowTypesKept, IdleOperation DEF CertificateTypes, OperationTypes, Known
<1>5. ASSUME ~certDisturbed' PROVE (\A d \in Certificate!Names : Stands(d))' /\ ListenerInv'
  <2>1. ASSUME NEW d \in Certificate!Names PROVE Stands(d)'
    <3>1. Stands(d)
      BY <1>1, <1>5 DEF CertificateInv
    <3>2. ASSUME Works(op, d) PROVE Agrees(d)
      <4>1. /\ op.at \in StepsOf(op.kind) /\ op.kind \in {"request", "renew", "revoke", "delete"}
            /\ op.at \in {"cert", "notify"} \/ (op.kind = "revoke" /\ op.at = "row")
        BY <1>1, <1>5, <3>2, OperationWorks
           DEF CertificateTypes, OperationTypes, StepsOf, Works
      <4> QED
        BY <3>1, <3>2, <4>1 DEF Stands, MakesNew, Changes, Agrees
    <3>3. ASSUME Works(upload, d) PROVE Agrees(d)
      <4>1. upload.at \in {"cert", "notify"}
        BY <1>1, <1>5, <3>3, OperationWorks DEF StepsOf, Works
      <4> QED
        BY <3>1, <3>3, <4>1 DEF Stands, MakesNew, Agrees
    <3>4. Agrees(d) => Stands(d)'
      <4>1. Agrees(d) => Agrees(d)'
        BY <1>1, <1>2, <1>5, AgreesKept
      <4>2. ~Works(op, d)' /\ ~Works(upload, d)' /\ Certificate!Of(d)' = Certificate!Of(d)
        BY <1>1, <1>2, IdleOperation DEF Works, RowsKept
      <4> QED
        BY <3>1, <4>1, <4>2 DEF Stands
    <3> QED
      BY <3>1, <3>2, <3>3, <3>4 DEF Stands
  <2>2. ListenerInv'
    BY <1>1 DEF ListenerInv
  <2> QED
    BY <2>1, <2>2
<1> QED
  BY <1>1, <1>4, <1>5 DEF CertificateInv

LEMMA CertificateInitInv == CertificateParameters /\ Certificate!Init => CertificateInv
<1> SUFFICES ASSUME CertificateParameters, Certificate!Init PROVE CertificateInv
  OBVIOUS
<1>1. Certificate!Present = {} /\ \A d : Certificate!Of(d) = {}
  BY DEF Certificate!Init, Certificate!Present, Certificate!Of
<1>2. op.at = "idle" /\ upload.at = "idle" /\ cached = NoPair
  BY IdleOperation DEF Certificate!Init
<1>3. CertificateTypes
  BY <1>1, IdleOperation
     DEF Certificate!Init, CertificateTypes, PairTypes, RowTypes, OperationTypes, CertificateParameters
<1>4. \A d \in Certificate!Names : Stands(d)
  BY <1>1, <1>2 DEF Certificate!Init, Stands, Works, Agrees
<1>5. ListenerInv
  BY <1>2 DEF ListenerInv
<1> QED
  BY <1>3, <1>4, <1>5 DEF CertificateInv

LEMMA CertificateNextInv ==
  CertificateParameters /\ CertificateInv /\ [Certificate!Next]_certificateVars => CertificateInv'
<1> SUFFICES ASSUME CertificateParameters, CertificateInv, [Certificate!Next]_certificateVars
             PROVE  CertificateInv'
  OBVIOUS
<1>1. CASE UNCHANGED certificateVars
  <2>1. UNCHANGED <<certificates, nextRow, files, cached, issued, keyOf, age, op, upload, view, certDisturbed>>
        /\ CertificateTypes
    BY <1>1 DEF certificateVars, CertificateInv
  <2>2. /\ IssuedGrows /\ Certificate!Present' = Certificate!Present /\ \A e : RowsKept(e)
        /\ \A j \in Certificate!Present :
             Certificate!Pair(certificates[j])' = Certificate!Pair(certificates[j])
    BY <2>1, AllKept
  <2>3. CertificateTypes'
    BY <2>1, <2>2, RowTypesKept DEF CertificateTypes, OperationTypes, Known
  <2>4. ~certDisturbed' => ListenerInv'
    BY <2>1, <2>2, ListenerKept DEF CertificateInv, Stale
  <2> QED
    BY <2>1, <2>2, <2>3, <2>4, NowhereInv
<1>2. ASSUME Certificate!Handle PROVE CertificateInv'
  BY <1>2, RequestCertificateInv, RenewCertificateInv, RevokeCertificateInv, DeleteCertificateInv
     DEF Certificate!Handle
<1>3. ASSUME NEW i \in Certificate!Id, Certificate!CheckAndRenew(i) PROVE CertificateInv'
  BY <1>3, RenewCertificateInv DEF Certificate!CheckAndRenew
<1>4. CASE Certificate!Next
  BY <1>2, <1>3, <1>4, SaveCertificateInv, SaveRowInv, DeleteRowInv, NotifyInv, OperationFailsInv,
     UploadFileInv, UploadRowInv, UploadNotifyInv, UploadFailsInv, UpdateStatusInv, LoadPairInv,
     PairExpiresInv, CertificateRestartInv, UploadCertificateInv, ViewInv, AgesInv
     DEF Certificate!Next
<1> QED
  BY <1>1, <1>4

\* With nobody at work a directory holds the certificate and the key its row
\* came with, a directory without a row holds none, and the listener has the
\* pair that expires last, unless disturbed (CertificateService, subListener).
THEOREM FilesFollowRows ==
  ASSUME CertificateParameters
  PROVE  Spec => []CertificatesStand
<1> DEFINE Inv == part = "certificates" => CertificateInv
<1>1. Init => Inv
  BY CertificateInitInv DEF Init
<1>2. Inv /\ [Next]_vars => Inv'
  BY Exercised, CertificateNextInv
<1>3. Inv => CertificatesStand
  <2> SUFFICES ASSUME CertificateInv PROVE Certificate!CertificatesStand
    BY DEF CertificatesStand
  <2> SUFFICES ASSUME op = Certificate!Idle, upload = Certificate!Idle, ~certDisturbed
               PROVE  /\ \A i \in Certificate!Present :
                           files[certificates[i].dir] = Certificate!Pair(certificates[i])
                      /\ \A d \in Certificate!Names : Certificate!Of(d) = {} => files[d] = NoPair
                      /\ cached # NoPair =>
                           /\ Certificate!Present # {}
                           /\ cached = Certificate!Pair(certificates[Certificate!Newest])
    BY DEF Certificate!CertificatesStand
  <2>1. op.at = "idle" /\ upload.at = "idle"
    BY IdleOperation
  <2>2. \A d \in Certificate!Names : Agrees(d)
    BY <2>1 DEF CertificateInv, Stands, Works
  <2>3. \A i \in Certificate!Present :
          certificates[i].dir \in Certificate!Names /\ i \in Certificate!Of(certificates[i].dir)
    BY PresentFacts DEF CertificateInv, CertificateTypes
  <2>4. ~Stale
    BY <2>1 DEF Stale
  <2> QED
    BY <2>2, <2>3, <2>4 DEF Agrees, CertificateInv, ListenerInv
<1> QED
  BY <1>1, <1>2, <1>3, PTL DEF Spec

-----------------------------------------------------------------------------
(***************************************************************************)
(* Admins: what was asked for is in force.                                 *)
(***************************************************************************)
AdminParameters ==
  MaxPasswords \in Nat /\ MaxSecrets \in Nat /\ MaxChallenges \in Nat /\ MaxCredentials \in Nat

AdminRow == [password : Nat, legacy : BOOLEAN, secret : Nat, enabled : BOOLEAN]

AdminSteps == {"idle", "rehash", "save", "credential", "password", "enable", "disable"}

AdminTypes ==
  /\ admin \in AdminRow /\ asked \in AdminRow
  /\ worker \in [Client -> [at : AdminSteps, row : AdminRow, arg : Nat]]
  /\ nextSecret \in Nat
  /\ overlapped \in BOOLEAN /\ hasty \in BOOLEAN

\* A login that met nobody is the only request at work, and what it read is
\* the row still.
AskedInv ==
  ~overlapped =>
    /\ admin = asked
    /\ \A c \in Client : Admin!At(c) \in {"rehash", "save"} => worker[c].row = admin
    /\ \A c, o \in Client : Admin!At(c) \in Admin!Logging /\ o # c => Admin!At(o) = "idle"

\* The secret that is checked, or about to be, is one a code was shown for.
ConfirmedInv ==
  ~overlapped /\ ~hasty /\ (admin.enabled \/ \E c \in Client : Admin!At(c) = "enable") =>
    admin.secret \in confirmed

AdminInv == AdminTypes /\ AskedInv /\ ConfirmedInv

PasskeyTypes ==
  /\ nextChallenge \in Nat /\ nextChallenge >= 1 /\ nextCredential \in Nat
  /\ used \in [Admin!Challenge -> Nat]
  /\ \A n \in challenges : n \in Admin!Challenge /\ n < nextChallenge
  /\ \A id \in credentials \cup deleted : id \in Nat /\ id < nextCredential

\* What a login holds was not deleted.
CredentialInv ==
  /\ \A c \in Client : Admin!At(c) = "credential" =>
       worker[c].arg < nextCredential /\ (overlapped \/ worker[c].arg \notin deleted)
  /\ ~overlapped => credentials \cap deleted = {}

\* A challenge that may be answered was not.
ChallengeInv ==
  \A n \in Admin!Challenge : used[n] <= 1 /\ (n \in challenges \/ n >= nextChallenge => used[n] = 0)

PasskeyInv == PasskeyTypes /\ CredentialInv /\ ChallengeInv

-----------------------------------------------------------------------------
(* What a step makes of the requests.                                      *)

LEMMA WorkerSteps ==
  ASSUME AdminTypes, NEW c \in Client
  PROVE  /\ Admin!End(c) =>
              /\ worker' \in [Client -> [at : AdminSteps, row : AdminRow, arg : Nat]]
              /\ Admin!At(c)' = "idle" /\ \A o \in Client \ {c} : worker'[o] = worker[o]
         /\ \A to \in AdminSteps : \A n \in Nat : Admin!Begin(c, to, n) =>
              /\ worker' \in [Client -> [at : AdminSteps, row : AdminRow, arg : Nat]]
              /\ Admin!At(c)' = to /\ worker'[c].arg = n /\ \A o \in Client \ {c} : worker'[o] = worker[o]
              /\ to \in {"rehash", "save"} => worker'[c].row = admin
              /\ Admin!At(c) = "idle" /\ overlapped' \in BOOLEAN
              /\ ~overlapped' => /\ ~overlapped
                                 /\ \A o \in Client \ {c} : Admin!At(o) # "idle" =>
                                      to \notin Admin!Logging /\ Admin!At(o) \notin Admin!Logging
         /\ Admin!Alone(c) =>
              /\ worker' = worker /\ Admin!At(c) = "idle" /\ overlapped' \in BOOLEAN
              /\ ~overlapped' => /\ ~overlapped
                                 /\ \A o \in Client : Admin!At(o) \notin Admin!Logging
<1> DEFINE Workers == [Client -> [at : AdminSteps, row : AdminRow, arg : Nat]]
<1>1. admin \in AdminRow /\ worker \in Workers /\ overlapped \in BOOLEAN
  BY DEF AdminTypes
<1>2. Admin!Idle \in [at : AdminSteps, row : AdminRow, arg : Nat] /\ Admin!Idle.at = "idle" /\ Admin!Blank \in AdminRow
  BY DEF Admin!Idle, Admin!Blank, AdminSteps, AdminRow
<1>3. Admin!End(c) => /\ worker' \in Workers /\ Admin!At(c)' = "idle"
                      /\ \A o \in Client \ {c} : worker'[o] = worker[o]
  BY <1>1, <1>2 DEF Admin!End, Admin!At
<1>4. ASSUME NEW to \in AdminSteps, NEW n \in Nat, Admin!Begin(c, to, n)
      PROVE  /\ worker' \in Workers
             /\ Admin!At(c)' = to /\ worker'[c].arg = n /\ \A o \in Client \ {c} : worker'[o] = worker[o]
             /\ to \in {"rehash", "save"} => worker'[c].row = admin
             /\ Admin!At(c) = "idle" /\ overlapped' \in BOOLEAN
             /\ ~overlapped' => /\ ~overlapped
                                /\ \A o \in Client \ {c} : Admin!At(o) # "idle" =>
                                     to \notin Admin!Logging /\ Admin!At(o) \notin Admin!Logging
  <2>1. PICK record : record = [at |-> to, arg |-> n,
                                row |-> IF to \in {"rehash", "save"} THEN admin ELSE Admin!Blank]
    OBVIOUS
  <2>2. /\ record \in [at : AdminSteps, row : AdminRow, arg : Nat] /\ record.at = to /\ record.arg = n
        /\ to \in {"rehash", "save"} => record.row = admin
    BY <1>1, <1>2, <2>1
  <2>3. worker' = [worker EXCEPT ![c] = record] /\ Admin!At(c) = "idle"
        /\ overlapped' = (overlapped \/ \E o \in Admin!Others(c) : {to, Admin!At(o)} \cap Admin!Logging # {})
    BY <1>4, <2>1 DEF Admin!Begin
  <2>4. /\ worker' \in Workers /\ worker'[c] = record /\ \A o \in Client \ {c} : worker'[o] = worker[o]
    BY <1>1, <2>2, <2>3
  <2>5. /\ overlapped' \in BOOLEAN
        /\ ~overlapped' => /\ ~overlapped
                           /\ \A o \in Client \ {c} : Admin!At(o) # "idle" =>
                                to \notin Admin!Logging /\ Admin!At(o) \notin Admin!Logging
    BY <1>1, <2>3 DEF Admin!Others
  <2> QED
    BY <2>2, <2>3, <2>4, <2>5 DEF Admin!At
<1>5. ASSUME Admin!Alone(c)
      PROVE  /\ worker' = worker /\ Admin!At(c) = "idle" /\ overlapped' \in BOOLEAN
             /\ ~overlapped' => /\ ~overlapped
                                /\ \A o \in Client : Admin!At(o) \notin Admin!Logging
  <2>1. /\ worker' = worker /\ Admin!At(c) = "idle"
        /\ overlapped' = (overlapped \/ \E o \in Admin!Others(c) : Admin!At(o) \in Admin!Logging)
    BY <1>5 DEF Admin!Alone
  <2>2. "idle" \notin Admin!Logging
    BY DEF Admin!Logging
  <2>3. overlapped' \in BOOLEAN
    BY <1>1, <2>1
  <2>4. ASSUME ~overlapped', NEW o \in Client PROVE ~overlapped /\ Admin!At(o) \notin Admin!Logging
    BY <1>1, <2>1, <2>2, <2>4 DEF Admin!Others, Admin!Logging
  <2> QED
    BY <1>1, <2>1, <2>3, <2>4
<1> QED
  BY <1>3, <1>4, <1>5

\* A step that reads the row, or ends a request, and writes nothing.
LEMMA ReadingInv ==
  ASSUME AdminInv, NEW c \in Client, UNCHANGED <<admin, asked>>,
         AdminTypes', hasty' = hasty, confirmed \subseteq confirmed',
         \A o \in Client \ {c} : worker'[o] = worker[o],
         ~overlapped' => ~overlapped,
         ~overlapped' =>
            /\ Admin!At(c)' \in {"rehash", "save"} => worker'[c].row = admin
            /\ Admin!At(c)' \in Admin!Logging => \A o \in Client \ {c} : Admin!At(o) = "idle"
            /\ Admin!At(c)' # "idle" => \A o \in Client \ {c} : Admin!At(o) \notin Admin!Logging,
         Admin!At(c)' = "enable" => admin.secret \in confirmed'
  PROVE  AdminInv'
<1>1. \A o \in Client \ {c} : Admin!At(o)' = Admin!At(o)
  BY DEF Admin!At
<1>2. AskedInv'
  <2> SUFFICES ASSUME ~overlapped'
               PROVE  /\ (admin = asked)'
                      /\ \A d \in Client : Admin!At(d)' \in {"rehash", "save"} => (worker[d].row = admin)'
                      /\ \A d, o \in Client : Admin!At(d)' \in Admin!Logging /\ o # d => Admin!At(o)' = "idle"
    BY DEF AskedInv, Admin!Logging
  <2>1. ~overlapped /\ AskedInv
    BY DEF AdminInv
  <2>2. (admin = asked)'
    BY <2>1 DEF AskedInv
  <2>3. ASSUME NEW d \in Client, Admin!At(d)' \in {"rehash", "save"} PROVE (worker[d].row = admin)'
    BY <1>1, <2>1, <2>3 DEF AskedInv
  <2>4. ASSUME NEW d \in Client, NEW o \in Client, Admin!At(d)' \in Admin!Logging, o # d
        PROVE  Admin!At(o)' = "idle"
    BY <1>1, <2>1, <2>4 DEF AskedInv
  <2> QED
    BY <2>2, <2>3, <2>4
<1>3. ConfirmedInv'
  BY <1>1 DEF AdminInv, ConfirmedInv
<1> QED
  BY <1>2, <1>3 DEF AdminInv

\* A step that writes the columns asked for, with no login at work.
LEMMA WritingInv ==
  ASSUME AdminInv, NEW c \in Client, AdminTypes',
         \A o \in Client \ {c} : worker'[o] = worker[o],
         Admin!At(c) \notin Admin!Logging, Admin!At(c)' = Admin!At(c) \/ Admin!At(c)' = "idle",
         ~overlapped' => ~overlapped,
         ~overlapped' => \A o \in Client : Admin!At(o) \notin Admin!Logging,
         ~overlapped' => admin' = asked',
         ConfirmedInv'
  PROVE  AdminInv'
<1>1. ~overlapped' => \A o \in Client : Admin!At(o)' \notin Admin!Logging
  BY DEF Admin!At, Admin!Logging
<1>2. AskedInv'
  BY <1>1 DEF AskedInv, Admin!Logging
<1> QED
  BY <1>2 DEF AdminInv

-----------------------------------------------------------------------------
(* The handlers.                                                           *)

\* A login reads the row, and writes it back as it was.
LEMMA SessionLoginInv ==
  ASSUME AdminParameters, AdminInv, NEW c \in Client, Admin!SessionLogin(c)
  PROVE  AdminInv'
<1>1. ASSUME NEW password \in Admin!Password, NEW code \in 0..MaxSecrets, Admin!Login(c, password, code)
      PROVE  AdminInv'
  <2>1. PICK to \in {"rehash", "save"} : Admin!Begin(c, to, 0)
    BY <1>1 DEF Admin!Login
  <2>2. /\ UNCHANGED <<admin, asked, confirmed, hasty, nextSecret>> /\ to \in AdminSteps /\ to \in Admin!Logging
        /\ to # "enable" /\ AdminTypes
    BY <1>1 DEF Admin!Login, Admin!counters, AdminSteps, Admin!Logging, AdminInv
  <2>3. /\ worker' \in [Client -> [at : AdminSteps, row : AdminRow, arg : Nat]]
        /\ Admin!At(c)' = to /\ \A o \in Client \ {c} : worker'[o] = worker[o]
        /\ worker'[c].row = admin /\ overlapped' \in BOOLEAN
        /\ ~overlapped' => ~overlapped /\ \A o \in Client \ {c} : Admin!At(o) = "idle"
    BY <2>1, <2>2, WorkerSteps
  <2>4. AdminTypes'
    BY <2>2, <2>3 DEF AdminTypes
  <2> QED
    BY <2>2, <2>3, <2>4, ReadingInv DEF Admin!Logging
<1>2. CASE Admin!Rehash(c)
  <2>1. PICK w : w = worker[c]
    OBVIOUS
  <2>2. /\ w \in [at : AdminSteps, row : AdminRow, arg : Nat] /\ w.at = "rehash"
        /\ admin \in AdminRow /\ asked \in AdminRow
        /\ admin' = [admin EXCEPT !.password = w.row.password, !.legacy = FALSE]
        /\ asked' = [asked EXCEPT !.legacy = FALSE]
        /\ worker' = [worker EXCEPT ![c] = [w EXCEPT !.at = "save", !.row.legacy = FALSE]]
        /\ UNCHANGED <<confirmed, overlapped, hasty, nextSecret>>
    BY <1>2, <2>1 DEF Admin!Rehash, Admin!At, AdminInv, AdminTypes, Admin!counters
  <2>3. PICK v : v = [w EXCEPT !.at = "save", !.row.legacy = FALSE]
    OBVIOUS
  <2>4. /\ v \in [at : AdminSteps, row : AdminRow, arg : Nat] /\ v.at = "save"
        /\ v.row = [w.row EXCEPT !.legacy = FALSE]
    BY <2>2, <2>3 DEF AdminSteps, AdminRow
  <2>5. /\ worker' \in [Client -> [at : AdminSteps, row : AdminRow, arg : Nat]]
        /\ worker'[c] = v /\ \A o \in Client \ {c} : worker'[o] = worker[o]
    BY <2>2, <2>3, <2>4 DEF AdminInv, AdminTypes
  <2>6. /\ admin' \in AdminRow /\ asked' \in AdminRow
        /\ admin'.secret = admin.secret /\ admin'.enabled = admin.enabled
        /\ (w.row = admin /\ admin = asked => admin' = asked' /\ v.row = admin')
    <3>1. PICK r : r = w.row
      OBVIOUS
    <3>2. PICK a : a = admin
      OBVIOUS
    <3>3. PICK b : b = asked
      OBVIOUS
    <3>4. r \in AdminRow /\ a \in AdminRow /\ b \in AdminRow
      BY <2>2, <3>1, <3>2, <3>3
    <3>5. /\ admin' = [a EXCEPT !.password = r.password, !.legacy = FALSE]
          /\ asked' = [b EXCEPT !.legacy = FALSE] /\ v.row = [r EXCEPT !.legacy = FALSE]
      BY <2>2, <2>4, <3>1, <3>2, <3>3
    <3>6. admin' \in AdminRow /\ admin'.secret = a.secret /\ admin'.enabled = a.enabled
      BY <3>4, <3>5 DEF AdminRow
    <3>7. asked' \in AdminRow
      BY <3>4, <3>5 DEF AdminRow
    <3>8. ASSUME r = a, a = b
          PROVE  admin' = asked' /\ v.row = admin'
      <4>1. [a EXCEPT !.password = a.password, !.legacy = FALSE] = [a EXCEPT !.legacy = FALSE]
        BY <3>4 DEF AdminRow
      <4> QED
        BY <3>5, <3>8, <4>1
    <3> QED
      BY <3>1, <3>2, <3>3, <3>6, <3>7, <3>8
  <2>7. AdminTypes'
    BY <2>2, <2>5, <2>6 DEF AdminInv, AdminTypes
  <2>8. Admin!At(c) = "rehash" /\ Admin!At(c)' = "save" /\ \A o \in Client \ {c} : Admin!At(o)' = Admin!At(o)
    BY <2>1, <2>2, <2>4, <2>5 DEF Admin!At
  <2>9. AskedInv'
    <3> SUFFICES ASSUME ~overlapped'
                 PROVE  /\ admin' = asked'
                        /\ \A d \in Client : Admin!At(d)' \in {"rehash", "save"} => worker'[d].row = admin'
                        /\ \A d, o \in Client : Admin!At(d)' \in Admin!Logging /\ o # d => Admin!At(o)' = "idle"
      BY DEF AskedInv, Admin!Logging
    <3>1. /\ admin = asked /\ w.row = admin /\ \A o \in Client \ {c} : Admin!At(o) = "idle"
      BY <2>1, <2>2, <2>8 DEF AdminInv, AskedInv, Admin!Logging
    <3> QED
      BY <2>5, <2>6, <2>8, <3>1 DEF Admin!Logging
  <2>10. ConfirmedInv'
    BY <2>2, <2>6, <2>8 DEF AdminInv, ConfirmedInv
  <2> QED
    BY <2>7, <2>9, <2>10 DEF AdminInv
<1>3. CASE Admin!SaveAdmin(c)
  <2>1. /\ admin' = worker[c].row /\ Admin!At(c) = "save" /\ Admin!End(c) /\ AdminTypes
        /\ UNCHANGED <<asked, confirmed, overlapped, hasty, nextSecret>>
    BY <1>3 DEF Admin!SaveAdmin, Admin!history, Admin!counters, AdminInv
  <2>2. /\ worker' \in [Client -> [at : AdminSteps, row : AdminRow, arg : Nat]]
        /\ Admin!At(c)' = "idle" /\ \A o \in Client \ {c} : worker'[o] = worker[o]
    BY <2>1, WorkerSteps
  <2>3. AdminTypes'
    BY <2>1, <2>2 DEF AdminTypes
  <2>4. CASE overlapped
    BY <2>1, <2>3, <2>4 DEF AdminInv, AskedInv, ConfirmedInv
  <2>5. CASE ~overlapped
    <3>1. admin' = admin /\ \A o \in Client \ {c} : Admin!At(o) = "idle"
      BY <2>1, <2>5 DEF AdminInv, AskedInv, Admin!Logging
    <3> QED
      BY <2>1, <2>2, <2>3, <3>1, ReadingInv DEF Admin!Logging
  <2> QED
    BY <2>4, <2>5 DEF AdminTypes, AdminInv
<1> QED
  BY <1>1, <1>2, <1>3 DEF Admin!SessionLogin

\* The handlers before they write, and those that give up.
LEMMA BeginningInv ==
  ASSUME AdminParameters, AdminInv, NEW c \in Client,
         \/ Admin!WriteFails(c)
         \/ \E code \in 1..MaxSecrets : Admin!TOTPVerify(c, code)
         \/ \E p \in Admin!Password : \/ \E new \in Admin!Password : Admin!ChangePassword(c, p, new)
                                      \/ Admin!TOTPDisable(c, p)
  PROVE  AdminInv'
<1>1. CASE Admin!WriteFails(c)
  <2>1. /\ Admin!End(c) /\ AdminTypes /\ UNCHANGED <<admin, asked, confirmed, overlapped, hasty, nextSecret>>
    BY <1>1 DEF Admin!WriteFails, Admin!history, Admin!counters, AdminInv
  <2>2. /\ worker' \in [Client -> [at : AdminSteps, row : AdminRow, arg : Nat]]
        /\ Admin!At(c)' = "idle" /\ \A o \in Client \ {c} : worker'[o] = worker[o]
    BY <2>1, WorkerSteps
  <2>3. AdminTypes'
    BY <2>1, <2>2 DEF AdminTypes
  <2> QED
    BY <2>1, <2>2, <2>3, ReadingInv DEF Admin!Logging
<1>2. ASSUME NEW to \in {"password", "enable", "disable"}, NEW n \in Nat, Admin!Begin(c, to, n),
             UNCHANGED <<admin, asked, hasty, nextSecret>>, confirmed \subseteq confirmed',
             to = "enable" => admin.secret \in confirmed'
      PROVE  AdminInv'
  <2>1. to \in AdminSteps /\ to \notin Admin!Logging /\ to \notin {"rehash", "save"} /\ AdminTypes
    BY <1>2 DEF AdminSteps, Admin!Logging, AdminInv
  <2>2. /\ worker' \in [Client -> [at : AdminSteps, row : AdminRow, arg : Nat]]
        /\ Admin!At(c)' = to /\ \A o \in Client \ {c} : worker'[o] = worker[o]
        /\ overlapped' \in BOOLEAN /\ Admin!At(c) = "idle"
        /\ ~overlapped' => /\ ~overlapped
                           /\ \A o \in Client \ {c} : Admin!At(o) # "idle" => Admin!At(o) \notin Admin!Logging
    BY <1>2, <2>1, WorkerSteps
  <2>3. AdminTypes'
    BY <1>2, <2>1, <2>2 DEF AdminTypes
  <2>4. "idle" \notin Admin!Logging
    BY DEF Admin!Logging
  <2> QED
    BY <1>2, <2>1, <2>2, <2>3, <2>4, ReadingInv
<1>3. ASSUME NEW code \in 1..MaxSecrets, Admin!TOTPVerify(c, code) PROVE AdminInv'
  <2>1. /\ Admin!Begin(c, "enable", 0) /\ UNCHANGED <<admin, asked, hasty, nextSecret>>
        /\ confirmed \subseteq confirmed' /\ admin.secret \in confirmed'
    BY <1>3 DEF Admin!TOTPVerify, Admin!counters
  <2> QED
    BY <1>2, <2>1
<1>4. ASSUME NEW p \in Admin!Password, NEW new \in Admin!Password, Admin!ChangePassword(c, p, new)
      PROVE  AdminInv'
  <2>1. /\ Admin!Begin(c, "password", new) /\ UNCHANGED <<admin, asked, hasty, nextSecret, confirmed>> /\ new \in Nat
    BY <1>4 DEF Admin!ChangePassword, Admin!counters, Admin!Password
  <2> QED
    BY <1>2, <2>1
<1>5. ASSUME NEW p \in Admin!Password, Admin!TOTPDisable(c, p) PROVE AdminInv'
  <2>1. /\ Admin!Begin(c, "disable", 0) /\ UNCHANGED <<admin, asked, hasty, nextSecret, confirmed>>
    BY <1>5 DEF Admin!TOTPDisable, Admin!counters
  <2> QED
    BY <1>2, <2>1
<1> QED
  BY <1>1, <1>3, <1>4, <1>5

\* What is written is what is asked for, and nobody else has the row in hand.
LEMMA WritesInv ==
  ASSUME AdminParameters, AdminInv, NEW c \in Client,
         Admin!UpdatePassword(c) \/ Admin!Enable(c) \/ Admin!Disable(c) \/ Admin!TOTPSetup(c)
  PROVE  AdminInv'
<1>1. PICK n, m, row, wish : n = worker[c].arg /\ m = nextSecret /\ row = admin /\ wish = asked
  OBVIOUS
<1>2. n \in Nat /\ m \in Nat /\ row \in AdminRow /\ wish \in AdminRow /\ AdminTypes
  BY <1>1 DEF AdminInv, AdminTypes
<1>3. ASSUME Admin!At(c) \in {"password", "enable", "disable"}, Admin!End(c), overlapped' = overlapped,
             hasty' \in BOOLEAN, nextSecret' = nextSecret, admin' \in AdminRow, asked' \in AdminRow,
             row = wish => admin' = asked', ConfirmedInv'
      PROVE  AdminInv'
  <2>1. /\ worker' \in [Client -> [at : AdminSteps, row : AdminRow, arg : Nat]]
        /\ Admin!At(c)' = "idle" /\ \A o \in Client \ {c} : worker'[o] = worker[o]
    BY <1>2, <1>3, WorkerSteps
  <2>2. AdminTypes'
    BY <1>2, <1>3, <2>1 DEF AdminTypes
  <2>3. ~overlapped => row = wish /\ \A o \in Client : Admin!At(o) \notin Admin!Logging
    BY <1>1, <1>3 DEF AdminInv, AskedInv, Admin!Logging
  <2>4. Admin!At(c) \notin Admin!Logging
    BY <1>3 DEF Admin!Logging
  <2> QED
    BY <1>3, <2>1, <2>2, <2>3, <2>4, WritingInv
<1>4. CASE Admin!UpdatePassword(c)
  <2>1. /\ Admin!At(c) = "password" /\ Admin!End(c) /\ UNCHANGED <<confirmed, overlapped, hasty, nextSecret>>
        /\ admin' = [row EXCEPT !.password = n, !.legacy = FALSE]
        /\ asked' = [wish EXCEPT !.password = n, !.legacy = FALSE]
    BY <1>1, <1>4 DEF Admin!UpdatePassword, Admin!Write, Admin!counters
  <2>2. /\ admin' \in AdminRow /\ asked' \in AdminRow /\ (row = wish => admin' = asked')
        /\ admin'.secret = row.secret /\ admin'.enabled = row.enabled
    BY <1>2, <2>1 DEF AdminRow
  <2>3. \A o \in Client : Admin!At(o)' = "enable" => Admin!At(o) = "enable"
    BY <1>2, <2>1, WorkerSteps DEF Admin!At
  <2>4. ConfirmedInv'
    BY <1>1, <2>1, <2>2, <2>3 DEF AdminInv, ConfirmedInv
  <2> QED
    BY <1>2, <1>3, <2>1, <2>2, <2>4 DEF AdminTypes
<1>5. CASE Admin!Enable(c)
  <2>1. /\ Admin!At(c) = "enable" /\ Admin!End(c) /\ UNCHANGED <<confirmed, overlapped, hasty, nextSecret>>
        /\ admin' = [row EXCEPT !.enabled = TRUE]
        /\ asked' = [wish EXCEPT !.enabled = TRUE]
    BY <1>1, <1>5 DEF Admin!Enable, Admin!Write, Admin!counters
  <2>2. /\ admin' \in AdminRow /\ asked' \in AdminRow /\ (row = wish => admin' = asked')
        /\ admin'.secret = row.secret
    BY <1>2, <2>1 DEF AdminRow
  <2>3. ConfirmedInv'
    BY <1>1, <2>1, <2>2 DEF AdminInv, ConfirmedInv
  <2> QED
    BY <1>2, <1>3, <2>1, <2>2, <2>3 DEF AdminTypes
<1>6. CASE Admin!Disable(c)
  <2>1. /\ Admin!At(c) = "disable" /\ Admin!End(c) /\ UNCHANGED <<confirmed, overlapped, nextSecret>>
        /\ hasty' = (hasty \/ \E o \in Client : Admin!At(o) = "enable")
        /\ admin' = [row EXCEPT !.enabled = FALSE, !.secret = 0]
        /\ asked' = [wish EXCEPT !.enabled = FALSE, !.secret = 0]
    BY <1>1, <1>6 DEF Admin!Disable, Admin!Write, Admin!counters
  <2>2. /\ admin' \in AdminRow /\ asked' \in AdminRow /\ (row = wish => admin' = asked')
        /\ ~admin'.enabled
    BY <1>2, <2>1 DEF AdminRow
  <2>3. \A o \in Client : Admin!At(o)' = "enable" => Admin!At(o) = "enable"
    BY <1>2, <2>1, WorkerSteps DEF Admin!At
  <2>4. ConfirmedInv' /\ hasty' \in BOOLEAN
    BY <1>2, <2>1, <2>2, <2>3 DEF ConfirmedInv, AdminTypes
  <2> QED
    BY <1>3, <2>1, <2>2, <2>4
<1>7. CASE Admin!TOTPSetup(c)
  <2>1. /\ nextSecret' = m + 1 /\ Admin!Alone(c) /\ confirmed' = confirmed
        /\ hasty' = (hasty \/ row.enabled \/ \E o \in Client : Admin!At(o) = "enable")
        /\ admin' = [row EXCEPT !.secret = m] /\ asked' = [wish EXCEPT !.secret = m]
    BY <1>1, <1>7 DEF Admin!TOTPSetup, Admin!Write
  <2>2. /\ admin' \in AdminRow /\ asked' \in AdminRow /\ (row = wish => admin' = asked')
        /\ admin'.enabled = row.enabled
    BY <1>2, <2>1 DEF AdminRow
  <2>3. /\ worker' = worker /\ Admin!At(c) = "idle" /\ overlapped' \in BOOLEAN
        /\ ~overlapped' => ~overlapped /\ \A o \in Client : Admin!At(o) \notin Admin!Logging
    BY <1>2, <2>1, WorkerSteps
  <2>4. hasty' \in BOOLEAN /\ (~hasty' => ~hasty /\ ~row.enabled /\ \A o \in Client : Admin!At(o) # "enable")
    BY <1>2, <2>1 DEF AdminTypes, AdminRow
  <2>5. ConfirmedInv'
    BY <2>2, <2>3, <2>4 DEF ConfirmedInv, Admin!At
  <2>6. AdminTypes'
    BY <1>2, <2>1, <2>2, <2>3, <2>4 DEF AdminTypes
  <2>7. ~overlapped => row = wish
    BY <1>1 DEF AdminInv, AskedInv
  <2>8. Admin!At(c)' = Admin!At(c) /\ Admin!At(c) \notin Admin!Logging
    BY <2>3 DEF Admin!At, Admin!Logging
  <2> QED
    BY <2>2, <2>3, <2>5, <2>6, <2>7, <2>8, WritingInv
<1> QED
  BY <1>4, <1>5, <1>6, <1>7

\* The passkeys' handlers read the row at most.
LEMMA PasskeysAside ==
  ASSUME AdminParameters, AdminInv, PasskeyInv, NEW c \in Client,
         \/ Admin!WebAuthnRegisterFinish(c) \/ Admin!WebAuthnAuthenticateFinish(c)
         \/ Admin!WebAuthnDeleteCredential(c)
  PROVE  AdminInv'
<1>1. UNCHANGED <<admin, asked, confirmed, hasty, nextSecret>> /\ AdminTypes
  BY DEF Admin!WebAuthnRegisterFinish, Admin!WebAuthnAuthenticateFinish, Admin!WebAuthnDeleteCredential,
         Admin!FinishRegistration, Admin!FinishAuthentication, Admin!DeleteCredential, Admin!SaveCredential,
         Admin!counters, Admin!history, AdminInv
<1>2. CASE Admin!Alone(c)
  <2>1. /\ worker' = worker /\ Admin!At(c) = "idle" /\ overlapped' \in BOOLEAN /\ (~overlapped' => ~overlapped)
    BY <1>1, <1>2, WorkerSteps
  <2>2. AdminTypes'
    BY <1>1, <2>1 DEF AdminTypes
  <2>3. Admin!At(c)' = "idle" /\ "idle" \notin Admin!Logging
    BY <2>1 DEF Admin!At, Admin!Logging
  <2> QED
    BY <1>1, <2>1, <2>2, <2>3, ReadingInv
<1>3. ASSUME NEW id \in Nat, Admin!Begin(c, "credential", id) PROVE AdminInv'
  <2>1. "credential" \in AdminSteps /\ "credential" \in Admin!Logging /\ "credential" \notin {"rehash", "save"}
    BY DEF AdminSteps, Admin!Logging
  <2>2. /\ worker' \in [Client -> [at : AdminSteps, row : AdminRow, arg : Nat]]
        /\ Admin!At(c)' = "credential" /\ \A o \in Client \ {c} : worker'[o] = worker[o]
        /\ overlapped' \in BOOLEAN /\ Admin!At(c) = "idle"
        /\ ~overlapped' => ~overlapped /\ \A o \in Client \ {c} : Admin!At(o) = "idle"
    BY <1>1, <1>3, <2>1, WorkerSteps
  <2>3. AdminTypes'
    BY <1>1, <2>2 DEF AdminTypes
  <2> QED
    BY <1>1, <2>2, <2>3, ReadingInv DEF Admin!Logging
<1>4. CASE Admin!SaveCredential(c)
  <2>1. PICK record : record = [at |-> "save", row |-> admin, arg |-> 0]
    OBVIOUS
  <2>2. record \in [at : AdminSteps, row : AdminRow, arg : Nat] /\ record.at = "save" /\ record.row = admin
    BY <1>1, <2>1 DEF AdminTypes, AdminSteps
  <2>3. worker' = [worker EXCEPT ![c] = record] /\ overlapped' = overlapped /\ Admin!At(c) = "credential"
    BY <1>4, <2>1 DEF Admin!SaveCredential, Admin!history
  <2>4. /\ worker' \in [Client -> [at : AdminSteps, row : AdminRow, arg : Nat]] /\ worker'[c] = record
        /\ \A o \in Client \ {c} : worker'[o] = worker[o]
    BY <1>1, <2>2, <2>3 DEF AdminTypes
  <2>5. AdminTypes' /\ Admin!At(c)' = "save"
    BY <1>1, <2>2, <2>3, <2>4 DEF AdminTypes, Admin!At
  <2>6. ~overlapped => \A o \in Client \ {c} : Admin!At(o) = "idle"
    BY <2>3 DEF AdminInv, AskedInv, Admin!Logging
  <2> QED
    BY <1>1, <2>2, <2>3, <2>4, <2>5, <2>6, ReadingInv DEF Admin!Logging
<1> QED
  BY <1>2, <1>3, <1>4 DEF Admin!WebAuthnRegisterFinish, Admin!WebAuthnAuthenticateFinish,
     Admin!WebAuthnDeleteCredential, Admin!FinishRegistration, Admin!FinishAuthentication,
     Admin!DeleteCredential, Admin!Credential

LEMMA AdminNext == AdminParameters /\ AdminInv /\ PasskeyInv /\ [Admin!Next]_adminVars => AdminInv'
<1> SUFFICES ASSUME AdminParameters, AdminInv, PasskeyInv, [Admin!Next]_adminVars PROVE AdminInv'
  OBVIOUS
<1>1. CASE Admin!StoreChallenge \/ UNCHANGED adminVars
  <2>1. UNCHANGED <<admin, asked, confirmed, overlapped, hasty, nextSecret, worker>>
    BY <1>1 DEF Admin!StoreChallenge, Admin!history, adminVars
  <2> QED
    BY <2>1 DEF AdminInv, AdminTypes, AskedInv, ConfirmedInv, Admin!At
<1>2. CASE Admin!Restart
  <2>1. /\ UNCHANGED <<admin, asked, confirmed, overlapped, hasty, nextSecret>>
        /\ worker' = [c \in Client |-> Admin!Idle]
    BY <1>2 DEF Admin!Restart, Admin!history, Admin!counters
  <2>2. Admin!Idle \in [at : AdminSteps, row : AdminRow, arg : Nat] /\ Admin!Idle.at = "idle"
    BY DEF Admin!Idle, Admin!Blank, AdminSteps, AdminRow
  <2>3. \A c \in Client : Admin!At(c)' = "idle"
    BY <2>1, <2>2 DEF Admin!At
  <2>4. AdminTypes'
    BY <2>1, <2>2 DEF AdminInv, AdminTypes
  <2> QED
    BY <2>1, <2>3, <2>4 DEF AdminInv, AskedInv, ConfirmedInv
<1> QED
  BY <1>1, <1>2, SessionLoginInv, BeginningInv, WritesInv, PasskeysAside DEF Admin!Next

-----------------------------------------------------------------------------
(* The passkeys.                                                           *)

\* A challenge that is taken is gone, and no other.
LEMMA ChallengeTaken ==
  ASSUME AdminParameters, PasskeyInv, NEW n \in Admin!Challenge, Admin!getAndDeleteSession(n),
         nextChallenge' = nextChallenge
  PROVE  /\ used' \in [Admin!Challenge -> Nat] /\ ChallengeInv'
         /\ \A k \in challenges' : k \in Admin!Challenge /\ k < nextChallenge
<1>1. /\ n \in challenges /\ challenges' = challenges \ {n} /\ used' = [used EXCEPT ![n] = @ + 1]
      /\ used \in [Admin!Challenge -> Nat]
  BY DEF Admin!getAndDeleteSession, PasskeyInv, PasskeyTypes
<1>2. used[n] = 0 /\ n < nextChallenge /\ n \in Nat /\ nextChallenge \in Nat
  BY <1>1 DEF PasskeyInv, PasskeyTypes, ChallengeInv, Admin!Challenge, AdminParameters
<1>3. /\ used' \in [Admin!Challenge -> Nat] /\ used'[n] = 1
      /\ \A k \in Admin!Challenge \ {n} : used'[k] = used[k]
  BY <1>1, <1>2
<1>4. ChallengeInv'
  <2> SUFFICES ASSUME NEW k \in Admin!Challenge
               PROVE  used'[k] <= 1 /\ (k \in challenges' \/ k >= nextChallenge => used'[k] = 0)
    BY DEF ChallengeInv, Admin!Challenge
  <2>1. CASE k = n
    BY <1>1, <1>2, <1>3, <2>1
  <2>2. CASE k # n
    BY <1>1, <1>3, <2>2 DEF PasskeyInv, ChallengeInv
  <2> QED
    BY <2>1, <2>2
<1> QED
  BY <1>1, <1>3, <1>4 DEF PasskeyInv, PasskeyTypes

\* Steps that leave the passkeys, and those who use one, alone.
LEMMA PasskeyKept ==
  ASSUME PasskeyInv, UNCHANGED <<credentials, challenges, deleted, used, nextChallenge, nextCredential>>,
         \A c \in Client : Admin!At(c)' = "credential" => Admin!At(c) = "credential" /\ worker'[c].arg = worker[c].arg,
         ~overlapped' => ~overlapped
  PROVE  PasskeyInv'
BY DEF PasskeyInv, PasskeyTypes, CredentialInv, ChallengeInv

LEMMA HandlersAside ==
  ASSUME AdminParameters, AdminInv, PasskeyInv, NEW c \in Client,
         \/ Admin!SessionLogin(c) \/ Admin!UpdatePassword(c) \/ Admin!TOTPSetup(c) \/ Admin!Enable(c)
         \/ Admin!Disable(c) \/ Admin!WriteFails(c)
         \/ \E code \in 1..MaxSecrets : Admin!TOTPVerify(c, code)
         \/ \E p \in Admin!Password : \/ \E new \in Admin!Password : Admin!ChangePassword(c, p, new)
                                      \/ Admin!TOTPDisable(c, p)
  PROVE  PasskeyInv'
<1>1. /\ UNCHANGED <<credentials, challenges, deleted, used, nextChallenge, nextCredential>> /\ AdminTypes
      /\ worker \in [Client -> [at : AdminSteps, row : AdminRow, arg : Nat]]
  BY DEF Admin!SessionLogin, Admin!Login, Admin!Rehash, Admin!SaveAdmin, Admin!UpdatePassword,
         Admin!TOTPSetup, Admin!Enable, Admin!Disable, Admin!WriteFails, Admin!TOTPVerify,
         Admin!ChangePassword, Admin!TOTPDisable, Admin!passkeys, Admin!counters, AdminInv, AdminTypes
<1>2. ASSUME \A o \in Client \ {c} : worker'[o] = worker[o], Admin!At(c)' # "credential",
             ~overlapped' => ~overlapped
      PROVE  PasskeyInv'
  BY <1>1, <1>2, PasskeyKept DEF Admin!At
<1>3. ASSUME Admin!End(c), overlapped' = overlapped PROVE PasskeyInv'
  BY <1>1, <1>2, <1>3, WorkerSteps
<1>4. CASE Admin!SaveAdmin(c) \/ Admin!UpdatePassword(c) \/ Admin!Enable(c) \/ Admin!Disable(c) \/ Admin!WriteFails(c)
  BY <1>3, <1>4 DEF Admin!SaveAdmin, Admin!UpdatePassword, Admin!Enable, Admin!Disable, Admin!WriteFails, Admin!history
<1>5. CASE Admin!TOTPSetup(c)
  <2>1. worker' = worker /\ Admin!At(c) = "idle" /\ (~overlapped' => ~overlapped)
    BY <1>1, <1>5, WorkerSteps DEF Admin!TOTPSetup
  <2> QED
    BY <1>2, <2>1 DEF Admin!At
<1>6. CASE Admin!Rehash(c)
  <2>1. PICK v : v = [worker[c] EXCEPT !.at = "save", !.row.legacy = FALSE]
    OBVIOUS
  <2>2. worker' = [worker EXCEPT ![c] = v] /\ v.at = "save" /\ overlapped' = overlapped
    BY <1>1, <1>6, <2>1 DEF Admin!Rehash
  <2> QED
    BY <1>1, <1>2, <2>2 DEF Admin!At
<1>7. ASSUME NEW to \in AdminSteps \ {"credential"}, NEW n \in Nat, Admin!Begin(c, to, n) PROVE PasskeyInv'
  <2>1. Admin!At(c)' = to /\ (\A o \in Client \ {c} : worker'[o] = worker[o]) /\ (~overlapped' => ~overlapped)
    BY <1>1, <1>7, WorkerSteps
  <2> QED
    BY <1>2, <2>1
<1>8. ASSUME NEW to, Admin!Begin(c, to, 0), to \in {"rehash", "save", "enable", "disable"} PROVE PasskeyInv'
  BY <1>7, <1>8 DEF AdminSteps
<1>9. ASSUME NEW new \in Admin!Password, Admin!Begin(c, "password", new) PROVE PasskeyInv'
  <2>1. new \in Nat /\ "password" \in AdminSteps \ {"credential"}
    BY DEF AdminSteps, Admin!Password, AdminParameters
  <2> QED
    BY <1>7, <1>9, <2>1
<1>10. ASSUME NEW password, NEW code, Admin!Login(c, password, code) PROVE PasskeyInv'
  BY <1>8, <1>10 DEF Admin!Login
<1>11. CASE \E code \in 1..MaxSecrets : Admin!TOTPVerify(c, code)
  BY <1>8, <1>11 DEF Admin!TOTPVerify
<1>12. ASSUME NEW p \in Admin!Password, Admin!TOTPDisable(c, p) PROVE PasskeyInv'
  BY <1>8, <1>12 DEF Admin!TOTPDisable
<1>13. ASSUME NEW p \in Admin!Password, NEW new \in Admin!Password, Admin!ChangePassword(c, p, new) PROVE PasskeyInv'
  BY <1>9, <1>13 DEF Admin!ChangePassword
<1> QED
  BY <1>4, <1>5, <1>6, <1>10, <1>11, <1>12, <1>13 DEF Admin!SessionLogin

\* A key that was deleted is not in the hand of a login nobody met.
LEMMA PasskeyStepsInv ==
  ASSUME AdminParameters, AdminInv, PasskeyInv, NEW c \in Client,
         \/ Admin!WebAuthnRegisterFinish(c) \/ Admin!WebAuthnAuthenticateFinish(c)
         \/ Admin!WebAuthnDeleteCredential(c)
  PROVE  PasskeyInv'
<1>1. /\ AdminTypes /\ worker \in [Client -> [at : AdminSteps, row : AdminRow, arg : Nat]]
      /\ nextCredential \in Nat /\ nextChallenge \in Nat
  BY DEF AdminInv, AdminTypes, PasskeyInv, PasskeyTypes
<1>2. ASSUME NEW n \in Admin!Challenge, Admin!FinishRegistration(c, n) PROVE PasskeyInv'
  <2>1. /\ worker' = worker /\ (~overlapped' => ~overlapped) /\ deleted' = deleted /\ nextChallenge' = nextChallenge
        /\ Admin!getAndDeleteSession(n)
        /\ \/ nextCredential' = nextCredential + 1 /\ credentials' = credentials \cup {nextCredential}
           \/ nextCredential' = nextCredential /\ credentials' = credentials
    BY <1>1, <1>2, WorkerSteps DEF Admin!FinishRegistration
  <2>2. /\ used' \in [Admin!Challenge -> Nat] /\ ChallengeInv'
        /\ \A k \in challenges' : k \in Admin!Challenge /\ k < nextChallenge
    BY <2>1, ChallengeTaken
  <2>3. PasskeyTypes'
    BY <1>1, <2>1, <2>2 DEF PasskeyInv, PasskeyTypes, Admin!Challenge
  <2>4. nextCredential \notin deleted
    BY <1>1 DEF PasskeyInv, PasskeyTypes
  <2>5. \A d \in Client : Admin!At(d)' = Admin!At(d) /\ worker'[d].arg = worker[d].arg /\ worker[d].arg \in Nat
    BY <1>1, <2>1 DEF Admin!At
  <2>6. CredentialInv'
    BY <1>1, <2>1, <2>4, <2>5 DEF PasskeyInv, CredentialInv
  <2> QED
    BY <2>2, <2>3, <2>6 DEF PasskeyInv
<1>3. ASSUME NEW n \in Admin!Challenge, NEW id \in Admin!Credential, Admin!FinishAuthentication(c, n, id)
      PROVE  PasskeyInv'
  <2>1. /\ UNCHANGED <<credentials, deleted, nextChallenge, nextCredential>> /\ Admin!getAndDeleteSession(n)
        /\ (id \in credentials /\ Admin!Begin(c, "credential", id)) \/ Admin!Alone(c)
    BY <1>3 DEF Admin!FinishAuthentication, Admin!counters
  <2>2. /\ used' \in [Admin!Challenge -> Nat] /\ ChallengeInv'
        /\ \A k \in challenges' : k \in Admin!Challenge /\ k < nextChallenge
    BY <2>1, ChallengeTaken
  <2>3. PasskeyTypes'
    BY <2>1, <2>2 DEF PasskeyInv, PasskeyTypes, Admin!Challenge
  <2>4. ASSUME id \in credentials, Admin!Begin(c, "credential", id) PROVE CredentialInv'
    <3>1. id \in Nat /\ id < nextCredential /\ "credential" \in AdminSteps
      BY <2>4 DEF PasskeyInv, PasskeyTypes, AdminSteps
    <3>2. /\ Admin!At(c)' = "credential" /\ worker'[c].arg = id /\ (~overlapped' => ~overlapped)
          /\ \A o \in Client \ {c} : worker'[o] = worker[o]
      BY <1>1, <2>4, <3>1, WorkerSteps
    <3>3. ~overlapped' => credentials \cap deleted = {}
      BY <3>2 DEF PasskeyInv, CredentialInv
    <3> QED
      BY <2>1, <2>4, <3>1, <3>2, <3>3 DEF PasskeyInv, CredentialInv, Admin!At
  <2>5. ASSUME Admin!Alone(c) PROVE CredentialInv'
    <3>1. worker' = worker /\ (~overlapped' => ~overlapped)
      BY <1>1, <2>5, WorkerSteps
    <3> QED
      BY <2>1, <3>1 DEF PasskeyInv, CredentialInv, Admin!At
  <2> QED
    BY <2>1, <2>2, <2>3, <2>4, <2>5 DEF PasskeyInv
<1>4. CASE Admin!SaveCredential(c)
  <2>1. PICK id, record : id = worker[c].arg /\ record = [at |-> "save", row |-> admin, arg |-> 0]
    OBVIOUS
  <2>2. /\ Admin!At(c) = "credential" /\ credentials' = credentials \cup {id}
        /\ worker' = [worker EXCEPT ![c] = record] /\ record.at = "save"
        /\ UNCHANGED <<challenges, deleted, used, nextChallenge, nextCredential, overlapped>>
    BY <1>4, <2>1 DEF Admin!SaveCredential, Admin!counters, Admin!history
  <2>3. id \in Nat /\ id < nextCredential /\ (overlapped \/ id \notin deleted)
    BY <1>1, <2>1, <2>2 DEF PasskeyInv, CredentialInv
  <2>4. worker'[c] = record /\ \A o \in Client \ {c} : worker'[o] = worker[o]
    BY <1>1, <2>2
  <2>5. PasskeyTypes' /\ ChallengeInv'
    BY <2>2, <2>3 DEF PasskeyInv, PasskeyTypes, ChallengeInv
  <2>6. CredentialInv'
    BY <2>2, <2>3, <2>4 DEF PasskeyInv, CredentialInv, Admin!At
  <2> QED
    BY <2>5, <2>6 DEF PasskeyInv
<1>5. ASSUME NEW id \in Admin!Credential, Admin!DeleteCredential(c, id) PROVE PasskeyInv'
  <2>1. /\ id \in credentials /\ credentials' = credentials \ {id} /\ deleted' = deleted \cup {id} /\ Admin!Alone(c)
        /\ UNCHANGED <<challenges, used, nextChallenge, nextCredential>>
    BY <1>5 DEF Admin!DeleteCredential, Admin!counters
  <2>2. worker' = worker /\ (~overlapped' => ~overlapped /\ \A o \in Client : Admin!At(o) # "credential")
    BY <1>1, <2>1, WorkerSteps DEF Admin!Logging
  <2>3. PasskeyTypes' /\ ChallengeInv'
    BY <2>1 DEF PasskeyInv, PasskeyTypes, ChallengeInv
  <2>4. CredentialInv'
    BY <2>1, <2>2 DEF PasskeyInv, CredentialInv, Admin!At
  <2> QED
    BY <2>3, <2>4 DEF PasskeyInv
<1> QED
  BY <1>2, <1>3, <1>4, <1>5 DEF Admin!WebAuthnRegisterFinish, Admin!WebAuthnAuthenticateFinish,
     Admin!WebAuthnDeleteCredential

LEMMA PasskeyNext == AdminParameters /\ AdminInv /\ PasskeyInv /\ [Admin!Next]_adminVars => PasskeyInv'
<1> SUFFICES ASSUME AdminParameters, AdminInv, PasskeyInv, [Admin!Next]_adminVars PROVE PasskeyInv'
  OBVIOUS
<1>1. CASE Admin!StoreChallenge
  <2>1. /\ nextChallenge <= MaxChallenges /\ challenges' = challenges \cup {nextChallenge}
        /\ nextChallenge' = nextChallenge + 1
        /\ UNCHANGED <<credentials, deleted, used, worker, nextCredential, overlapped>>
    BY <1>1 DEF Admin!StoreChallenge, Admin!history
  <2>2. nextChallenge \in Nat /\ nextChallenge >= 1 /\ nextChallenge \in Admin!Challenge
        /\ \A n \in Admin!Challenge : n \in Nat
    BY <2>1 DEF PasskeyInv, PasskeyTypes, Admin!Challenge, AdminParameters
  <2>3. PasskeyTypes'
    BY <2>1, <2>2 DEF PasskeyInv, PasskeyTypes, Admin!Challenge
  <2>4. ChallengeInv'
    BY <2>1, <2>2 DEF PasskeyInv, ChallengeInv, Admin!Challenge
  <2>5. CredentialInv'
    BY <2>1 DEF PasskeyInv, CredentialInv, Admin!At
  <2> QED
    BY <2>3, <2>4, <2>5 DEF PasskeyInv
<1>2. CASE Admin!Restart
  <2>1. /\ challenges' = {} /\ worker' = [c \in Client |-> Admin!Idle]
        /\ UNCHANGED <<credentials, deleted, used, nextChallenge, nextCredential, overlapped>>
    BY <1>2 DEF Admin!Restart, Admin!history, Admin!counters
  <2>2. \A c \in Client : Admin!At(c)' # "credential"
    BY <2>1 DEF Admin!At, Admin!Idle
  <2> QED
    BY <2>1, <2>2 DEF PasskeyInv, PasskeyTypes, CredentialInv, ChallengeInv
<1>3. CASE UNCHANGED adminVars
  BY <1>3, PasskeyKept DEF adminVars, Admin!At
<1> QED
  BY <1>1, <1>2, <1>3, HandlersAside, PasskeyStepsInv DEF Admin!Next

LEMMA AdminInit == AdminParameters /\ Admin!Init => AdminInv /\ PasskeyInv
<1> SUFFICES ASSUME AdminParameters, Admin!Init PROVE AdminInv /\ PasskeyInv
  OBVIOUS
<1>1. PICK legacy \in BOOLEAN : admin = [Admin!Blank EXCEPT !.legacy = legacy]
  BY DEF Admin!Init
<1>2. Admin!Idle \in [at : AdminSteps, row : AdminRow, arg : Nat] /\ Admin!Idle.at = "idle" /\ Admin!Blank \in AdminRow
  BY DEF Admin!Idle, Admin!Blank, AdminSteps, AdminRow
<1>3. admin \in AdminRow /\ ~admin.enabled /\ asked = admin
  BY <1>1 DEF Admin!Init, Admin!Blank, AdminRow
<1>4. \A c \in Client : Admin!At(c) = "idle"
  BY <1>2 DEF Admin!Init, Admin!At
<1>5. AdminTypes
  BY <1>2, <1>3 DEF Admin!Init, AdminTypes
<1>6. AdminInv
  BY <1>3, <1>4, <1>5 DEF Admin!Init, AdminInv, AskedInv, ConfirmedInv, Admin!Logging
<1>7. \A S : Admin!Cardinality(S) = Cardinality(S)
  BY DEF Admin!Cardinality, Cardinality
<1>8. nextCredential \in Nat /\ \A id \in credentials : id \in Nat /\ id < nextCredential
  <2>1. Cardinality({}) = 0 /\ Cardinality({1}) = 1
    BY FS_EmptySet, FS_Singleton
  <2>2. CASE credentials = {}
    BY <1>7, <2>1, <2>2 DEF Admin!Init
  <2>3. CASE credentials = {1}
    BY <1>7, <2>1, <2>3 DEF Admin!Init
  <2> QED
    BY <2>2, <2>3 DEF Admin!Init
<1>9. PasskeyInv
  BY <1>4, <1>8 DEF Admin!Init, PasskeyInv, PasskeyTypes, CredentialInv, ChallengeInv
<1> QED
  BY <1>6, <1>9

\* Requests that change the password and the second factor lose nothing of
\* each other, and logins are checked against a secret its owner has shown a
\* code for, unless a login met another request or a new secret met an enabled
\* one or a check (Login, ChangePassword, TOTPSetup, TOTPVerify, TOTPDisable).
THEOREM AsAsked ==
  ASSUME AdminParameters
  PROVE  Spec => []AdminStands
<1> DEFINE Inv == part = "admins" => AdminInv /\ PasskeyInv
<1>1. Init => Inv
  BY AdminInit DEF Init
<1>2. Inv /\ [Next]_vars => Inv'
  BY Exercised, AdminNext, PasskeyNext
<1>3. Inv => AdminStands
  BY DEF AdminStands, Admin!AdminStands, AdminInv, AskedInv, ConfirmedInv
<1> QED
  BY <1>1, <1>2, <1>3, PTL DEF Spec

\* A challenge is answered once at most, whoever answers it, and a passkey that
\* was deleted does not come back unless a login had it in hand
\* (getAndDeleteSession, FinishAuthentication, DeleteCredential).
THEOREM KeysStayDeleted ==
  ASSUME AdminParameters
  PROVE  Spec => []CredentialsStand
<1> DEFINE Inv == part = "admins" => AdminInv /\ PasskeyInv
<1>1. Init => Inv
  BY AdminInit DEF Init
<1>2. Inv /\ [Next]_vars => Inv'
  BY Exercised, AdminNext, PasskeyNext
<1>3. Inv => CredentialsStand
  BY DEF CredentialsStand, Admin!CredentialsStand, PasskeyInv, CredentialInv, ChallengeInv
<1> QED
  BY <1>1, <1>2, <1>3, PTL DEF Spec

-----------------------------------------------------------------------------
(***************************************************************************)
(* Logins: an address that is locked is one the administrator knows of.    *)
(***************************************************************************)
\* The limit is a number, and the lock is no longer than the hour.
LoginParameters == Limit \in Nat \ {0} /\ Lock \in Nat /\ Hour \in Nat /\ Lock <= Hour

\* The failures within a window, at a time.
Failures(window, at) == {a \in failed : a.at + window > at}

AttemptTypes ==
  /\ loginNow \in Nat /\ told \in BOOLEAN /\ muted \in BOOLEAN
  /\ login \in [Client -> {"idle", "fails", "count"}]
  /\ IsFiniteSet(failed) /\ \A a \in failed : a.at \in Nat

\* Logins came one at a time.
OneAtATime == \A c, o \in Client : c # o => login[c] = "idle" \/ login[o] = "idle"

\* A login that was let in makes the count no more than the limit.
LockInv ==
  /\ Cardinality(Failures(Lock, loginNow)) <= Limit
  /\ \A c \in Client : login[c] = "fails" => Cardinality(Failures(Lock, loginNow)) < Limit

\* Who has counted up to the limit is told, or is about to be.
ToldInv ==
  ~told => /\ Cardinality(Failures(Hour, loginNow)) <= Limit
           /\ (\A c \in Client : login[c] # "count") => Cardinality(Failures(Hour, loginNow)) < Limit

AttemptInv == AttemptTypes /\ (~muted => OneAtATime /\ LockInv /\ ToldInv)

-----------------------------------------------------------------------------
(* Counts.                                                                 *)

LEMMA CountedFailures ==
  /\ \A window, at : Login!Within(window, at) = Cardinality(Failures(window, at))
  /\ \A window : Login!CountFailedAttempts(window) = Cardinality(Failures(window, loginNow))
<1>1. \A S : Login!Cardinality(S) = Cardinality(S)
  BY DEF Login!Cardinality, Cardinality
<1> QED
  BY <1>1 DEF Login!Within, Login!CountFailedAttempts, Failures

LEMMA FailuresCount ==
  ASSUME AttemptTypes, NEW window \in Nat, NEW at \in Nat
  PROVE  IsFiniteSet(Failures(window, at)) /\ Cardinality(Failures(window, at)) \in Nat
BY FS_Subset, FS_CardinalityType DEF AttemptTypes, Failures

\* As time goes by, and in the shorter window, there are no more.
LEMMA FewerFailures ==
  ASSUME AttemptTypes, NEW window \in Nat, NEW longer \in Nat, window <= longer,
         NEW at \in Nat, NEW later \in Nat, at <= later
  PROVE  Cardinality(Failures(window, later)) <= Cardinality(Failures(longer, at))
<1>1. Failures(window, later) \subseteq Failures(longer, at)
  BY DEF AttemptTypes, Failures
<1> QED
  BY <1>1, FailuresCount, FS_Subset

\* A login records one.
LEMMA RecordOne ==
  ASSUME AttemptTypes, Login!Record
  PROVE  /\ IsFiniteSet(failed') /\ \A a \in failed' : a.at \in Nat
         /\ \A window \in Nat : /\ Cardinality({a \in failed' : a.at + window > loginNow}) \in Nat
              /\ Cardinality({a \in failed' : a.at + window > loginNow}) <=
                   Cardinality(Failures(window, loginNow)) + 1
<1>1. PICK row : row = [id |-> Login!Cardinality(failed) + 1, at |-> loginNow]
  OBVIOUS
<1>2. failed' = failed \cup {row} /\ row.at = loginNow
  BY <1>1 DEF Login!Record
<1>3. IsFiniteSet(failed') /\ \A a \in failed' : a.at \in Nat
  BY <1>2, FS_AddElement DEF AttemptTypes
<1>4. ASSUME NEW window \in Nat
      PROVE  /\ Cardinality({a \in failed' : a.at + window > loginNow}) \in Nat
             /\ Cardinality({a \in failed' : a.at + window > loginNow}) <=
                  Cardinality(Failures(window, loginNow)) + 1
  <2>1. PICK F : F = Failures(window, loginNow)
    OBVIOUS
  <2>2. IsFiniteSet(F) /\ Cardinality(F) \in Nat
    BY <2>1, FailuresCount DEF AttemptTypes
  <2>3. PICK G : G = {a \in failed' : a.at + window > loginNow}
    OBVIOUS
  <2>4. G \subseteq F \cup {row}
    BY <1>2, <2>1, <2>3 DEF Failures
  <2>5. IsFiniteSet(F \cup {row}) /\ Cardinality(F \cup {row}) <= Cardinality(F) + 1
    BY <2>2, FS_AddElement
  <2>6. Cardinality(G) \in Nat /\ Cardinality(G) <= Cardinality(F \cup {row}) /\ Cardinality(F \cup {row}) \in Nat
    BY <2>4, <2>5, FS_Subset, FS_CardinalityType
  <2> QED
    BY <2>1, <2>2, <2>3, <2>5, <2>6
<1> QED
  BY <1>3, <1>4

-----------------------------------------------------------------------------
(* The steps of a login, and of the clock.                                 *)

LEMMA LetInInv ==
  ASSUME LoginParameters, AttemptInv, NEW c \in Client, Login!Login(c)
  PROVE  AttemptInv'
<1>1. /\ login[c] = "idle" /\ Cardinality(Failures(Lock, loginNow)) < Limit
      /\ login' = [login EXCEPT ![c] = "fails"]
      /\ muted' = (muted \/ \E o \in Client \ {c} : login[o] # "idle")
      /\ UNCHANGED <<loginNow, failed, told>>
  BY CountedFailures DEF Login!Login
<1>2. AttemptTypes'
  BY <1>1 DEF AttemptInv, AttemptTypes
<1>3. ASSUME ~muted'
      PROVE  OneAtATime' /\ LockInv' /\ ToldInv'
  <2>1. ~muted /\ \A o \in Client \ {c} : login[o] = "idle"
    BY <1>1, <1>3
  <2>2. \A o \in Client : login'[o] = IF o = c THEN "fails" ELSE "idle"
    BY <1>1, <2>1 DEF AttemptInv, AttemptTypes
  <2>3. LockInv' /\ OneAtATime'
    BY <1>1, <2>1, <2>2 DEF AttemptInv, LockInv, OneAtATime, Failures
  <2>4. ToldInv'
    BY <1>1, <2>1, <2>2 DEF AttemptInv, ToldInv, Failures
  <2> QED
    BY <2>3, <2>4
<1> QED
  BY <1>2, <1>3 DEF AttemptInv

LEMMA WrongPasswordInv ==
  ASSUME LoginParameters, AttemptInv, NEW c \in Client, Login!WrongPassword(c)
  PROVE  AttemptInv'
<1>1. /\ login[c] = "fails" /\ Login!Record /\ AttemptTypes
      /\ login' = [login EXCEPT ![c] = "count"] /\ UNCHANGED <<loginNow, told, muted>>
  BY DEF Login!WrongPassword, AttemptInv
<1>2. AttemptTypes'
  BY <1>1, RecordOne DEF AttemptTypes
<1>3. ASSUME ~muted'
      PROVE  OneAtATime' /\ LockInv' /\ ToldInv'
  <2>1. ~muted /\ OneAtATime /\ LockInv /\ ToldInv
    BY <1>1, <1>3 DEF AttemptInv
  <2>2. \A o \in Client : login[o] = IF o = c THEN "fails" ELSE "idle"
    BY <1>1, <2>1 DEF AttemptTypes, OneAtATime
  <2>3. \A o \in Client : login'[o] = IF o = c THEN "count" ELSE "idle"
    BY <1>1, <2>2 DEF AttemptTypes
  <2>4. \A window \in Nat : /\ Cardinality(Failures(window, loginNow))' <= Cardinality(Failures(window, loginNow)) + 1
                            /\ Cardinality(Failures(window, loginNow))' \in Nat
                            /\ Cardinality(Failures(window, loginNow)) \in Nat
    BY <1>1, RecordOne, FailuresCount DEF Failures, AttemptTypes
  <2>5. LockInv'
    BY <1>1, <2>1, <2>2, <2>3, <2>4 DEF LockInv, LoginParameters
  <2>6. ToldInv'
    BY <1>1, <2>1, <2>2, <2>3, <2>4 DEF ToldInv, LoginParameters
  <2> QED
    BY <2>3, <2>5, <2>6 DEF OneAtATime
<1> QED
  BY <1>2, <1>3 DEF AttemptInv

LEMMA WrongCodeInv ==
  ASSUME LoginParameters, AttemptInv, NEW c \in Client, Login!WrongCode(c)
  PROVE  AttemptInv'
<1>1. /\ Login!Record /\ AttemptTypes /\ muted' = TRUE
      /\ login' = [login EXCEPT ![c] = "idle"] /\ UNCHANGED <<loginNow, told>>
  BY DEF Login!WrongCode, AttemptInv
<1> QED
  BY <1>1, RecordOne DEF AttemptTypes, AttemptInv

\* checkFailedLoginAttempts.
LEMMA CheckInv ==
  ASSUME LoginParameters, AttemptInv, NEW c \in Client, Login!CheckFailedLoginAttempts(c)
  PROVE  AttemptInv'
<1>1. /\ login[c] = "count" /\ told' = (told \/ Cardinality(Failures(Hour, loginNow)) = Limit)
      /\ login' = [login EXCEPT ![c] = "idle"] /\ UNCHANGED <<loginNow, failed, muted>> /\ AttemptTypes
  BY CountedFailures DEF Login!CheckFailedLoginAttempts, AttemptInv
<1>2. AttemptTypes'
  BY <1>1 DEF AttemptTypes
<1>3. ASSUME ~muted'
      PROVE  OneAtATime' /\ LockInv' /\ ToldInv'
  <2>1. ~muted /\ OneAtATime /\ LockInv /\ ToldInv
    BY <1>1, <1>3 DEF AttemptInv
  <2>2. \A o \in Client : login'[o] = "idle"
    BY <1>1, <2>1 DEF AttemptTypes, OneAtATime
  <2>3. Cardinality(Failures(Hour, loginNow)) \in Nat
    BY <1>1, FailuresCount DEF AttemptTypes, LoginParameters
  <2>4. LockInv'
    BY <1>1, <2>1, <2>2 DEF LockInv, Failures
  <2>5. ~told' => Cardinality(Failures(Hour, loginNow)) < Limit
    <3>1. ~told' => ~told /\ Cardinality(Failures(Hour, loginNow)) # Limit
      BY <1>1
    <3>2. ~told => Cardinality(Failures(Hour, loginNow)) <= Limit
      BY <2>1 DEF ToldInv
    <3> QED
      BY <2>3, <3>1, <3>2 DEF LoginParameters
  <2>6. Cardinality(Failures(Hour, loginNow))' = Cardinality(Failures(Hour, loginNow))
    BY <1>1 DEF Failures
  <2>7. ToldInv'
    BY <2>3, <2>5, <2>6 DEF ToldInv, LoginParameters
  <2> QED
    BY <2>2, <2>4, <2>7 DEF OneAtATime
<1> QED
  BY <1>2, <1>3 DEF AttemptInv

\* The clock: the hour may become empty, and all begins again.
LEMMA TickInv ==
  ASSUME LoginParameters, AttemptInv, Login!Tick
  PROVE  AttemptInv'
<1>1. /\ loginNow' = loginNow + 1 /\ UNCHANGED <<failed, login>> /\ AttemptTypes
      /\ told' = (told /\ Cardinality(Failures(Hour, loginNow + 1)) >= Limit)
      /\ muted' = (muted /\ (Cardinality(Failures(Hour, loginNow + 1)) > 0 \/ \E c \in Client : login[c] # "idle"))
  BY CountedFailures DEF Login!Tick, AttemptInv
<1>2. AttemptTypes'
  BY <1>1 DEF AttemptTypes
<1>3. PICK h, k, hNext, kNext : /\ h = Cardinality(Failures(Hour, loginNow)) /\ k = Cardinality(Failures(Lock, loginNow))
                              /\ hNext = Cardinality(Failures(Hour, loginNow + 1))
                              /\ kNext = Cardinality(Failures(Lock, loginNow + 1))
  OBVIOUS
<1>4. h \in Nat /\ k \in Nat /\ hNext \in Nat /\ kNext \in Nat
  <2>1. Hour \in Nat /\ Lock \in Nat /\ loginNow \in Nat /\ loginNow + 1 \in Nat
    BY <1>1 DEF AttemptTypes, LoginParameters
  <2>2. h \in Nat /\ k \in Nat
    BY <1>1, <1>3, <2>1, FailuresCount
  <2>3. hNext \in Nat /\ kNext \in Nat
    BY <1>1, <1>3, <2>1, FailuresCount
  <2> QED
    BY <2>2, <2>3
<1>5. hNext <= h /\ kNext <= k /\ kNext <= hNext
  BY <1>1, <1>3, FewerFailures DEF AttemptTypes, LoginParameters
<1>6. Cardinality(Failures(Hour, loginNow))' = hNext /\ Cardinality(Failures(Lock, loginNow))' = kNext
  BY <1>1, <1>3 DEF Failures
<1>7. ASSUME ~muted'
      PROVE  OneAtATime' /\ LockInv' /\ ToldInv'
  <2>1. CASE ~muted
    <3>1. OneAtATime /\ LockInv /\ ToldInv
      BY <2>1 DEF AttemptInv
    <3>2. OneAtATime' /\ LockInv'
      BY <1>1, <1>3, <1>4, <1>5, <1>6, <3>1 DEF OneAtATime, LockInv, LoginParameters
    <3>3. ASSUME ~told'
          PROVE  hNext <= Limit /\ ((\A c \in Client : login'[c] # "count") => hNext < Limit)
      <4>1. CASE told
        <5>1. ~(hNext >= Limit)
          BY <1>1, <1>3, <3>3, <4>1
        <5> QED
          BY <1>4, <5>1 DEF LoginParameters
      <4>2. CASE ~told
        <5>1. h <= Limit /\ ((\A c \in Client : login[c] # "count") => h < Limit)
          BY <1>3, <3>1, <4>2 DEF ToldInv
        <5> QED
          BY <1>1, <1>4, <1>5, <5>1 DEF LoginParameters
      <4> QED
        BY <4>1, <4>2
    <3>4. ToldInv'
      BY <1>6, <3>3 DEF ToldInv
    <3> QED
      BY <3>2, <3>4
  <2>2. CASE muted
    <3>1. ~(hNext > 0) /\ \A c \in Client : login[c] = "idle"
      BY <1>1, <1>3, <1>7, <2>2
    <3>2. hNext = 0 /\ kNext = 0
      BY <1>4, <1>5, <3>1
    <3> QED
      BY <1>1, <1>4, <1>6, <3>1, <3>2 DEF OneAtATime, LockInv, ToldInv, LoginParameters
  <2> QED
    BY <2>1, <2>2
<1> QED
  BY <1>2, <1>7 DEF AttemptInv

LEMMA LoginNext ==
  ASSUME LoginParameters, AttemptInv, [Login!Next]_loginVars
  PROVE  AttemptInv'
<1>1. CASE UNCHANGED loginVars
  BY <1>1 DEF loginVars, AttemptInv, AttemptTypes, OneAtATime, LockInv, ToldInv, Failures
<1>2. CASE Login!Next
  BY <1>2, TickInv, LetInInv, WrongPasswordInv, WrongCodeInv, CheckInv DEF Login!Next
<1> QED
  BY <1>1, <1>2

LEMMA LoginInit == LoginParameters /\ Login!Init => AttemptInv
<1> SUFFICES ASSUME LoginParameters, Login!Init PROVE AttemptInv
  OBVIOUS
<1>1. failed = {} /\ (\A c \in Client : login[c] = "idle") /\ AttemptTypes
  BY FS_EmptySet DEF Login!Init, AttemptTypes
<1>2. Failures(Lock, loginNow) = {} /\ Failures(Hour, loginNow) = {}
  BY <1>1 DEF Failures
<1> QED
  BY <1>1, <1>2, FS_EmptySet DEF AttemptInv, OneAtATime, LockInv, ToldInv, LoginParameters

\* Whoever fails so often within the hour has been notified, whatever expired
\* meanwhile, and no more failures are counted than lock the address, unless
\* logins met or a wrong code was counted without a check (countFailedAttempts,
\* checkFailedLoginAttempts).
THEOREM LockedIsTold ==
  ASSUME LoginParameters
  PROVE  Spec => []LimitIsTold
<1> DEFINE Inv == part = "logins" => AttemptInv
<1>1. Init => Inv
  BY LoginInit DEF Init
<1>2. Inv /\ [Next]_vars => Inv'
  BY Exercised, LoginNext
<1>3. Inv => LimitIsTold
  <2> SUFFICES ASSUME part = "logins", AttemptInv, \A c \in Client : login[c] = "idle", ~muted
               PROVE  /\ Cardinality(Failures(Hour, loginNow)) >= Limit => told
                      /\ Cardinality(Failures(Lock, loginNow)) <= Limit
    BY CountedFailures DEF LimitIsTold, Login!LimitIsTold
  <2>1. Cardinality(Failures(Hour, loginNow)) \in Nat
    BY FailuresCount DEF AttemptInv, AttemptTypes, LoginParameters
  <2> QED
    BY <2>1 DEF AttemptInv, LockInv, ToldInv, LoginParameters
<1> QED
  BY <1>1, <1>2, <1>3, PTL DEF Spec

-----------------------------------------------------------------------------
(***************************************************************************)
(* Traffic: every daily row is the traffic of its day.                     *)
(***************************************************************************)
\* Hours and days are numbers; rows are kept for a day at least, hourly and
\* raw; no sample is not an hour.
TrafficParameters ==
  /\ HoursPerDay \in Nat \ {0} /\ MaxHour \in Nat
  /\ RawDays \in Nat \ {0} /\ HourlyDays \subseteq Nat \ {0}
  /\ NoSample \notin Nat

Totals == [rows : Nat, total : Nat]

HistoryTypes ==
  /\ hour \in Traffic!Hours /\ fired \in BOOLEAN /\ due \in BOOLEAN /\ tick \in {"idle", "daily"}
  /\ sample \in Traffic!Hours \cup {NoSample}
  /\ aggregated \subseteq Traffic!Hours /\ missing \subseteq Traffic!Hours
  /\ raw \in [Traffic!Hours -> Nat] /\ recorded \in [Traffic!Hours -> Nat]
  /\ hourly \in [Traffic!Hours -> Nat] /\ daily \in [Traffic!Days -> Totals]

\* An hour that is not missing is in the hourly rows once aggregated, for as
\* long as its day may still be aggregated, and before that in the raw ones for
\* as long as it may itself be.
HoursInv ==
  \A h \in Traffic!Hours \ missing :
    IF h \in aggregated
    THEN Traffic!Day(h) + 1 >= Traffic!Day(hour) => hourly[h] = recorded[h]
    ELSE hourly[h] = 0 /\ (h + 1 >= hour => raw[h] = recorded[h])

\* The hours of a day with rows are aggregated, or missing in them.
DaysInv ==
  \A d \in Traffic!Days :
    IF daily[d].rows = 0 THEN daily[d].total = 0
    ELSE \A h \in Traffic!HoursOf(d) : h \in aggregated \/ h \in missing

HistoryInv == HistoryTypes /\ HoursInv /\ DaysInv /\ Traffic!DaysAddUp

-----------------------------------------------------------------------------
(* Sums.                                                                   *)

Chosen(s) == CHOOSE x \in s : TRUE

\* What a sum over a set is for each of its subsets.
Partial(f, S, it) == [s \in SUBSET S |-> IF s = {} THEN 0 ELSE f[Chosen(s)] + it[s \ {Chosen(s)}]]

LEMMA SumUnfolded ==
  ASSUME NEW f, NEW S
  PROVE  Traffic!SumOver(f, S) = (CHOOSE it : it = Partial(f, S, it))[S]
BY DEF Traffic!SumOver, Traffic!MapThenSumSet, Traffic!MapThenFoldSet, Partial, Chosen

\* Induction, of a set instead of a predicate.
LEMMA AllNumbers ==
  ASSUME NEW K, 0 \in K, \A k \in Nat : k \in K => k + 1 \in K
  PROVE  Nat \subseteq K
<1> DEFINE R == OpToRel(<, Nat)
           B == Nat \ K
<1>1. IsWellFoundedOn(R, Nat)
  BY NatLessThanWellFounded
<1>2. \A x, y \in Nat : x < y => <<x, y>> \in R
  BY DEF OpToRel
<1> HIDE DEF R
<1>3. ASSUME B # {}
      PROVE  FALSE
  <2>1. PICK b \in B : \A u \in B : ~(<<u, b>> \in R)
    BY <1>1, <1>3, WFMin
  <2>2. b # 0 /\ b \in Nat
    OBVIOUS
  <2>3. b - 1 \in Nat /\ b - 1 < b /\ b - 1 + 1 = b
    BY <2>2
  <2>4. b - 1 \in B
    BY <2>3
  <2> QED
    BY <1>2, <2>1, <2>2, <2>3, <2>4
<1> QED
  BY <1>3

\* The subsets of a finite set by their size.
LEMMA OneSmaller ==
  ASSUME NEW S, IsFiniteSet(S), NEW s \in SUBSET S, s # {}
  PROVE  /\ Chosen(s) \in s /\ s \ {Chosen(s)} \in SUBSET S
         /\ Cardinality(s) \in Nat \ {0} /\ Cardinality(s \ {Chosen(s)}) = Cardinality(s) - 1
<1>1. Chosen(s) \in s
  BY DEF Chosen
<1>2. IsFiniteSet(s) /\ Cardinality(s) \in Nat
  BY FS_Subset, FS_CardinalityType
<1>3. Cardinality(s) # 0
  BY <1>2, FS_EmptySet
<1>4. Cardinality(s \ {Chosen(s)}) = Cardinality(s) - 1
  BY <1>1, <1>2, FS_RemoveElement
<1> QED
  BY <1>1, <1>2, <1>3, <1>4

Small(S, k) == {s \in SUBSET S : Cardinality(s) <= k}

LEMMA NoneIsSmaller ==
  ASSUME NEW S, IsFiniteSet(S), NEW s \in Small(S, 0)
  PROVE  s = {} /\ s \in SUBSET S
<1>1. s \in SUBSET S /\ Cardinality(s) <= 0
  BY DEF Small
<1>2. s # {} => Cardinality(s) \in Nat \ {0}
  BY <1>1, OneSmaller
<1> QED
  BY <1>1, <1>2

\* Partial sums exist, size by size.
LEMMA PartialSums ==
  ASSUME NEW S, IsFiniteSet(S), NEW f, \A x \in S : f[x] \in Nat
  PROVE  \E it : it = Partial(f, S, it)
<1> DEFINE Step(g, s) == IF s = {} THEN 0 ELSE f[Chosen(s)] + g[s \ {Chosen(s)}]
           Solves(g, k) == \A s \in Small(S, k) : g[s] = Step(g, s)
           K == {k \in Nat : \E g : Solves(g, k)}
<1>1. 0 \in K
  <2>1. PICK g : g = [s \in SUBSET S |-> 0]
    OBVIOUS
  <2>2. \A s \in Small(S, 0) : s = {}
    BY NoneIsSmaller
  <2>3. Solves(g, 0)
    BY <2>1, <2>2 DEF Small
  <2> QED
    BY <2>3
<1>2. ASSUME NEW k \in Nat, k \in K
      PROVE  k + 1 \in K
  <2>1. PICK g : Solves(g, k)
    BY <1>2
  <2>2. PICK e : e = [s \in SUBSET S |-> IF Cardinality(s) <= k THEN g[s] ELSE Step(g, s)]
    OBVIOUS
  <2>3. ASSUME NEW s \in Small(S, k + 1)
        PROVE  e[s] = Step(e, s)
    <3>1. s \in SUBSET S /\ Cardinality(s) <= k + 1
      BY DEF Small
    <3>2. CASE s = {}
      BY <2>1, <2>2, <3>1, <3>2 DEF Small
    <3>3. CASE s # {}
      <4>1. PICK r : r = s \ {Chosen(s)}
        OBVIOUS
      <4>2. r \in SUBSET S /\ Cardinality(s) \in Nat /\ Cardinality(r) = Cardinality(s) - 1
        BY <3>1, <3>3, <4>1, OneSmaller
      <4>3. Cardinality(r) <= k
        BY <3>1, <4>2
      <4>4. e[r] = g[r]
        BY <2>2, <4>2, <4>3
      <4>5. e[s] = Step(g, s)
        BY <2>1, <2>2, <3>1 DEF Small
      <4> QED
        BY <3>3, <4>1, <4>4, <4>5
    <3> QED
      BY <3>2, <3>3
  <2>4. Solves(e, k + 1) /\ k + 1 \in Nat
    BY <2>3
  <2> QED
    BY <2>4
<1>3. Nat \subseteq K
  <2> HIDE DEF K
  <2> QED
    BY <1>1, <1>2, AllNumbers
<1>4. Cardinality(S) \in Nat
  BY FS_CardinalityType
<1>5. PICK g : Solves(g, Cardinality(S))
  BY <1>3, <1>4
<1>6. \A s \in SUBSET S : s \in Small(S, Cardinality(S))
  BY FS_Subset DEF Small
<1>7. PICK it : it = [s \in SUBSET S |-> g[s]]
  OBVIOUS
<1>8. \A s \in SUBSET S : it[s] = IF s = {} THEN 0 ELSE f[Chosen(s)] + it[s \ {Chosen(s)}]
  BY <1>5, <1>6, <1>7
<1>9. it = Partial(f, S, it)
  BY <1>7, <1>8 DEF Partial
<1> QED
  BY <1>9

\* A sum of numbers is a number, the same for all that agree on the set.
LEMMA SumFacts ==
  ASSUME NEW S, IsFiniteSet(S), NEW f, NEW g, \A x \in S : f[x] \in Nat /\ g[x] = f[x]
  PROVE  Traffic!SumOver(f, S) \in Nat /\ Traffic!SumOver(g, S) = Traffic!SumOver(f, S)
<1>1. PICK a : a = CHOOSE it : it = Partial(f, S, it)
  OBVIOUS
<1>2. PICK b : b = CHOOSE it : it = Partial(g, S, it)
  OBVIOUS
<1>3. a = Partial(f, S, a)
  BY <1>1, PartialSums
<1>4. b = Partial(g, S, b)
  BY <1>2, PartialSums
<1> DEFINE K == {k \in Nat : \A s \in Small(S, k) : a[s] \in Nat /\ b[s] = a[s]}
<1>5. 0 \in K
  <2>1. \A s \in Small(S, 0) : s = {} /\ s \in SUBSET S
    BY NoneIsSmaller
  <2> QED
    BY <1>3, <1>4, <2>1 DEF Partial
<1>6. ASSUME NEW k \in Nat, k \in K
      PROVE  k + 1 \in K
  <2>1. ASSUME NEW s \in Small(S, k + 1)
        PROVE  a[s] \in Nat /\ b[s] = a[s]
    <3>1. s \in SUBSET S /\ Cardinality(s) <= k + 1
      BY DEF Small
    <3>2. CASE s = {}
      BY <1>3, <1>4, <3>1, <3>2 DEF Partial
    <3>3. CASE s # {}
      <4>1. PICK r : r = s \ {Chosen(s)}
        OBVIOUS
      <4>2. r \in SUBSET S /\ Cardinality(s) \in Nat /\ Cardinality(r) = Cardinality(s) - 1 /\ Chosen(s) \in S
        BY <3>1, <3>3, <4>1, OneSmaller
      <4>3. r \in Small(S, k)
        BY <3>1, <4>2 DEF Small
      <4>4. a[r] \in Nat /\ b[r] = a[r]
        BY <1>6, <4>3
      <4>5. a[s] = f[Chosen(s)] + a[r]
        BY <1>3, <3>1, <3>3, <4>1 DEF Partial
      <4>6. b[s] = g[Chosen(s)] + b[r]
        BY <1>4, <3>1, <3>3, <4>1 DEF Partial
      <4> QED
        BY <4>2, <4>4, <4>5, <4>6
    <3> QED
      BY <3>2, <3>3
  <2> QED
    BY <2>1
<1>7. Nat \subseteq K
  <2> HIDE DEF K
  <2> QED
    BY <1>5, <1>6, AllNumbers
<1>8. S \in Small(S, Cardinality(S)) /\ Cardinality(S) \in Nat
  BY FS_CardinalityType DEF Small
<1>9. a[S] \in Nat /\ b[S] = a[S]
  BY <1>7, <1>8
<1> QED
  BY <1>1, <1>2, <1>9, SumUnfolded

-----------------------------------------------------------------------------
(* Hours and days.                                                         *)

LEMMA DayFacts ==
  ASSUME TrafficParameters
  PROVE  /\ \A h \in Nat : Traffic!Day(h) \in Nat
         /\ \A h, k \in Nat : h <= k => Traffic!Day(h) <= Traffic!Day(k)
         /\ \A h, k \in Nat, n \in Nat \ {0} : h + n * HoursPerDay <= k => Traffic!Day(h) + 1 <= Traffic!Day(k)
<1>1. PICK p : p = HoursPerDay
  OBVIOUS
<1>2. p \in Nat /\ p > 0
  BY <1>1 DEF TrafficParameters
<1>3. \A h \in Nat : h \div p \in Nat
  BY <1>2
<1>4. \A h, k \in Nat : h <= k => h \div p <= k \div p
  BY <1>2
<1>5. \A h, k \in Nat, n \in Nat \ {0} : h + n * p <= k => h + p <= k
  BY <1>2
<1>6. \A h \in Nat : (h + p) \div p = h \div p + 1
  BY <1>2
<1>7. \A h, k \in Nat, n \in Nat \ {0} : h + n * p <= k => h \div p + 1 <= k \div p
  <2> SUFFICES ASSUME NEW h \in Nat, NEW k \in Nat, h + p <= k
               PROVE  h \div p + 1 <= k \div p
    BY <1>5
  <2>1. h + p \in Nat
    BY <1>2
  <2> QED
    BY <1>4, <1>6, <2>1
<1> QED
  BY <1>1, <1>3, <1>4, <1>7 DEF Traffic!Day

LEMMA HourSets ==
  ASSUME TrafficParameters
  PROVE  /\ Traffic!Hours \subseteq Nat
         /\ \A h \in Traffic!Hours : Traffic!Day(h) \in Traffic!Days /\ h \in Traffic!HoursOf(Traffic!Day(h))
         /\ \A d : IsFiniteSet(Traffic!HoursOf(d)) /\ Traffic!HoursOf(d) \subseteq Traffic!Hours
         /\ \A d \in Nat : d + 1 \in Traffic!Days => d \in Traffic!Days
<1>1. Traffic!Hours \subseteq Nat /\ IsFiniteSet(Traffic!Hours)
  BY FS_Interval DEF Traffic!Hours, TrafficParameters
<1>2. \A d : IsFiniteSet(Traffic!HoursOf(d)) /\ Traffic!HoursOf(d) \subseteq Traffic!Hours
  BY <1>1, FS_Subset DEF Traffic!HoursOf
<1>3. MaxHour \in Nat /\ Traffic!Day(MaxHour) \in Nat
  BY DayFacts DEF TrafficParameters
<1>4. \A h \in Traffic!Hours : Traffic!Day(h) \in Traffic!Days /\ h \in Traffic!HoursOf(Traffic!Day(h))
  BY <1>1, <1>3, DayFacts DEF Traffic!Hours, Traffic!Days, Traffic!HoursOf
<1>5. \A d \in Nat : d + 1 \in Traffic!Days => d \in Traffic!Days
  BY <1>3 DEF Traffic!Days
<1> QED
  BY <1>1, <1>2, <1>4, <1>5

\* The sum of a day is a number, and changes with its hours only.
LEMMA DaySums ==
  ASSUME TrafficParameters, NEW f \in [Traffic!Hours -> Nat], NEW d, NEW g,
         \A h \in Traffic!HoursOf(d) : g[h] = f[h]
  PROVE  /\ Traffic!SumOver(f, Traffic!HoursOf(d)) \in Nat
         /\ Traffic!SumOver(g, Traffic!HoursOf(d)) = Traffic!SumOver(f, Traffic!HoursOf(d))
<1>1. IsFiniteSet(Traffic!HoursOf(d)) /\ \A x \in Traffic!HoursOf(d) : f[x] \in Nat /\ g[x] = f[x]
  BY HourSets
<1> QED
  BY <1>1, SumFacts

-----------------------------------------------------------------------------
(* The steps.                                                              *)

\* The raw rows of this hour and the one before are kept.
LEMMA RecentAreKept ==
  ASSUME TrafficParameters, HistoryTypes
  PROVE  /\ Traffic!Trimmed \in [Traffic!Hours -> Nat]
         /\ \A h \in Traffic!Hours : h + 1 >= hour => Traffic!Trimmed[h] = raw[h]
<1>1. PICK p : p = RawDays * HoursPerDay
  OBVIOUS
<1>2. p \in Nat /\ p >= 1
  BY <1>1 DEF TrafficParameters
<1>3. \A h \in Traffic!Hours : h + 1 >= hour => h \notin Traffic!Older(RawDays)
  BY <1>1, <1>2, HourSets DEF Traffic!Older, HistoryTypes
<1> QED
  BY <1>3 DEF Traffic!Trimmed, HistoryTypes

\* No row changes, and no hour is aggregated.
LEMMA SameHours ==
  ASSUME TrafficParameters, HistoryInv, HistoryTypes',
         UNCHANGED <<hour, recorded, hourly, daily, aggregated, missing>>,
         raw' = raw \/ raw' = Traffic!Trimmed
  PROVE  HistoryInv'
<1>1. HoursInv'
  BY HourSets, RecentAreKept DEF HistoryInv, HoursInv, Traffic!Day
<1>2. DaysInv'
  BY HourSets DEF HistoryInv, DaysInv
<1>3. Traffic!DaysAddUp'
  BY DEF HistoryInv, Traffic!DaysAddUp, Traffic!Shown
<1> QED
  BY <1>1, <1>2, <1>3 DEF HistoryInv

LEMMA WaitingInv ==
  ASSUME TrafficParameters, HistoryInv,
         \/ Traffic!Collect \/ Traffic!CollectFails \/ Traffic!HourlyFails \/ Traffic!DailyFails
         \/ Traffic!Fire \/ Traffic!Restart \/ UNCHANGED trafficVars
  PROVE  HistoryInv'
<1>1. /\ UNCHANGED <<hour, recorded, hourly, daily, aggregated, missing>>
      /\ raw' = raw \/ raw' = Traffic!Trimmed
      /\ sample' \in {sample, hour, NoSample} /\ tick' \in {tick, "idle", "daily"}
      /\ fired' \in {fired, TRUE} /\ due' \in {due, TRUE, FALSE}
  BY DEF Traffic!Collect, Traffic!CollectFails, Traffic!HourlyFails, Traffic!DailyFails,
         Traffic!Fire, Traffic!Restart, trafficVars
<1>2. raw' \in [Traffic!Hours -> Nat]
  BY <1>1, RecentAreKept DEF HistoryInv, HistoryTypes
<1>3. HistoryTypes'
  BY <1>1, <1>2 DEF HistoryInv, HistoryTypes
<1> QED
  BY <1>1, <1>3, SameHours

\* A sample is recorded at the hour it was taken.
LEMMA InsertRawInv ==
  ASSUME TrafficParameters, HistoryInv, Traffic!InsertRaw
  PROVE  HistoryInv'
<1>1. PICK s : s = sample
  OBVIOUS
<1>2. /\ s \in Traffic!Hours
      /\ raw' = [raw EXCEPT ![s] = @ + 1] /\ recorded' = [recorded EXCEPT ![s] = @ + 1]
      /\ missing' = IF s \in aggregated THEN missing \cup {s} ELSE missing
      /\ sample' = NoSample /\ UNCHANGED <<hour, fired, due, hourly, daily, tick, aggregated>>
  BY <1>1 DEF Traffic!InsertRaw, HistoryInv, HistoryTypes
<1>3. /\ raw' \in [Traffic!Hours -> Nat] /\ recorded' \in [Traffic!Hours -> Nat]
      /\ raw'[s] = raw[s] + 1 /\ recorded'[s] = recorded[s] + 1
      /\ \A h \in Traffic!Hours \ {s} : raw'[h] = raw[h] /\ recorded'[h] = recorded[h]
  BY <1>2 DEF HistoryInv, HistoryTypes
<1>4. HistoryTypes'
  BY <1>2, <1>3 DEF HistoryInv, HistoryTypes
<1>5. missing \subseteq missing' /\ (s \notin missing' => s \notin aggregated)
  BY <1>2
<1>6. HoursInv'
  <2> SUFFICES ASSUME NEW h \in Traffic!Hours \ missing'
               PROVE  IF h \in aggregated
                      THEN Traffic!Day(h) + 1 >= Traffic!Day(hour) => hourly[h] = recorded'[h]
                      ELSE hourly[h] = 0 /\ (h + 1 >= hour => raw'[h] = recorded'[h])
    BY <1>2 DEF HoursInv, Traffic!Day
  <2> QED
    BY <1>2, <1>3, <1>5 DEF HistoryInv, HoursInv
<1>7. DaysInv'
  BY <1>2, <1>5 DEF HistoryInv, DaysInv
<1>8. Traffic!DaysAddUp'
  <2> SUFFICES ASSUME NEW d \in Traffic!Days, missing' \cap Traffic!HoursOf(d) = {}
               PROVE  daily[d].total = daily[d].rows * Traffic!SumOver(recorded', Traffic!HoursOf(d))
    BY <1>2 DEF Traffic!DaysAddUp, Traffic!Shown
  <2>1. CASE s \in Traffic!HoursOf(d)
    <3>1. s \notin aggregated /\ s \notin missing
      BY <1>5, <2>1
    <3>2. daily[d].rows = 0 /\ daily[d].total = 0
      BY <2>1, <3>1 DEF HistoryInv, DaysInv
    <3>3. Traffic!SumOver(recorded', Traffic!HoursOf(d)) \in Nat
      BY <1>3, DaySums
    <3> QED
      BY <3>2, <3>3
  <2>2. CASE s \notin Traffic!HoursOf(d)
    <3>1. \A h \in Traffic!HoursOf(d) : recorded'[h] = recorded[h]
      BY <1>3, <2>2, HourSets
    <3>2. Traffic!SumOver(recorded', Traffic!HoursOf(d)) = Traffic!SumOver(recorded, Traffic!HoursOf(d))
      BY <3>1, DaySums DEF HistoryInv, HistoryTypes
    <3>3. missing \cap Traffic!HoursOf(d) = {}
      BY <1>5
    <3> QED
      BY <3>2, <3>3 DEF HistoryInv, Traffic!DaysAddUp, Traffic!Shown
  <2> QED
    BY <2>1, <2>2
<1> QED
  BY <1>4, <1>6, <1>7, <1>8 DEF HistoryInv

\* Rows of days are not touched, hours are aggregated at most.
LEMMA SameDays ==
  ASSUME TrafficParameters, HistoryInv, UNCHANGED <<recorded, daily>>, missing \subseteq missing',
         aggregated \subseteq aggregated'
  PROVE  DaysInv' /\ Traffic!DaysAddUp'
<1>1. DaysInv'
  BY HourSets DEF HistoryInv, DaysInv
<1>2. Traffic!DaysAddUp'
  BY DEF HistoryInv, Traffic!DaysAddUp, Traffic!Shown
<1> QED
  BY <1>1, <1>2

\* aggregateHourly: the hour before gets its row, or a second one.
LEMMA HourlyInv ==
  ASSUME TrafficParameters, HistoryInv, Traffic!aggregateHourly
  PROVE  HistoryInv'
<1>1. PICK k : k = hour - 1
  OBVIOUS
<1>2. hour \in Nat /\ hour > 0 /\ hour \in Traffic!Hours
  BY HourSets DEF Traffic!aggregateHourly, HistoryInv, HistoryTypes
<1>3. k \in Traffic!Hours /\ k + 1 = hour
  BY <1>1, <1>2 DEF Traffic!Hours, TrafficParameters
<1>4. /\ hourly' = [hourly EXCEPT ![k] = @ + raw[k]] /\ raw' = Traffic!Trimmed
      /\ missing' = IF k \in aggregated THEN missing \cup {k} ELSE missing
      /\ aggregated' = aggregated \cup {k} /\ tick' = "daily" /\ due' = FALSE
      /\ UNCHANGED <<hour, fired, recorded, daily, sample>>
  BY <1>1 DEF Traffic!aggregateHourly
<1>5. /\ hourly' \in [Traffic!Hours -> Nat] /\ hourly'[k] = hourly[k] + raw[k]
      /\ \A h \in Traffic!Hours \ {k} : hourly'[h] = hourly[h]
  BY <1>3, <1>4 DEF HistoryInv, HistoryTypes
<1>6. raw' \in [Traffic!Hours -> Nat] /\ \A h \in Traffic!Hours : h + 1 >= hour => raw'[h] = raw[h]
  BY <1>4, RecentAreKept DEF HistoryInv
<1>7. HistoryTypes'
  BY <1>3, <1>4, <1>5, <1>6 DEF HistoryInv, HistoryTypes
<1>8. missing \subseteq missing' /\ aggregated \subseteq aggregated'
      /\ (k \notin missing' => k \notin aggregated)
  BY <1>4
<1>9. HoursInv'
  <2> SUFFICES ASSUME NEW h \in Traffic!Hours \ missing'
               PROVE  IF h \in aggregated \/ h = k
                      THEN Traffic!Day(h) + 1 >= Traffic!Day(hour) => hourly'[h] = recorded[h]
                      ELSE hourly'[h] = 0 /\ (h + 1 >= hour => raw'[h] = recorded[h])
    BY <1>4 DEF HoursInv, Traffic!Day
  <2>1. CASE h = k
    <3>1. h \in Traffic!Hours \ missing /\ h \notin aggregated /\ h + 1 >= hour
      BY <1>2, <1>3, <1>8, <2>1
    <3>2. raw[k] = recorded[k] /\ hourly[k] = 0 /\ raw[k] \in Nat
      BY <2>1, <3>1 DEF HistoryInv, HoursInv, HistoryTypes
    <3> QED
      BY <1>5, <2>1, <3>2
  <2>2. CASE h # k
    BY <1>5, <1>6, <1>8, <2>2 DEF HistoryInv, HoursInv
  <2> QED
    BY <2>1, <2>2
<1>10. DaysInv' /\ Traffic!DaysAddUp'
  BY <1>4, <1>8, SameDays
<1> QED
  BY <1>7, <1>9, <1>10 DEF HistoryInv

\* A row for a day that is over: its hours have their rows or are missing.
LEMMA DailyRowInv ==
  ASSUME TrafficParameters, HistoryInv, NEW d \in Traffic!Days, NEW n \in Nat,
         \A h \in Traffic!HoursOf(d) : Traffic!Day(h) + 1 >= Traffic!Day(hour),
         n = Traffic!SumOver(hourly, Traffic!HoursOf(d)),
         daily' = [daily EXCEPT ![d] = [rows |-> @.rows + 1, total |-> @.total + n]],
         missing' = missing \cup (Traffic!HoursOf(d) \ aggregated),
         UNCHANGED <<hour, raw, recorded, hourly, aggregated, sample, fired, due>>, tick' = "idle"
  PROVE  HistoryInv'
<1>1. PICK row : row = daily[d]
  OBVIOUS
<1>2. row \in Totals /\ row.rows \in Nat /\ row.total \in Nat
  BY <1>1 DEF HistoryInv, HistoryTypes, Totals
<1>3. /\ daily' \in [Traffic!Days -> Totals]
      /\ daily'[d].rows = row.rows + 1 /\ daily'[d].total = row.total + n
      /\ \A c \in Traffic!Days \ {d} : daily'[c] = daily[c]
  <2>1. PICK new : new = [rows |-> row.rows + 1, total |-> row.total + n]
    OBVIOUS
  <2>2. daily' = [daily EXCEPT ![d] = new]
    BY <1>1, <2>1
  <2>3. new \in Totals /\ new.rows = row.rows + 1 /\ new.total = row.total + n
    BY <1>2, <2>1 DEF Totals
  <2>4. daily \in [Traffic!Days -> Totals]
    BY DEF HistoryInv, HistoryTypes
  <2> QED
    BY <2>2, <2>3, <2>4
<1>4. HistoryTypes'
  BY <1>3, HourSets DEF HistoryInv, HistoryTypes
<1>5. HoursInv'
  BY HourSets DEF HistoryInv, HoursInv, Traffic!Day
<1>6. DaysInv'
  <2> SUFFICES ASSUME NEW c \in Traffic!Days
               PROVE  IF daily'[c].rows = 0 THEN daily'[c].total = 0
                      ELSE \A h \in Traffic!HoursOf(c) : h \in aggregated \/ h \in missing'
    BY DEF DaysInv
  <2>1. CASE c = d
    BY <1>2, <1>3, <2>1
  <2>2. CASE c # d
    BY <1>3, <2>2 DEF HistoryInv, DaysInv
  <2> QED
    BY <2>1, <2>2
<1>7. Traffic!DaysAddUp'
  <2> SUFFICES ASSUME NEW c \in Traffic!Days, missing' \cap Traffic!HoursOf(c) = {}
               PROVE  daily'[c].total = daily'[c].rows * Traffic!SumOver(recorded, Traffic!HoursOf(c))
    BY DEF Traffic!DaysAddUp, Traffic!Shown
  <2>1. missing \cap Traffic!HoursOf(c) = {}
    OBVIOUS
  <2>2. daily[c].total = daily[c].rows * Traffic!SumOver(recorded, Traffic!HoursOf(c))
    BY <2>1 DEF HistoryInv, Traffic!DaysAddUp, Traffic!Shown
  <2>3. CASE c = d
    <3>1. \A h \in Traffic!HoursOf(d) : recorded[h] = hourly[h]
      <4> SUFFICES ASSUME NEW h \in Traffic!HoursOf(d)
                   PROVE  recorded[h] = hourly[h]
        OBVIOUS
      <4>1. h \in Traffic!Hours \ missing /\ h \in aggregated
        BY <2>1, <2>3, HourSets
      <4> QED
        BY <4>1 DEF HistoryInv, HoursInv
    <3>2. Traffic!SumOver(recorded, Traffic!HoursOf(d)) = n
      BY <3>1, DaySums DEF HistoryInv, HistoryTypes
    <3>3. row.total = row.rows * n
      BY <1>1, <2>2, <2>3, <3>2
    <3>4. (row.rows + 1) * n = row.rows * n + n
      BY <1>2
    <3> QED
      BY <1>3, <2>3, <3>2, <3>3, <3>4
  <2>4. CASE c # d
    BY <1>3, <2>2, <2>4
  <2> QED
    BY <2>3, <2>4
<1> QED
  BY <1>4, <1>5, <1>6, <1>7 DEF HistoryInv

\* aggregateDaily, at whatever hour it finds.
LEMMA DailyInv ==
  ASSUME TrafficParameters, HistoryInv, Traffic!aggregateDaily
  PROVE  HistoryInv'
<1>1. PICK d : d = Traffic!Day(hour) - 1
  OBVIOUS
<1>2. PICK n : n = Traffic!SumOver(hourly, Traffic!HoursOf(d))
  OBVIOUS
<1>3. hour \in Traffic!Hours /\ hour \in Nat /\ Traffic!Day(hour) \in Nat
  BY HourSets, DayFacts DEF HistoryInv, HistoryTypes
<1>4. /\ UNCHANGED <<hour, raw, recorded, hourly, aggregated, sample, fired, due>> /\ tick' = "idle"
      /\ \/ UNCHANGED <<daily, missing>>
         \/ /\ Traffic!Day(hour) # 0
            /\ daily' = [daily EXCEPT ![d] = [rows |-> @.rows + 1, total |-> @.total + n]]
            /\ missing' = missing \cup (Traffic!HoursOf(d) \ aggregated)
  BY <1>1, <1>2 DEF Traffic!aggregateDaily, Traffic!DailyRow
<1>5. CASE UNCHANGED <<daily, missing>>
  <2>1. HistoryTypes'
    BY <1>4, <1>5 DEF HistoryInv, HistoryTypes
  <2> QED
    BY <1>4, <1>5, <2>1, SameHours
<1>6. CASE /\ Traffic!Day(hour) # 0
           /\ daily' = [daily EXCEPT ![d] = [rows |-> @.rows + 1, total |-> @.total + n]]
           /\ missing' = missing \cup (Traffic!HoursOf(d) \ aggregated)
  <2>1. d \in Nat /\ d + 1 = Traffic!Day(hour) /\ Traffic!Day(hour) \in Traffic!Days
    BY <1>1, <1>3, <1>6, HourSets
  <2>2. d \in Traffic!Days
    BY <2>1, HourSets
  <2>3. n \in Nat
    BY <1>2, DaySums DEF HistoryInv, HistoryTypes
  <2>4. \A h \in Traffic!HoursOf(d) : Traffic!Day(h) + 1 >= Traffic!Day(hour)
    BY <1>3, <2>1 DEF Traffic!HoursOf
  <2> QED
    BY <1>2, <1>4, <1>6, <2>2, <2>3, <2>4, DailyRowInv
<1> QED
  BY <1>4, <1>5, <1>6

\* cleanupOldData: the hours of yesterday that lose their rows are missing.
LEMMA CleanupInv ==
  ASSUME TrafficParameters, HistoryInv, NEW days \in HourlyDays, Traffic!cleanupOldData(days)
  PROVE  HistoryInv'
<1>1. PICK cut : cut = {h \in Traffic!Hours : h + days * HoursPerDay <= hour}
  OBVIOUS
<1>2. /\ raw' = Traffic!Trimmed
      /\ hourly' = [h \in Traffic!Hours |-> IF h \in cut THEN 0 ELSE hourly[h]]
      /\ missing' = missing \cup {h \in cut : Traffic!Day(h) + 1 = Traffic!Day(hour)}
      /\ UNCHANGED <<hour, fired, due, recorded, daily, sample, tick, aggregated>>
  BY <1>1 DEF Traffic!cleanupOldData
<1>3. hour \in Nat /\ days \in Nat \ {0} /\ Traffic!Hours \subseteq Nat /\ cut \subseteq Traffic!Hours
  BY <1>1, HourSets DEF HistoryInv, HistoryTypes, TrafficParameters
<1>4. raw' \in [Traffic!Hours -> Nat] /\ \A h \in Traffic!Hours : h + 1 >= hour => raw'[h] = raw[h]
  BY <1>2, RecentAreKept DEF HistoryInv
<1>5. hourly' \in [Traffic!Hours -> Nat] /\ missing' \subseteq Traffic!Hours /\ missing \subseteq missing'
  BY <1>2, <1>3 DEF HistoryInv, HistoryTypes
<1>6. HistoryTypes'
  BY <1>2, <1>4, <1>5 DEF HistoryInv, HistoryTypes
<1>7. HoursInv'
  <2> SUFFICES ASSUME NEW h \in Traffic!Hours \ missing'
               PROVE  IF h \in aggregated
                      THEN Traffic!Day(h) + 1 >= Traffic!Day(hour) => hourly'[h] = recorded[h]
                      ELSE hourly'[h] = 0 /\ (h + 1 >= hour => raw'[h] = recorded[h])
    BY <1>2 DEF HoursInv, Traffic!Day
  <2>1. h \in Traffic!Hours \ missing /\ h \in Nat
    BY <1>3, <1>5
  <2>2. ASSUME h \in aggregated, Traffic!Day(h) + 1 >= Traffic!Day(hour)
        PROVE  hourly'[h] = recorded[h]
    <3>1. h \in cut => Traffic!Day(h) + 1 <= Traffic!Day(hour)
      BY <1>1, <1>3, <2>1, DayFacts
    <3>2. Traffic!Day(h) \in Nat /\ Traffic!Day(hour) \in Nat
      BY <1>3, <2>1, DayFacts
    <3>3. h \notin cut
      BY <1>2, <2>2, <3>1, <3>2
    <3>4. hourly'[h] = hourly[h]
      BY <1>2, <3>3
    <3> QED
      BY <2>1, <2>2, <3>4 DEF HistoryInv, HoursInv
  <2>3. ASSUME h \notin aggregated
        PROVE  hourly'[h] = 0 /\ (h + 1 >= hour => raw'[h] = recorded[h])
    BY <1>2, <1>4, <2>1, <2>3 DEF HistoryInv, HoursInv
  <2> QED
    BY <2>2, <2>3
<1>8. DaysInv' /\ Traffic!DaysAddUp'
  BY <1>2, <1>5, SameDays
<1> QED
  BY <1>6, <1>7, <1>8 DEF HistoryInv

\* Time passes: fewer hours, and fewer days, may still be aggregated.
LEMMA ClockInv ==
  ASSUME TrafficParameters, HistoryInv, Traffic!Clock
  PROVE  HistoryInv'
<1>1. hour \in Nat /\ hour \in Traffic!Hours /\ Traffic!Hours \subseteq Nat
  BY HourSets DEF HistoryInv, HistoryTypes
<1>2. /\ hour < MaxHour /\ hour' = hour + 1 /\ fired' = FALSE
      /\ UNCHANGED <<due, raw, recorded, hourly, daily, sample, tick, aggregated, missing>>
  BY DEF Traffic!Clock
<1>3. hour' \in Traffic!Hours
  BY <1>1, <1>2 DEF Traffic!Hours, TrafficParameters
<1>4. HistoryTypes'
  BY <1>2, <1>3 DEF HistoryInv, HistoryTypes
<1>5. /\ Traffic!Day(hour) <= Traffic!Day(hour')
      /\ Traffic!Day(hour) \in Nat /\ Traffic!Day(hour') \in Nat
      /\ \A h \in Traffic!Hours : Traffic!Day(h) \in Nat
  <2> SUFFICES ASSUME NEW k, k = hour + 1
               PROVE  /\ Traffic!Day(hour) <= Traffic!Day(k)
                      /\ Traffic!Day(hour) \in Nat /\ Traffic!Day(k) \in Nat
                      /\ \A h \in Traffic!Hours : Traffic!Day(h) \in Nat
    BY <1>2
  <2>1. k \in Nat /\ hour <= k
    BY <1>1
  <2> QED
    BY <1>1, <2>1, DayFacts
<1>6. HoursInv'
  <2> SUFFICES ASSUME NEW h \in Traffic!Hours \ missing
               PROVE  IF h \in aggregated
                      THEN Traffic!Day(h) + 1 >= Traffic!Day(hour') => hourly[h] = recorded[h]
                      ELSE hourly[h] = 0 /\ (h + 1 >= hour + 1 => raw[h] = recorded[h])
    BY <1>2 DEF HoursInv, Traffic!Day
  <2>1. Traffic!Day(h) + 1 >= Traffic!Day(hour') => Traffic!Day(h) + 1 >= Traffic!Day(hour)
    BY <1>5
  <2>2. h + 1 >= hour + 1 => h + 1 >= hour
    BY <1>1
  <2> QED
    BY <2>1, <2>2 DEF HistoryInv, HoursInv
<1>7. DaysInv' /\ Traffic!DaysAddUp'
  BY <1>2, SameDays
<1> QED
  BY <1>4, <1>6, <1>7 DEF HistoryInv

LEMMA HistoryNext ==
  ASSUME TrafficParameters, HistoryInv, [Traffic!Next]_trafficVars
  PROVE  HistoryInv'
BY WaitingInv, InsertRawInv, HourlyInv, DailyInv, ClockInv, CleanupInv DEF Traffic!Next

LEMMA HistoryInit ==
  ASSUME TrafficParameters, Traffic!Init
  PROVE  HistoryInv
<1>1. /\ hour = 0 /\ fired = TRUE /\ due = FALSE /\ sample = NoSample /\ tick = "idle"
      /\ aggregated = {} /\ missing = {}
      /\ raw = [h \in Traffic!Hours |-> 0] /\ recorded = [h \in Traffic!Hours |-> 0]
      /\ hourly = [h \in Traffic!Hours |-> 0]
      /\ daily = [d \in Traffic!Days |-> [rows |-> 0, total |-> 0]]
  BY DEF Traffic!Init
<1>2. 0 \in Traffic!Hours
  BY DEF Traffic!Hours, TrafficParameters
<1>3. HistoryTypes
  BY <1>1, <1>2 DEF HistoryTypes, Totals
<1>4. HoursInv /\ DaysInv
  BY <1>1 DEF HoursInv, DaysInv
<1>5. Traffic!DaysAddUp
  <2> SUFFICES ASSUME NEW d \in Traffic!Days
               PROVE  daily[d].total = daily[d].rows * Traffic!SumOver(recorded, Traffic!HoursOf(d))
    BY DEF Traffic!DaysAddUp, Traffic!Shown
  <2>1. Traffic!SumOver(recorded, Traffic!HoursOf(d)) \in Nat
    BY <1>3, DaySums DEF HistoryTypes
  <2> QED
    BY <1>1, <2>1
<1> QED
  BY <1>3, <1>4, <1>5 DEF HistoryInv

\* What is shown of a day (GetUserTrafficStats, GetTrafficOverview) is that
\* many times its traffic as it has daily rows, unless one of its hours was
\* aggregated before its last sample, twice or not before a daily row, or too
\* few days of hourly rows are kept.
THEOREM DailyRowsAddUp ==
  ASSUME TrafficParameters
  PROVE  Spec => []DaysAddUp
<1> DEFINE Inv == part = "traffic" => HistoryInv
<1>1. Init => Inv
  BY HistoryInit DEF Init
<1>2. Inv /\ [Next]_vars => Inv'
  BY Exercised, HistoryNext
<1>3. Inv => DaysAddUp
  BY DEF DaysAddUp, HistoryInv
<1> QED
  BY <1>1, <1>2, <1>3, PTL DEF Spec
================================================================================
