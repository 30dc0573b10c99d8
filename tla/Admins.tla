--------------------------------- MODULE Admins ---------------------------------
(***************************************************************************)
(* The row of an administrator and the credentials it logs in with.  A     *)
(* login reads the whole row, checks it, and at the end saves the whole    *)
(* row to set the time of the login; the other handlers write the columns  *)
(* they change.                                                            *)
(*                                                                         *)
(* Passwords and secrets are numbers; a code is the number of the secret   *)
(* it is made from, and secret 0 is none.                                  *)
(*                                                                         *)
(* Sources: api/auth.go, auth/webauthn.go, auth/password.go.               *)
(***************************************************************************)
EXTENDS Naturals, FiniteSets

CONSTANTS
  Client,        \* requests that may be at work at once
  MaxPasswords, MaxSecrets, MaxChallenges, MaxCredentials, \* bounds
  MaxRestarts

VARIABLES
  admin,      \* the row: [password, legacy, secret, enabled]
  credentials,\* webauthn_credentials: the ids of the rows
  challenges, \* in memory: the challenges that may be answered
  worker,     \* what each request is doing and what it has read
  nextSecret, nextChallenge, nextCredential,
  asked,      \* history: what the last request that wrote each column wrote
  confirmed,  \* history: the secrets a code was shown for
  deleted,    \* history: the credentials deleted
  used,       \* history: how often each challenge was taken
  overlapped, \* history: a login met another request
  hasty,      \* history: a new secret met an enabled one, or a check of a code
  restarts

vars == <<admin, credentials, challenges, worker, nextSecret, nextChallenge, nextCredential,
          asked, confirmed, deleted, used, overlapped, hasty, restarts>>
counters == <<nextSecret, nextChallenge, nextCredential>>
passkeys == <<credentials, challenges, deleted, used>>
history  == <<asked, confirmed, overlapped, hasty>>

Password   == 1..MaxPasswords
Challenge  == 1..MaxChallenges
Credential == 1..MaxCredentials
Logging    == {"rehash", "save", "credential"}

Blank == [password |-> 1, legacy |-> FALSE, secret |-> 0, enabled |-> FALSE]
Idle  == [at |-> "idle", row |-> Blank, arg |-> 0]

At(c)     == worker[c].at
Quiet     == \A c \in Client : At(c) = "idle"
Go(c, to) == worker' = [worker EXCEPT ![c].at = to]
End(c)    == worker' = [worker EXCEPT ![c] = Idle]
Others(c) == {o \in Client \ {c} : At(o) # "idle"}

\* A request begins with the row as it is; only a login uses it again.
Begin(c, to, arg) ==
  /\ At(c) = "idle"
  /\ worker' = [worker EXCEPT ![c] = [at |-> to, arg |-> arg,
                  row |-> IF to \in {"rehash", "save"} THEN admin ELSE Blank]]
  /\ overlapped' = (overlapped \/ \E o \in Others(c) : {to, At(o)} \cap Logging # {})

\* A handler that is one step.
Alone(c) == /\ At(c) = "idle" /\ UNCHANGED worker
            /\ overlapped' = (overlapped \/ \E o \in Others(c) : At(o) \in Logging)

Init ==
  /\ \E legacy \in BOOLEAN :
       admin = [Blank EXCEPT !.legacy = legacy]
  /\ asked = admin
  /\ credentials \in {{}, {1}} /\ challenges = {}
  /\ worker = [c \in Client |-> Idle]
  /\ nextSecret = 1 /\ nextChallenge = 1 /\ nextCredential = Cardinality(credentials) + 1
  /\ confirmed = {} /\ deleted = {} /\ used = [n \in Challenge |-> 0]
  /\ overlapped = FALSE /\ hasty = FALSE /\ restarts = 0

\* Columns of the row are written, and asked for.
Write(columns(_)) == admin' = columns(admin) /\ asked' = columns(asked)
-----------------------------------------------------------------------------
(***************************************************************************)
(* Login and SessionLogin that succeed.  A hash made with old parameters   *)
(* is made anew from the password given.                                   *)
(***************************************************************************)
Login(c, password, code) ==
  /\ admin.password = password
  /\ admin.enabled => code = admin.secret
  /\ Begin(c, IF admin.legacy THEN "rehash" ELSE "save", 0)
  /\ UNCHANGED <<admin, passkeys, counters, asked, confirmed, hasty, restarts>>

\* Mutant: the row in memory keeps the old hash.
RehashColumn(c) ==
  /\ At(c) = "rehash"
  /\ admin' = [admin EXCEPT !.password = worker[c].row.password, !.legacy = FALSE]
  /\ asked' = [asked EXCEPT !.legacy = FALSE]
  /\ worker' = [worker EXCEPT ![c].at = "save"]
  /\ UNCHANGED <<passkeys, counters, confirmed, overlapped, hasty, restarts>>

Rehash(c) ==
  /\ At(c) = "rehash"
  /\ admin' = [admin EXCEPT !.password = worker[c].row.password, !.legacy = FALSE]
  /\ asked' = [asked EXCEPT !.legacy = FALSE]
  /\ worker' = [worker EXCEPT ![c].at = "save", ![c].row.legacy = FALSE]
  /\ UNCHANGED <<passkeys, counters, confirmed, overlapped, hasty, restarts>>

\* db.Save(&admin): every column.
SaveAdmin(c) ==
  /\ At(c) = "save"
  /\ admin' = worker[c].row
  /\ End(c)
  /\ UNCHANGED <<passkeys, counters, history, restarts>>

(***************************************************************************)
(* ChangePassword, TOTPSetup, TOTPVerify and TOTPDisable.                  *)
(***************************************************************************)
ChangePassword(c, old, new) ==
  /\ admin.password = old
  /\ Begin(c, "password", new)
  /\ UNCHANGED <<admin, passkeys, counters, asked, confirmed, hasty, restarts>>

UpdatePassword(c) ==
  /\ At(c) = "password"
  /\ Write(LAMBDA row : [row EXCEPT !.password = worker[c].arg, !.legacy = FALSE])
  /\ End(c)
  /\ UNCHANGED <<passkeys, counters, confirmed, overlapped, hasty, restarts>>

\* The new secret is in force at once, also when two factors are enabled.
TOTPSetup(c) ==
  /\ nextSecret <= MaxSecrets
  /\ nextSecret' = nextSecret + 1
  /\ Alone(c)
  /\ Write(LAMBDA row : [row EXCEPT !.secret = nextSecret])
  /\ hasty' = (hasty \/ admin.enabled \/ \E o \in Client : At(o) = "enable")
  /\ UNCHANGED <<passkeys, nextChallenge, nextCredential, confirmed, restarts>>

TOTPVerify(c, code) ==
  /\ admin.secret # 0 /\ code = admin.secret
  /\ Begin(c, "enable", 0)
  /\ confirmed' = confirmed \cup {code}
  /\ UNCHANGED <<admin, passkeys, counters, asked, hasty, restarts>>

Enable(c) ==
  /\ At(c) = "enable"
  /\ Write(LAMBDA row : [row EXCEPT !.enabled = TRUE])
  /\ End(c)
  /\ UNCHANGED <<passkeys, counters, confirmed, overlapped, hasty, restarts>>

TOTPDisable(c, password) ==
  /\ admin.password = password
  /\ Begin(c, "disable", 0)
  /\ UNCHANGED <<admin, passkeys, counters, asked, confirmed, hasty, restarts>>

Disable(c) ==
  /\ At(c) = "disable"
  /\ Write(LAMBDA row : [row EXCEPT !.enabled = FALSE, !.secret = 0])
  /\ hasty' = (hasty \/ \E o \in Client : At(o) = "enable")
  /\ End(c)
  /\ UNCHANGED <<passkeys, counters, confirmed, overlapped, restarts>>

\* A statement fails, and the handler gives up; a login goes on.
WriteFails(c) ==
  /\ At(c) \in {"password", "enable", "disable"}
  /\ End(c)
  /\ UNCHANGED <<admin, passkeys, counters, history, restarts>>
-----------------------------------------------------------------------------
(***************************************************************************)
(* Passkeys.  A challenge may be answered once, in whatever way.           *)
(***************************************************************************)
\* BeginRegistration and BeginAuthentication.
StoreChallenge ==
  /\ nextChallenge <= MaxChallenges
  /\ challenges' = challenges \cup {nextChallenge}
  /\ nextChallenge' = nextChallenge + 1
  /\ UNCHANGED <<admin, credentials, deleted, used, worker, nextSecret, nextCredential,
                 history, restarts>>

\* Mutant: the challenge is looked up and left.
getSession(n) ==
  /\ n \in challenges
  /\ used' = [used EXCEPT ![n] = @ + 1]
  /\ UNCHANGED challenges

getAndDeleteSession(n) ==
  /\ n \in challenges
  /\ challenges' = challenges \ {n}
  /\ used' = [used EXCEPT ![n] = @ + 1]

FinishRegistration(c, n) ==
  /\ Alone(c)
  /\ getAndDeleteSession(n)
  /\ \/ /\ nextCredential <= MaxCredentials
        /\ nextCredential' = nextCredential + 1
        /\ credentials' = credentials \cup {nextCredential}
     \/ UNCHANGED <<credentials, nextCredential>> \* the answer is not valid
  /\ UNCHANGED <<admin, deleted, nextSecret, nextChallenge, asked, confirmed, hasty, restarts>>

FinishAuthentication(c, n, id) ==
  /\ getAndDeleteSession(n)
  /\ \/ id \in credentials /\ Begin(c, "credential", id)
     \/ Alone(c)
  /\ UNCHANGED <<admin, credentials, deleted, counters, asked, confirmed, hasty, restarts>>

\* db.Save(&storedCred) brings a row back that is gone; the administrator is
\* read after it.
SaveCredential(c) ==
  /\ At(c) = "credential"
  /\ credentials' = credentials \cup {worker[c].arg}
  /\ worker' = [worker EXCEPT ![c] = [at |-> "save", row |-> admin, arg |-> 0]]
  /\ UNCHANGED <<admin, challenges, deleted, used, counters, history, restarts>>

DeleteCredential(c, id) ==
  /\ id \in credentials
  /\ credentials' = credentials \ {id}
  /\ deleted' = deleted \cup {id}
  /\ Alone(c)
  /\ UNCHANGED <<admin, challenges, used, counters, asked, confirmed, hasty, restarts>>

Restart ==
  /\ restarts < MaxRestarts
  /\ restarts' = restarts + 1
  /\ challenges' = {}
  /\ worker' = [c \in Client |-> Idle]
  /\ UNCHANGED <<admin, credentials, deleted, used, counters, history>>

SessionLogin(c) ==
  \/ \E p \in Password, code \in 0..MaxSecrets : Login(c, p, code)
  \/ Rehash(c) \/ SaveAdmin(c)

WebAuthnRegisterFinish(c) == \E n \in Challenge : FinishRegistration(c, n)

\* It ends as a login does.
WebAuthnAuthenticateFinish(c) ==
  \/ \E n \in Challenge, id \in Credential : FinishAuthentication(c, n, id)
  \/ SaveCredential(c)

WebAuthnDeleteCredential(c) == \E id \in Credential : DeleteCredential(c, id)

Next ==
  \/ StoreChallenge \/ Restart
  \/ \E c \in Client :
       \/ SessionLogin(c) \/ UpdatePassword(c) \/ TOTPSetup(c) \/ Enable(c)
       \/ Disable(c) \/ WriteFails(c)
       \/ WebAuthnRegisterFinish(c) \/ WebAuthnAuthenticateFinish(c) \/ WebAuthnDeleteCredential(c)
       \/ \E p \in Password : \/ \E new \in Password : ChangePassword(c, p, new)
                              \/ TOTPDisable(c, p)
       \/ \E code \in 1..MaxSecrets : TOTPVerify(c, code)

Spec == Init /\ [][Next]_vars
-----------------------------------------------------------------------------
Row == [password : Password, legacy : BOOLEAN, secret : 0..MaxSecrets, enabled : BOOLEAN]

TypeOK ==
  /\ admin \in Row /\ asked \in Row
  /\ \A c \in Client : worker[c].row \in Row
  /\ credentials \cup deleted \subseteq Credential /\ challenges \subseteq Challenge
  /\ overlapped \in BOOLEAN /\ hasty \in BOOLEAN

\* Requests that change the password and the second factor at once lose
\* nothing of each other, and the secret that logins are checked against is
\* one its owner has shown a code for; unless a login was at work, which writes
\* back what it read, or a new secret met an enabled one or a check.
AdminStands ==
  /\ Quiet /\ ~overlapped => admin = asked
  /\ ~overlapped /\ ~hasty /\ admin.enabled => admin.secret \in confirmed

\* A challenge is taken once, and a credential deleted stays so unless it was
\* in use.
CredentialsStand ==
  /\ \A n \in Challenge : used[n] <= 1
  /\ ~overlapped => credentials \cap deleted = {}
===============================================================================
