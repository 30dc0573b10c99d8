----------------------------- MODULE LoginAttempts -----------------------------
(***************************************************************************)
(* Failed logins from one address: the rows of login_attempts, the lock    *)
(* they make and the one notification of them.  A login counts the         *)
(* failures, fails, records it and counts again.                           *)
(*                                                                         *)
(* Source: api/auth.go.                                                    *)
(***************************************************************************)
EXTENDS Naturals, FiniteSets

CONSTANTS
  Client,      \* logins that may be at work at once
  Limit,       \* failures that lock an address and are notified: 5
  Lock, Hour,  \* the two windows of time
  MaxNow,      \* bound on the clock
  MaxAttempts  \* bound on failures at one time

VARIABLES
  now,      \* the clock
  failed,   \* the rows of failed attempts: [id, at]
  login,    \* what each login is doing
  told,     \* history: notified since the hour last held fewer than Limit
  muted     \* history: while the hour was not empty, logins met or a code failed

vars == <<now, failed, login, told, muted>>

Time == 1..MaxNow

\* Failures that are younger than the window at a time.
Within(window, at) == Cardinality({a \in failed : a.at + window > at})

CountFailedAttempts(window) == Within(window, now)

Init ==
  /\ now = 1
  /\ failed = {}
  /\ login = [c \in Client |-> "idle"]
  /\ told = FALSE /\ muted = FALSE

\* Login and SessionLogin that are let in, and will fail.
Login(c) ==
  /\ login[c] = "idle"
  /\ CountFailedAttempts(Lock) < Limit
  /\ login' = [login EXCEPT ![c] = "fails"]
  /\ muted' = (muted \/ \E o \in Client \ {c} : login[o] # "idle")
  /\ UNCHANGED <<now, failed, told>>

Record ==
  /\ Cardinality({a \in failed : a.at = now}) < MaxAttempts
  /\ failed' = failed \cup {[id |-> Cardinality(failed) + 1, at |-> now]}

WrongPassword(c) ==
  /\ login[c] = "fails"
  /\ Record
  /\ login' = [login EXCEPT ![c] = "count"]
  /\ UNCHANGED <<now, told, muted>>

\* A wrong code is recorded, and nobody counts.
WrongCode(c) ==
  /\ login[c] = "fails"
  /\ Record
  /\ login' = [login EXCEPT ![c] = "idle"]
  /\ muted' = TRUE
  /\ UNCHANGED <<now, told>>

\* Mutant: the window is that of the lock.
CheckInLock(c) ==
  /\ login[c] = "count"
  /\ told' = (told \/ CountFailedAttempts(Lock) = Limit)
  /\ login' = [login EXCEPT ![c] = "idle"]
  /\ UNCHANGED <<now, failed, muted>>

\* checkFailedLoginAttempts: exactly at the limit.
CheckFailedLoginAttempts(c) ==
  /\ login[c] = "count"
  /\ told' = (told \/ CountFailedAttempts(Hour) = Limit)
  /\ login' = [login EXCEPT ![c] = "idle"]
  /\ UNCHANGED <<now, failed, muted>>

Tick ==
  /\ now < MaxNow
  /\ now' = now + 1
  /\ told' = (told /\ Within(Hour, now + 1) >= Limit)
  /\ muted' = (muted /\ (Within(Hour, now + 1) > 0 \/ \E c \in Client : login[c] # "idle"))
  /\ UNCHANGED <<failed, login>>

Next ==
  \/ Tick
  \/ \E c \in Client : \/ Login(c) \/ WrongPassword(c) \/ WrongCode(c)
                       \/ CheckFailedLoginAttempts(c)

Spec == Init /\ [][Next]_vars
-----------------------------------------------------------------------------
TypeOK ==
  /\ now \in Time /\ \A a \in failed : a.id \in 1..MaxNow * MaxAttempts /\ a.at \in Time
  /\ login \in [Client -> {"idle", "fails", "count"}]
  /\ told \in BOOLEAN /\ muted \in BOOLEAN

\* Whoever fails so often within the hour has been notified once the count
\* reached the limit, whatever expired meanwhile; so an address that is locked
\* is one the administrator knows of.  Unless logins met, which step over the
\* limit, or a wrong code was counted without a check.
LimitIsTold ==
  (\A c \in Client : login[c] = "idle") /\ ~muted =>
    /\ CountFailedAttempts(Hour) >= Limit => told
    /\ CountFailedAttempts(Lock) <= Limit
===============================================================================
