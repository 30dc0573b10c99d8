----------------------------- MODULE TrafficQuota -----------------------------
(***************************************************************************)
(* The rows of table users and those who write them: UserService, the      *)
(* traffic collector, the quota enforcer and the scheduled traffic reset.  *)
(* UserService and the enforcer read a whole row and later save a whole    *)
(* row; the collector and the reset are single UPDATE statements.          *)
(*                                                                         *)
(* Sources: services/user_service.go, services/quota_enforcer.go,          *)
(* services/traffic_collector.go, cores/xray/stats_client.go and           *)
(* cores/xray/config.go, under src/backend/internal.                       *)
(***************************************************************************)
EXTENDS Naturals, FiniteSets

CONSTANTS
  User,          \* users that exist at the start
  Handler,       \* goroutines serving requests of administrators
  Ops,           \* the requests they serve
  Limits,        \* traffic limits administrators set; 0 is no limit
  InitUsed,      \* traffic counters at the start
  MaxUsed,       \* counters are not counted further than this
  MaxCounter,    \* bound on what the core counts between two starts
  MaxOps,        \* bound on the requests
  NamesInbound,  \* do user names in the statistics name an inbound, as the
                 \*   collector expects?  Not with the generators of this code.
  Resets,        \* is a scheduled reset configured?
  None

AllOps == {"update", "credentials", "delete"}

ASSUME QuotaAssumption ==
  /\ Ops \subseteq AllOps
  /\ Limits \subseteq Nat /\ InitUsed \subseteq 0..MaxUsed /\ MaxUsed \in Nat
  /\ MaxCounter \in Nat
  /\ MaxOps \in Nat
  /\ {NamesInbound, Resets} \subseteq BOOLEAN

VARIABLES
  row,      \* table users: is_active, limit, counter, and deleted_at is set
  counter,  \* bytes of each user in the core's statistics, since it started
  served,   \* users in the configuration the core runs with
  pc, op,   \* pc[h]: the step of handler h, op[h]: the request it serves
  target,   \* target[h]: the user the request is about
  snap,     \* snap[h]: the row as h read it
  pass,     \* the enforcer's list: users it read and has not handled yet
  disabled, \* the user it switched off and has to reload the core for
  warned,   \* warned80, warned90: the thresholds each user was warned about
  reset,    \* the scheduled reset has zeroed the counters, not yet the warnings
  ops,      \* requests so far
  told,     \* users notified since their counter was reset or a new limit left
            \*   them below 80 percent (history)
  kept,     \* thresholds of warned whose warning was about an earlier limit of
            \*   the user (history)
  serial    \* requests, passes and resets came one at a time so far (history)

rows     == <<row, counter, served>>
handlers == <<pc, op, target, snap, ops>>
enforcer == <<pass, disabled, warned>>
history  == <<told, kept, serial>>
vars     == <<row, counter, served, pc, op, target, snap, pass, disabled,
              warned, reset, ops, told, kept, serial>>

Row == [active : BOOLEAN, limit : Limits \cup {0}, used : 0..MaxUsed,
        deleted : BOOLEAN]

Threshold == {80, 90}

TypeOK ==
  /\ row \in [User -> Row]
  /\ counter \in [User -> 0..MaxCounter]
  /\ served \subseteq User
  /\ pc \in [Handler -> {"idle", "save"}]
  /\ op \in [Handler -> Ops \cup {None}]
  /\ target \in [Handler -> User \cup {None}]
  /\ snap \in [Handler -> Row \cup {None}]
  /\ pass \in [User -> Row \cup {None}]
  /\ disabled \in User \cup {None}
  /\ warned \in [User -> SUBSET Threshold]
  /\ reset \in BOOLEAN
  /\ ops \in 0..MaxOps
  /\ told \subseteq User
  /\ kept \in [User -> SUBSET Threshold]
  /\ serial \in BOOLEAN

Capped(n) == IF n > MaxUsed THEN MaxUsed ELSE n

Enforcing == disabled # None \/ \E u \in User : pass[u] # None
Quiet == (\A h \in Handler : pc[h] = "idle") /\ ~Enforcing /\ ~reset

-----------------------------------------------------------------------------
(* UserService.                                                            *)

\* db.Save of a row read earlier.  The UPDATE skips a row deleted meanwhile; it
\* affects no row then, and gorm inserts, which overwrites the deleted row:
\* deleted_at is NULL again, and is_active, if false, takes its default, true.
SavedOver(old, new) ==
  [new EXCEPT !.deleted = FALSE, !.active = @ \/ old.deleted]

\* Mutant: the read does not leave out deleted users.
ReadUserUnscoped(h, o, u) ==
  /\ pc[h] = "idle" /\ o \in Ops /\ ops < MaxOps
  /\ serial' = (serial /\ Quiet)
  /\ pc' = [pc EXCEPT ![h] = "save"]
  /\ op' = [op EXCEPT ![h] = o]
  /\ target' = [target EXCEPT ![h] = u]
  /\ snap' = [snap EXCEPT ![h] = row[u]]
  /\ ops' = ops + 1
  /\ UNCHANGED <<rows, enforcer, reset, told, kept>>

\* Each request first reads the user, and fails if he is deleted.
ReadUser(h, o, u) ==
  /\ pc[h] = "idle" /\ o \in Ops /\ ops < MaxOps
  /\ serial' = (serial /\ Quiet)
  /\ ~row[u].deleted
  /\ pc' = [pc EXCEPT ![h] = "save"]
  /\ op' = [op EXCEPT ![h] = o]
  /\ target' = [target EXCEPT ![h] = u]
  /\ snap' = [snap EXCEPT ![h] = row[u]]
  /\ ops' = ops + 1
  /\ UNCHANGED <<rows, enforcer, reset, told, kept>>

Reply(h) ==
  /\ pc' = [pc EXCEPT ![h] = "idle"]
  /\ op' = [op EXCEPT ![h] = None]
  /\ target' = [target EXCEPT ![h] = None]
  /\ snap' = [snap EXCEPT ![h] = None]
  /\ UNCHANGED ops

\* UpdateUser sets the limit or is_active, or other columns only, ...
Updates(s) ==
  {s} \cup {[s EXCEPT !.limit = l] : l \in Limits}
      \cup {[s EXCEPT !.active = a] : a \in BOOLEAN}

Percent(s) == (s.used * 100) \div s.limit

Below80(s) == s.limit = 0 \/ Percent(s) < 80

\* ... and saves the row.  Nothing regenerates the configuration, and the
\* enforcer is not told.
UpdateUser(h) ==
  LET u == target[h] IN
  /\ pc[h] = "save" /\ op[h] = "update"
  /\ \E new \in Updates(snap[h]) :
       /\ row' = [row EXCEPT ![u] = SavedOver(@, new)]
       /\ told' = IF new.limit # row[u].limit /\ Below80(new) THEN told \ {u} ELSE told
       /\ kept' = [kept EXCEPT ![u] = IF new.limit # row[u].limit THEN warned[u] ELSE @]
  /\ Reply(h)
  /\ UNCHANGED <<counter, served, enforcer, reset, serial>>

\* RegenerateCredentials saves the row with new credentials.
RegenerateCredentials(h) ==
  LET u == target[h] IN
  /\ pc[h] = "save" /\ op[h] = "credentials"
  /\ row' = [row EXCEPT ![u] = SavedOver(@, snap[h])]
  /\ kept' = [kept EXCEPT ![u] = IF snap[h].limit # row[u].limit THEN warned[u] ELSE @]
  /\ Reply(h)
  /\ UNCHANGED <<counter, served, enforcer, reset, told, serial>>

\* DeleteUser sets deleted_at; the mappings to inbounds stay.
DeleteUser(h) ==
  /\ pc[h] = "save" /\ op[h] = "delete"
  /\ row' = [row EXCEPT ![target[h]].deleted = TRUE]
  /\ Reply(h)
  /\ UNCHANGED <<counter, served, enforcer, reset, history>>

-----------------------------------------------------------------------------
(* The core's statistics and the traffic collector.                        *)

Traffic(u) ==
  /\ u \in served /\ counter[u] < MaxCounter
  /\ counter' = [counter EXCEPT ![u] = @ + 1]
  /\ UNCHANGED <<row, served, handlers, enforcer, reset, history>>

\* Mutant: upload and download are added, and their total again.
GainTwice(u) == IF NamesInbound THEN 2 * counter[u] ELSE 0

\* The generators name a user "user_<id>", and a name of fewer than three parts
\* yields a sample without ids, which the collector skips.  Otherwise what the
\* core has counted since it started is added to the counter: Reset_ is false.
Gain(u) == IF NamesInbound THEN counter[u] ELSE 0

Collect(u) ==
  /\ counter[u] > 0 /\ ~row[u].deleted
  /\ row' = [row EXCEPT ![u].used = Capped(@ + Gain(u))]
  /\ UNCHANGED <<counter, served, handlers, enforcer, reset, told, kept, serial>>

-----------------------------------------------------------------------------
(* QuotaEnforcer.                                                          *)

\* CheckAndEnforce takes the lock and reads the active users that have a limit.
Limited == {u \in User : ~row[u].deleted /\ row[u].active /\ row[u].limit > 0}

CheckAndEnforce ==
  /\ ~Enforcing /\ Limited # {}
  /\ serial' = (serial /\ Quiet)
  /\ pass' = [u \in User |-> IF u \in Limited THEN row[u] ELSE None]
  /\ UNCHANGED <<rows, handlers, disabled, warned, reset, told, kept>>

\* Mutant: off by one at the limit.
ExceededStrictly(s) == s.used > s.limit

Exceeded(s) == s.used >= s.limit

\* The threshold a user is to be warned about, 90 before 80.
Due(s, seen) ==
  {t \in Threshold : /\ Percent(s) >= t /\ t \notin seen
                     /\ t = 90 \/ Percent(s) < 90 \/ 90 \in seen}

\* At the limit the user is switched off and his row saved, and the core has to
\* be reloaded; else he is warned.
Enforce(u) ==
  LET s == pass[u] IN
  /\ disabled = None /\ s # None
  /\ pass' = [pass EXCEPT ![u] = None]
  /\ IF Exceeded(s)
     THEN /\ row' = [row EXCEPT ![u] = SavedOver(@, [s EXCEPT !.active = FALSE])]
          /\ disabled' = u
          /\ warned' = [warned EXCEPT ![u] = {}]
          /\ told' = told \cup {u}
          /\ kept' = [kept EXCEPT ![u] = {}]
     ELSE /\ warned' = [warned EXCEPT ![u] = @ \cup Due(s, @)]
          /\ told' = IF Due(s, warned[u]) = {} THEN told ELSE told \cup {u}
          /\ UNCHANGED <<row, disabled, kept>>
  /\ UNCHANGED <<counter, served, handlers, reset, serial>>

\* The generators take the users that are mapped to the inbound and not deleted,
\* and a core that starts has new statistics.
Reload ==
  /\ served' = {u \in User : ~row[u].deleted}
  /\ counter' = [u \in User |-> 0]

\* reloadAffectedCores, with RegenerateAndReload as one step (module
\* CoreLifecycle has its steps).
ReloadAffectedCores ==
  /\ disabled # None
  /\ Reload
  /\ disabled' = None
  /\ UNCHANGED <<row, handlers, pass, warned, reset, history>>

\* A change of an inbound, an outbound or a route reloads the core too.
ReloadElsewhere ==
  /\ Reload
  /\ UNCHANGED <<row, handlers, enforcer, reset, history>>

-----------------------------------------------------------------------------
(* The scheduled reset.                                                    *)

\* One UPDATE of every row, deleted ones included ...
ResetAllTraffic ==
  /\ Resets /\ ~reset
  /\ serial' = (serial /\ Quiet)
  /\ row' = [u \in User |-> [row[u] EXCEPT !.used = 0]]
  /\ reset' = TRUE
  /\ told' = {}
  /\ UNCHANGED <<counter, served, handlers, enforcer, kept>>

\* Mutant: the warnings stay.
ClearAllWarningsNot ==
  /\ reset /\ ~Enforcing
  /\ reset' = FALSE
  /\ UNCHANGED <<rows, handlers, enforcer, history>>

\* ... then the warnings are cleared, once the enforcer releases its lock.
ClearAllWarnings ==
  /\ reset /\ ~Enforcing
  /\ warned' = [u \in User |-> {}] /\ kept' = [u \in User |-> {}]
  /\ reset' = FALSE
  /\ UNCHANGED <<rows, handlers, pass, disabled, told, serial>>

-----------------------------------------------------------------------------

Init ==
  /\ \E l \in Limits, n \in InitUsed :
       row = [u \in User |-> [active |-> TRUE, limit |-> l, used |-> n,
                              deleted |-> FALSE]]
  /\ counter = [u \in User |-> 0]
  /\ served = User
  /\ pc = [h \in Handler |-> "idle"]
  /\ op = [h \in Handler |-> None]
  /\ target = [h \in Handler |-> None]
  /\ snap = [h \in Handler |-> None]
  /\ pass = [u \in User |-> None]
  /\ disabled = None
  /\ warned = [u \in User |-> {}]
  /\ reset = FALSE
  /\ ops = 0
  /\ told = {}
  /\ kept = [u \in User |-> {}]
  /\ serial = TRUE

Request(h) == \E o \in AllOps, u \in User : ReadUser(h, o, u)
Answer(h)  == UpdateUser(h) \/ RegenerateCredentials(h) \/ DeleteUser(h)
EnforceNext == (\E u \in User : Enforce(u)) \/ ReloadAffectedCores

Next ==
  \/ \E h \in Handler : Request(h) \/ Answer(h)
  \/ \E u \in User : Traffic(u) \/ Collect(u)
  \/ CheckAndEnforce \/ EnforceNext \/ ReloadElsewhere
  \/ ResetAllTraffic \/ ClearAllWarnings

Spec == Init /\ [][Next]_vars

\* Requests that were accepted are served, the five minute timer ticks, and a
\* pass that began goes on; the reset gets the enforcer's mutex.  Traffic,
\* collections and resets need not happen.
FairSpec ==
  /\ Spec
  /\ \A h \in Handler : WF_vars(Answer(h))
  /\ SF_vars(CheckAndEnforce) /\ WF_vars(EnforceNext) /\ SF_vars(ClearAllWarnings)

-----------------------------------------------------------------------------
(* Properties.                                                             *)

Over(u) == LET r == row[u] IN
           ~r.deleted /\ r.active /\ r.limit > 0 /\ r.used >= r.limit

\* A user at or over his limit does not stay active, whatever requests and
\* resets interleave with the passes of the enforcer.
Enforced == \A u \in User : Over(u) ~> ~Over(u)

Near(u) == LET r == row[u] IN
           /\ ~r.deleted /\ r.active /\ r.limit > 0
           /\ r.used < r.limit /\ ~Below80(r)

\* Every threshold the user has reached is taken as warned about, from the time
\* of another limit: warned80 and warned90 outlive a change of the limit.
Remembered(u) == {t \in Threshold : Percent(row[u]) >= t} \subseteq kept[u]

\* docs/USER_MANUAL.md:480: a user who comes to 80 percent of his limit or more
\* and stays there is notified, again after each reset of the counter, after he
\* was switched off and on, and after a change of his limit, unless the enforcer
\* remembers the warnings of an earlier limit.
WarnedAt80 ==
  \A u \in User :
    (Near(u) /\ u \notin told) ~> (~Near(u) \/ u \in told \/ Remembered(u))

\* As long as requests, passes and resets come one at a time, only a collection
\* raises a counter: what a reset has cleared does not come back
\* (quota_enforcer.go:156).
OnlyTrafficCounts ==
  [][serial' => \A u \in User :
       row'[u].used > row[u].used
         => row'[u].used = Capped(row[u].used + counter[u])]_vars

\* ... and a deleted user stays deleted (user_service.go:329).
DeletedStaysDeleted ==
  [][serial' => \A u \in User : row[u].deleted => row'[u].deleted]_vars

\* docs/USER_MANUAL.md:482: the enforcer's reload takes a user it has switched
\* off out of the core.
BlockedAtLimit ==
  [][disabled # None /\ disabled' = None /\ ~row[disabled].active
       => disabled \notin served']_vars

\* xray/stats_client.go:107 and docs/MASTER_PLAN.md:147: what the core has
\* counted of a user is what a collection adds to his counter.
TrafficCounted == \A u \in User : counter[u] > 0 => Gain(u) > 0
=============================================================================
