------------------------------- MODULE Settings -------------------------------
(***************************************************************************)
(* A setting: its row, its two cache entries, and the worker that follows  *)
(* it: the traffic collector its mode, told through a channel of capacity  *)
(* one, the cron its schedule of traffic resets.  The two settings share   *)
(* nothing, and a behaviour is about one of them.                          *)
(*                                                                         *)
(* Sources: services/settings_service.go, api/settings.go,                 *)
(* services/traffic_collector.go, scheduler/traffic_reset_scheduler.go.    *)
(***************************************************************************)
EXTENDS Naturals

CONSTANTS
  Requests, \* API requests
  NoValue   \* no row, or no entry

VARIABLES
  key,      \* the setting: "mode" or "schedule"
  stored,   \* its row
  cache,    \* its entries: NoValue or [value, late]
  request,  \* for each request [at, value, late]
  signal,   \* reloadIntervalChan
  collector, \* the collector's own read
  follower, \* the collector's interval, or the cron entry
  missed,   \* history: the follower was not told, or read nothing or a late value
  started   \* the cron runs

vars == <<key, stored, cache, request, signal, collector, follower, missed, started>>

Values == IF key = "mode" THEN {"lite", "full"} ELSE {"disabled", "weekly", "monthly"}
Idle   == [at |-> "idle", value |-> NoValue, late |-> FALSE]

\* GetMonitoringInterval: any other mode is lite.
Interval(v) == IF v = "full" THEN "full" ELSE "lite"
\* scheduleReset: any other schedule has no job.
Job(v) == IF v \in {"weekly", "monthly"} THEN v ELSE NoValue
\* What the follower makes of a value.
Following(v) == IF key = "mode" THEN Interval(v) ELSE Job(v)

Init ==
  /\ key \in {"mode", "schedule"}
  /\ stored = IF key = "mode" THEN "lite" ELSE NoValue
  /\ cache = [layer \in {"setting", "value"} |-> NoValue]
  /\ request = [q \in Requests |-> Idle]
  /\ signal = FALSE /\ collector = Idle
  /\ follower = Following(stored) /\ missed = FALSE /\ started = TRUE
-----------------------------------------------------------------------------
(***************************************************************************)
(* GetSettingValue: the value, else the row, else the table; what was not  *)
(* in the cache is put there in a second step.  Here is what a reader      *)
(* holds after the first.                                                  *)
(***************************************************************************)
Found(at, entry) == [at |-> at, value |-> entry.value, late |-> entry.late]

Look ==
  IF cache["value"] # NoValue THEN Found("done", cache["value"])
  ELSE IF cache["setting"] # NoValue THEN Found("fill", cache["setting"])
  ELSE [at |-> IF stored = NoValue THEN "done" ELSE "fill", value |-> stored, late |-> FALSE]

Entry(read) == [value |-> read.value, late |-> read.late]
Filled(read) == [layer \in DOMAIN cache |->
                   IF layer = "value" \/ cache[layer] = NoValue THEN Entry(read) ELSE cache[layer]]

\* GetMonitoring, GetSchedule.
GetSettingValue(q) ==
  /\ request[q] = Idle
  /\ request' = [request EXCEPT ![q] = IF Look.at = "done" THEN Idle ELSE Look]
  /\ UNCHANGED <<key, stored, cache, signal, collector, follower, missed, started>>

FillCache(q) ==
  /\ request[q].at = "fill"
  /\ cache' = Filled(request[q])
  /\ request' = [request EXCEPT ![q] = Idle]
  /\ UNCHANGED <<key, stored, signal, collector, follower, missed, started>>
-----------------------------------------------------------------------------
\* The row changes, or its entries go: who is about to cache what they held is
\* late.
Late(r) == [r EXCEPT !.late = @ \/ r.at \in {"fill", "cache"}]
OthersLate(q, next) ==
  /\ request' = [p \in Requests |-> IF p = q THEN next ELSE Late(request[p])]
  /\ collector' = Late(collector)

Goes(q, at) == request' = [request EXCEPT ![q].at = at]
\* Another change is written and not yet told.
Underway(q) == \E p \in Requests \ {q} : request[p].at \in {"cache", "drop", "tell"}

\* UpdateMonitoring, UpdateSchedule: the row is changed, or made ...
UpdateSetting(q, v) ==
  /\ request[q] = Idle /\ v \in Values
  /\ stored' = v
  /\ OthersLate(q, [at |-> IF stored = NoValue THEN "cache" ELSE "drop", value |-> v, late |-> FALSE])
  /\ missed' = IF key = "schedule" THEN Underway(q) \/ ~started ELSE missed
  /\ UNCHANGED <<key, cache, signal, follower, started>>

\* ... a new row is put into the cache ...
CacheNew(q) ==
  /\ request[q].at = "cache"
  /\ cache' = [layer \in DOMAIN cache |-> Entry(request[q])]
  /\ Goes(q, "tell")
  /\ UNCHANGED <<key, stored, signal, collector, follower, missed, started>>

\* Mutant: the entry of the row is deleted, that of its value stays.
InvalidateRow(q) ==
  /\ request[q].at = "drop"
  /\ cache' = [cache EXCEPT !["setting"] = NoValue]
  /\ OthersLate(q, [request[q] EXCEPT !.at = "tell"])
  /\ UNCHANGED <<key, stored, signal, follower, missed, started>>

\* ... and a changed one is taken out of it.
Invalidate(q) ==
  /\ request[q].at = "drop"
  /\ cache' = [layer \in DOMAIN cache |-> NoValue]
  /\ OthersLate(q, [request[q] EXCEPT !.at = "tell"])
  /\ UNCHANGED <<key, stored, signal, follower, missed, started>>

\* A signal already in the channel is enough.
ReloadInterval(q) ==
  /\ request[q].at = "tell" /\ key = "mode"
  /\ signal' = TRUE
  /\ request' = [request EXCEPT ![q] = Idle]
  /\ UNCHANGED <<key, stored, cache, collector, follower, missed, started>>

UpdateSchedule(q) ==
  /\ request[q].at = "tell" /\ key = "schedule"
  /\ follower' = Job(request[q].value)
  /\ request' = [request EXCEPT ![q] = Idle]
  /\ UNCHANGED <<key, stored, cache, signal, collector, missed, started>>

(***************************************************************************)
(* UpdateSettings: a row that exists, any value, and no invalidation: what *)
(* the cache holds is late.  The collector is told of a mode it knows, the *)
(* cron of nothing.                                                        *)
(***************************************************************************)
UpdateSettings(q, v) ==
  /\ request[q] = Idle /\ stored # NoValue
  /\ stored' = v
  /\ LET told == key = "mode" /\ v \in Values IN
       /\ OthersLate(q, IF told THEN [Idle EXCEPT !.at = "tell", !.value = v] ELSE Idle)
       /\ missed' = (missed \/ ~told)
  /\ cache' = [layer \in DOMAIN cache |-> IF cache[layer] = NoValue THEN NoValue
                                          ELSE [cache[layer] EXCEPT !.late = TRUE]]
  /\ UNCHANGED <<key, signal, follower, started>>
-----------------------------------------------------------------------------
\* The collector's loop takes the signal and reads as any other reader; when
\* the query fails the signal is gone and the interval stays.
Follow(read) == follower' = Interval(read.value) /\ missed' = read.late

TakeSignal ==
  /\ signal /\ collector = Idle
  /\ signal' = FALSE
  /\ \/ Look.at = "done" /\ Follow(Look) /\ UNCHANGED collector
     \/ Look.at = "fill" /\ collector' = Look /\ UNCHANGED <<follower, missed>>
     \/ /\ \A layer \in DOMAIN cache : cache[layer] = NoValue
        /\ missed' = TRUE /\ UNCHANGED <<collector, follower>>
  /\ UNCHANGED <<key, stored, cache, request, started>>

SetInterval ==
  /\ collector.at = "fill"
  /\ cache' = Filled(collector)
  /\ Follow(collector)
  /\ collector' = Idle
  /\ UNCHANGED <<key, stored, request, signal, started>>

\* After a minute.
CacheExpires(layer) ==
  /\ cache[layer] # NoValue
  /\ cache' = [cache EXCEPT ![layer] = NoValue]
  /\ UNCHANGED <<key, stored, request, signal, collector, follower, missed, started>>

\* NewTrafficCollector (with no interval configured) and Initialize read the
\* table.  Unanswered the collector is lite.  With no answer, or a schedule it
\* does not know, Initialize fails, and the cron never starts in this process,
\* whatever jobs it is given later.
Restart ==
  /\ cache' = [layer \in DOMAIN cache |-> NoValue]
  /\ request' = [q \in Requests |-> Idle]
  /\ signal' = FALSE /\ collector' = Idle
  /\ \E answered \in BOOLEAN :
       /\ follower' = IF answered THEN Following(stored) ELSE Following(NoValue)
       /\ started' = (key = "mode" \/ (answered /\ stored # "other"))
       /\ missed' = (~answered \/ ~started')
  /\ UNCHANGED <<key, stored>>

\* The two handlers that write one setting and tell who follows it.
UpdateMonitoring(q) ==
  \/ key = "mode" /\ \E v \in Values : UpdateSetting(q, v)
  \/ ReloadInterval(q)
UpdateTrafficResetSchedule(q) ==
  \/ key = "schedule" /\ \E v \in Values : UpdateSetting(q, v)
  \/ UpdateSchedule(q)

Next ==
  \/ \E q \in Requests :
       \/ GetSettingValue(q) \/ FillCache(q) \/ CacheNew(q) \/ Invalidate(q)
       \/ UpdateMonitoring(q) \/ UpdateTrafficResetSchedule(q)
       \/ \E v \in Values \cup {"other"} : UpdateSettings(q, v)
  \/ TakeSignal \/ SetInterval \/ Restart
  \/ \E layer \in DOMAIN cache : CacheExpires(layer)

Spec == Init /\ [][Next]_vars
-----------------------------------------------------------------------------
\* With no change under way and no signal waiting, the collector polls at the
\* interval of the stored mode, unless a value it read was cached late, it was
\* not told, or its last read failed; and the cron runs the job of the stored
\* schedule, unless two changes crossed, the schedule was written behind its
\* back, or when it started it found none or one it does not know.
SettingsFollowed ==
  (\A q \in Requests : request[q].at \in {"idle", "fill"}) /\ ~signal /\ collector = Idle /\ ~missed
  => started /\ follower = Following(stored)
===============================================================================
