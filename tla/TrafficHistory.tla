---------------------------- MODULE TrafficHistory ----------------------------
(***************************************************************************)
(* The history of traffic: raw rows of the collector, hourly and daily     *)
(* rows the aggregator makes of them at each tick, and what retention      *)
(* deletes.  One user, inbound and core.                                   *)
(*                                                                         *)
(* Hours are counted from the first.  The ticker fires once in each hour   *)
(* after that of the start, at the minute of the start, and holds one tick *)
(* for an aggregator that is late.                                         *)
(*                                                                         *)
(* Sources: services/traffic_collector.go, services/data_aggregator.go,    *)
(* services/data_retention_service.go, api/stats.go.                       *)
(***************************************************************************)
EXTENDS Naturals, FiniteSetsExt

CONSTANTS
  HoursPerDay,
  MaxHour,     \* bound on the clock
  MaxTraffic,  \* bound on the samples of an hour
  MaxRestarts,
  RawDays,     \* retention_raw_days, and the aggregator's own 7
  HourlyDays,  \* values of retention_hourly_days; the aggregator's own is 90
  NoSample     \* the collector is waiting

VARIABLES
  hour,      \* the clock
  fired,     \* the aggregator's ticker has fired in this hour
  due,       \* the ticker's channel, of one place, holds a tick
  raw,       \* for each hour the raw rows in the table, summed
  recorded,  \* history: all raw rows of the hour
  hourly,    \* the hourly rows in the table
  daily,     \* for each day its daily rows [rows, total]
  sample,    \* the hour the collector's answer will be recorded at
  tick,      \* the aggregator: "idle" or "daily"
  aggregated,\* history: the hours aggregateHourly has been over
  missing,   \* history: hours of which a row has not once what was recorded
  restarts

vars == <<hour, fired, due, raw, recorded, hourly, daily, sample, tick, aggregated, missing,
          restarts>>

Hours  == 0..MaxHour
Day(h) == h \div HoursPerDay
Days   == 0..Day(MaxHour)
HoursOf(d) == {h \in Hours : Day(h) = d}
SumOver(f, S) == MapThenSumSet(LAMBDA h : f[h], S)

Init ==
  /\ hour = 0 /\ fired = TRUE /\ due = FALSE
  /\ raw = [h \in Hours |-> 0] /\ recorded = [h \in Hours |-> 0] /\ hourly = [h \in Hours |-> 0]
  /\ daily = [d \in Days |-> [rows |-> 0, total |-> 0]]
  /\ sample = NoSample /\ tick = "idle" /\ aggregated = {} /\ missing = {} /\ restarts = 0
-----------------------------------------------------------------------------
\* collectStats takes the time, asks the core, and inserts.
Collect ==
  /\ sample = NoSample
  /\ sample' = hour
  /\ UNCHANGED <<hour, fired, due, raw, recorded, hourly, daily, tick, aggregated, missing,
                 restarts>>

\* The hour may have been aggregated meanwhile.
InsertRaw ==
  /\ sample # NoSample /\ recorded[sample] < MaxTraffic
  /\ raw' = [raw EXCEPT ![sample] = @ + 1]
  /\ recorded' = [recorded EXCEPT ![sample] = @ + 1]
  /\ missing' = IF sample \in aggregated THEN missing \cup {sample} ELSE missing
  /\ sample' = NoSample
  /\ UNCHANGED <<hour, fired, due, hourly, daily, tick, aggregated, restarts>>

\* The core does not answer, or the insert fails.
CollectFails ==
  /\ sample # NoSample
  /\ sample' = NoSample
  /\ UNCHANGED <<hour, fired, due, raw, recorded, hourly, daily, tick, aggregated, missing,
                 restarts>>

\* Rows recorded more than this many days ago.
Older(days) == {h \in Hours : h + days * HoursPerDay < hour}

Trimmed == [h \in Hours |-> IF h \in Older(RawDays) THEN 0 ELSE raw[h]]

\* A row of the hour before the one it finds, if that has any, and the raw rows
\* that are old.  It may find the hour of the tick before, or a later one.
aggregateHourly ==
  /\ tick = "idle" /\ due /\ hour > 0
  /\ hourly' = [hourly EXCEPT ![hour - 1] = @ + raw[hour - 1]]
  /\ raw' = Trimmed
  /\ missing' = IF hour - 1 \in aggregated THEN missing \cup {hour - 1} ELSE missing
  /\ aggregated' = aggregated \cup {hour - 1}
  /\ tick' = "daily" /\ due' = FALSE
  /\ UNCHANGED <<hour, fired, recorded, daily, sample, restarts>>

\* Its query fails, or its insert.
HourlyFails ==
  /\ tick = "idle" /\ due /\ hour > 0
  /\ raw' \in {raw, Trimmed}
  /\ tick' = "daily" /\ due' = FALSE
  /\ UNCHANGED <<hour, fired, recorded, hourly, daily, sample, aggregated, missing, restarts>>

\* A daily row of day d with these hourly rows, or none if they hold nothing;
\* it lacks the hours that have not been aggregated.
DailyRow(d, total) ==
  IF total = 0 THEN UNCHANGED <<daily, missing>>
  ELSE /\ daily' = [daily EXCEPT ![d] = [rows |-> @.rows + 1, total |-> @.total + total]]
       /\ missing' = missing \cup (HoursOf(d) \ aggregated)

\* Mutant: the hourly rows are summed with those of the day that has begun.
DailyOfToday ==
  /\ tick = "daily"
  /\ IF Day(hour) = 0 THEN UNCHANGED <<daily, missing>>
     ELSE DailyRow(Day(hour) - 1, SumOver(hourly, HoursOf(Day(hour)) \cup HoursOf(Day(hour) - 1)))
  /\ tick' = "idle"
  /\ UNCHANGED <<hour, fired, due, raw, recorded, hourly, sample, aggregated, restarts>>

\* A row of the day before the one it finds, at every tick of this one.  It
\* reads the clock again: the hour may be a later one than aggregateHourly's.
aggregateDaily ==
  /\ tick = "daily"
  /\ IF Day(hour) = 0 THEN UNCHANGED <<daily, missing>>
     ELSE DailyRow(Day(hour) - 1, SumOver(hourly, HoursOf(Day(hour) - 1)))
  /\ tick' = "idle"
  /\ UNCHANGED <<hour, fired, due, raw, recorded, hourly, sample, aggregated, restarts>>

DailyFails ==
  /\ tick = "daily"
  /\ tick' = "idle"
  /\ UNCHANGED <<hour, fired, due, raw, recorded, hourly, daily, sample, aggregated, missing,
                 restarts>>

\* cleanupOldData, at the start and daily.  An hourly row is recorded at the
\* beginning of its hour; one day of them does not cover the previous day.
cleanupOldData(days) ==
  /\ raw' = Trimmed
  /\ LET cut == {h \in Hours : h + days * HoursPerDay <= hour} IN
       /\ hourly' = [h \in Hours |-> IF h \in cut THEN 0 ELSE hourly[h]]
       /\ missing' = missing \cup {h \in cut : Day(h) + 1 = Day(hour)}
  /\ UNCHANGED <<hour, fired, due, recorded, daily, sample, tick, aggregated, restarts>>

\* The minute of the start: a tick the channel has no place for is dropped.
Fire ==
  /\ ~fired
  /\ fired' = TRUE /\ due' = TRUE
  /\ UNCHANGED <<hour, raw, recorded, hourly, daily, sample, tick, aggregated, missing, restarts>>

\* Time passes whatever the aggregator is doing.
Clock ==
  /\ hour < MaxHour /\ fired
  /\ hour' = hour + 1 /\ fired' = FALSE
  /\ UNCHANGED <<due, raw, recorded, hourly, daily, sample, tick, aggregated, missing, restarts>>

\* The new process first ticks an hour after its start.
Restart ==
  /\ restarts < MaxRestarts
  /\ restarts' = restarts + 1
  /\ sample' = NoSample /\ tick' = "idle" /\ fired' = TRUE /\ due' = FALSE
  /\ UNCHANGED <<hour, raw, recorded, hourly, daily, aggregated, missing>>

Next ==
  \/ Collect \/ InsertRaw \/ CollectFails \/ aggregateHourly \/ HourlyFails \/ aggregateDaily
  \/ DailyFails \/ Fire \/ Clock \/ Restart
  \/ \E days \in HourlyDays : cleanupOldData(days)

Spec == Init /\ [][Next]_vars
-----------------------------------------------------------------------------
\* What GetUserTrafficStats and GetTrafficOverview show of a day: all its rows.
Shown(d) == daily[d].total

\* Every daily row is the traffic recorded on its day, whatever the tick that
\* made it and whatever retention has deleted since.  Not so where an hour was
\* aggregated before its last sample came, twice, or not before a daily row of
\* its day, or where less than two days of hourly rows are kept.
DaysAddUp ==
  \A d \in Days : missing \cap HoursOf(d) = {} =>
    Shown(d) = daily[d].rows * SumOver(recorded, HoursOf(d))
===============================================================================
