# TLA+ models of Isolate Panel

Isolate Panel manages three proxy cores (xray, sing-box, mihomo). A Go process (fiber, gorm, SQLite in WAL mode) serves
an HTTP API to a browser and a command line client, keeps users, inbounds, outbounds and settings in one database,
generates a configuration file for each core, and starts, stops and restarts the cores through supervisord. Users fetch
subscriptions from it that tell their apps how to reach the cores. Background goroutines collect traffic, enforce
quotas, watch the cores, send notifications, make backups, aggregate statistics and renew tokens and certificates.

Nearly every bug such a system can have lies between these goroutines, or between two parts that must agree: what a
configuration offers and what a subscription says of it, what a rule asks for and what a core does. Handlers and workers
read a row, call something slow, and save the whole row; files are written with no lock; channels are bounded; what is
in memory is lost at a restart. The modules here model those steps one by one. Paths below are relative to
`src/backend/internal` unless they begin with `src/` or `docs/`.

## Contents

1. [Inventory](#inventory)
2. [Modules and how they correspond to the code](#modules)
3. [Runs](#runs)
4. [Findings](#findings)
5. [Fairness](#fairness)
6. [Proofs](#proofs)
7. [What is not modelled](#not-modelled)
8. [Plan](#plan)

To run: `tlc -config <run>.cfg <module>.tla` with the module of the table in section 3, and `tlapm <module>_proofs.tla`
for each of the proof modules (what tlapm remembers of them, the `.tlaps` directories, is not kept).

<a name="inventory"></a>
## 1. Inventory

| Component | State | Operations | Talks to | Hard behaviour | Correct means | Module |
|---|---|---|---|---|---|---|
| Core lifecycle (`services/core_lifecycle.go`, `services/config_service.go`, `cores/manager.go`, `cores/supervisor.go`, `app/watchdog.go`) | row of `cores`, configuration file and its `.tmp`, the process | hooks for created, updated, deleted inbounds, RegenerateConfig, RegenerateAndReload, start, stop, restart, status, watchdog, InitializeCores | database, files, supervisord (XML-RPC with retries) | no lock around an operation, whole rows saved after slow calls, lost answers, restarts of the panel | the core runs exactly if it has an enabled inbound, with the current configuration, and the row says so | CoreLifecycle |
| Inbounds (`services/inbound_service.go`) | tables `inbounds`, mappings | create, update, delete, assign users | core lifecycle, ports, subscriptions | check then insert; the hook runs in the request | hooks see what they are about; who is mapped gets in, who is not does not | CoreLifecycle, Ports, Offering, Subscriptions |
| Outbounds (`services/outbound_service.go`) | table `outbounds` | create, update, delete | RegenerateAndReload | as above | the change reaches the core | CoreLifecycle, Offering, RouteRules |
| Users (`services/user_service.go`) | table `users` (soft deletion) | create, update, delete, credentials, expiry | subscriptions, enforcer (through the row) | whole rows saved; Save inserts what is gone | counters only grow by traffic, deletion lasts | TrafficQuota, Offering, Subscriptions |
| Traffic collector (`services/traffic_collector.go`, `cores/*/stats_client.go`) | `users.traffic_used_bytes`, raw rows of `traffic_stats`, interval | tick, change of interval, stop | statistics of the cores, settings | cumulative statistics that restart with the core | each byte is counted once | TrafficQuota, Settings, TrafficHistory |
| Quota enforcer (`services/quota_enforcer.go`, `scheduler/traffic_reset_scheduler.go`) | warnings in memory, `users.is_active` | pass every five minutes, reset by cron | users, notifications, RegenerateAndReload | stale rows, resets during a pass | over the limit: switched off; near it: told | TrafficQuota |
| Notifications (`services/notification_service.go`) | table `notifications`, channel of 100 jobs, settings in memory | send, worker, retry every five minutes, cleanup | webhook, Telegram | copies of rows in jobs, full channel, shutdown | each one is sent once, fails or is dropped, knowingly | Notifications |
| Dashboard hub (`api/websocket.go`) | set of clients, two channels of 32, tickets | register, unregister, broadcast, purge | WebSocket peers | the hub sends on a channel that only it receives from | live clients are served, dead ones leave, the hub never stops | DashboardHub |
| Backups (`services/backup_service.go`, `scheduler/backup_scheduler.go`) | table `backups`, archives, schedule in a row | create, rotate, delete, restore, schedule | files, the database file itself | goroutines save whole rows; restart in the middle; the row is part of what it backs up | a completed backup can be restored, again and again | Backups, BackupFiles |
| Configuration generators (`cores/*/config.go`, `protocol/generators.go`) | the configuration of a core | generate, validate | tables | rows that no core understands | every inbound (disabled ones too) and its users, as the rows say | CoreConfigs, Offering |
| Protocol registry (`protocol/*`) | schemas | register, list, validate, defaults | inbounds, wizard, generators | three cores, two directions, one list | what the wizard offers works | ProtocolRegistry |
| Subscriptions (`services/subscription_service.go`, `services/subscription/*`) | cache of five minutes, tokens, short links | generate in four formats, new token, short link | users, inbounds, certificates | read, invalidate, fill; four formats, three cores | what it says gets the user in; a change shows in the next download | Subscriptions, SubscriptionFormats, Offering |
| WARP (`services/warp_service.go`, `cores/warp_integration.go`) | account file, `wg.conf`, table of routes | register, refresh, routes | Cloudflare API, generators | refresh against registration; truncated files | the last registration stays; routed traffic goes there | WarpAccount, RouteRules, Egress |
| Geo databases (`services/geo_service.go`, `cores/geo_integration.go`) | files, table of rules | update, automatic update, rules | HTTP, generators | two downloads into one temporary file | a file is whole; a rule decides | GeoFiles, RouteRules, Egress |
| Sessions and administrators (`api/auth.go`, `auth/*`, `middleware/auth.go`) | sessions, tokens, revoked tokens, rows of `admins`, passkeys, failed logins | login, refresh, logout, passwords, TOTP, passkeys, cleanups | database | rotation and logout in several statements, memory and table | a logout is final, one refresh token per login, nothing set is undone | Sessions, Admins, LoginAttempts |
| Certificates (`services/certificate_service.go`, `acme/acme.go`, `app/sub_listener.go`) | table, files, the listener's pair | request, renew, upload, revoke, delete, view | ACME | slow calls under a mutex that uploads and views do not take | row, files and listener agree | Certificates |
| Settings (`services/settings_service.go`) | table `settings`, two caches | get, update one, update many | collector, reset scheduler | a read fills the cache after an update invalidated it | who is told to reload follows the new value | Settings |
| Traffic history (`services/data_aggregator.go`, `services/data_retention_service.go`) | raw, hourly, daily rows | aggregate every hour, clean every day | collector | the same period aggregated twice, or after it was cleaned | sums of a period agree | TrafficHistory |
| Ports (`services/port_manager.go`, `haproxy/validator.go`) | ports of inbounds | check, validate a conflict | inbounds | check then insert | no two inbounds on a port | Ports |
| HAProxy (`haproxy/*`) | file, pool of ports | generate, reload, allocate | nobody | constructed and never called | | table of protocols in Ports |
| Connection tracker (`services/connection_tracker.go`) | table `active_connections`, map | tick, add, remove, close | cores | section 7 | | |
| Event bus, worker pool, unit of work (`eventbus/*`, `worker/*`) | subscriptions; semaphore | publish; go, wait | nobody | not used | | |
| Log retention, audit (`scheduler/log_retention_scheduler.go`, `services/audit_service.go`) | rows | delete by age | database | none | | |
| Field encryption (`crypto/*`, `database/encryption_plugin.go`) | key | encrypt, decrypt | gorm callbacks | none | | |
| Persistence (`database/*`, `repository/*`, `cache/*`) | SQLite file, caches | statements, migrations | everybody | Save is UPDATE, then an upsert | | |
| HTTP layer, CLI, frontend, deployment | none of their own | | | | | |

What is hard to test in each part, line by line, with the properties about it, is in `PROJECT.json` ("hazards").

<a name="modules"></a>
## 2. Modules and how they correspond to the code

Every operator that stands for code is listed with its lines in `PROJECT.json` ("map"). The rules that all modules share:

- a step is what runs without letting another goroutine see its middle: one SQL statement, one file operation, one call
  to supervisord, one channel operation, or a section under a mutex whose data nobody else touches;
- a row that gorm read is a copy (`snap`, `row` of a job) until `Save` writes all of it back. `Save` updates every
  column, and inserts the row if there is none;
- a call that can fail is an alternative of its step, and what the code does on the error is part of it;
- in the modules of the core group, statements on the database succeed (an error of one returns early and is logged); in
  the service group they may fail where the code goes on or leaves something behind (`WriteFails`, `RefreshFails`, ...);
- variables marked "history" record what happened so that a property can speak about it; no action reads them. They are
  also how a property names what the code does not promise: see "Excuses" in section 3.

### The core group

**CoreLifecycle** (proofs: **CoreLifecycle_proofs**, abstract specification: **LazyCore**) is one core. `inbounds` is its
part of table `inbounds` (what a row says, or that there is none), `enabled` the rows whose `is_enabled` is set, `rev`
counts changes to everything else the generators read, `row` is the row of `cores` (`is_running`, whether `last_error` is
set, and whether xray's API port was drawn; its `is_enabled` is left out, since nothing in the panel ever clears it), `file` and `tmp` are `config.json` and `config.json.tmp`, `proc` is the
process with the configuration it loaded when it started. Each handler `h` has a program counter `pc[h]`; the steps are
named after the function they are in. `CreateInbound`, `UpdateRead`/`UpdateApply`/`UpdateDispatch` and
`DeleteRead`/`DeleteApply`/`CountOthers` are InboundService with the hooks OnInboundCreated, OnInboundUpdated and
OnInboundDeleted; `ReadCore`, `GenerateConfig` and `WriteConfig` are RegenerateConfig (`PortSaved` is the whole row that
xray's generator saves when it draws a port); `Desired` is what the generators make of the tables, every row of the core,
disabled ones too; `Probe`, `ReadRow`, `StartCheck`, `StartCall`,
`StartAnswer`, `StartConfirm`, `StartSave`, `RestartStop`, `StopCheck`, `StopCall`, `StopSave` are CoreManager and
SupervisorClient with its retries; `Touch*` is RegenerateAndReload; `StatusRead`/`StatusCheck` is GetCoreStatus,
`WatchdogRead`/`WatchdogSave` the watchdog, `InitializeCore` InitializeCores. `ProcessUp` and `ProcessDies` are
supervisord's, `PanelRestart` ends every goroutine. Operations on different cores meet nowhere but in the database rows
of their own core, so one core is enough.

**LazyCore** is what a core promises an administrator who sends one request at a time: it is down or serves a
configuration, comes up only with what is wanted at that moment, and a request ends only when the core serves what is
wanted. CoreLifecycle implements it (`LazyStart`) with `wanted` = the enabled inbounds, and all rows as they are, `served` =
the configuration of the running process, `busy` = a handler is at work. A configuration meets what is wanted (`Meets`)
if every enabled inbound is in it as its row says, and otherwise exactly those that have a row: a disabled inbound is in
it too, perhaps as it was before an update, because the update of one that stays disabled runs no hook.

**DashboardHub** (proofs: **DashboardHub_proofs**) is api/websocket.go: `at[c]` is where the handler goroutine of a
connection is, `sock[c]` what its peer does, `clients` the hub's map, `register` and `unregister` the two channels of
capacity `Cap`, `hub` where the hub is. `HubTick`, `HubWrite`, `HubWritten`, `HubEvict` are broadcastAll, one client at a
time; `HubEvict` is the send to `h.unregister` at line 162, and `Jammed` is the hub waiting there for itself. `late` is
history: the last tick found departures still waiting. `IssueWSTicket`, `TicketExpires` and `PurgeExpiredTickets` are
the tickets.

**Notifications** (proofs: **Notifications_proofs**) is notification_service.go: `table` has the rows, `queue` the channel
of jobs, each a copy of a row, `job` the one the worker has. `Create` and `Enqueue` are SendNotification, `Take`,
`Attempt`, `SaveNotification` and the `Cleanup*` steps the worker, `RetryTick` and `RetryPush` the retry timer.
`accepted[n]` counts what a channel took; `lost` are the notifications whose job was dropped or was in memory when the
panel stopped; `rushed` says that a retry tick found a job of the last one still unfinished.

**TrafficQuota** (proofs: **TrafficQuota_proofs**) is table `users` and its writers: `ReadUser`, `UpdateUser`,
`RegenerateCredentials`, `DeleteUser` (user_service.go), `Traffic` and `Collect` (the core's statistics and the
collector), `CheckAndEnforce`, `Enforce`, `ReloadAffectedCores` (a pass of the enforcer: it reads all users, then saves
whole rows one by one), `ResetAllTraffic` and `ClearAllWarnings`. `served` are the users in the configuration the core
runs with. `warned` are the enforcer's maps in memory; `kept` is history: the thresholds in them whose warning was about an
earlier limit of the user.

**Backups** (proofs: **Backups_proofs**) is backup_service.go and backup_scheduler.go: `table`, the archives, and what
lies at the database's path (`disk`): the file that the connections use, a restored copy, a part of one, or nothing.
`job[s]` is the goroutine of CreateBackup with performBackup and rotateBackups, `restore[r]` a call of RestoreBackup with
its goroutine, `deleting` DeleteBackup, `sched` UpdateSchedule; `aside[r]` is the database file a restore renamed away.
`Restart` is the end of the process and BackupService.Initialize and BackupScheduler.Initialize of the next one, which
reads whatever file it finds. `excuse` records, by name, the events that make the code break a promise (section 3). The
connections of the panel stay on the unlinked file after a restore: what is saved then, the status of the restored
backup included, is gone after the restart, and backups made meanwhile copy the restored file. `second[s]` is what the
archive of stamp s is called after: CreateBackup may come in the second of the one before, and then the two have one
file, which both goroutines write, at once perhaps (`Mix`), and both removals remove. Two things are simpler
than in the code: connections are taken to live until the restart (the pool closes them after an hour, and new ones open
the restored file), and the write-ahead log that stays beside a restored file is only allowed for by letting the
integrity check fail at will.

### The offering group: does what a user is told work?

**ProtocolRegistry** is protocol/*: each schema as a record of name, cores, direction and parameters; `Register` (a later
schema of the same name replaces the earlier one), the lists per core and direction, `ValidateProtocolConfig`, and the
defaults the wizard starts from. **CoreConfigs** is what the three generators make of a row: for an inbound the endpoint
that the core then serves (transport, security, the accounts it lets in), for an outbound its tag, and whether
`ValidateConfig` passes the result. For Mihomo there is no endpoint: its generator puts inbounds into `proxies`, the list of
Mihomo's own upstreams (cores/mihomo/config.go:150-157). **SubscriptionFormats** is what the v2ray, sing-box, clash and isolate builders say of an
inbound, in the names of the format. All three are functions; a value of config_json is a string only where a generator
looks at it.

**Offering** (proofs: **Offering_proofs**) composes them: the tables (`db`: inbounds, outbounds, mappings, versions of credentials, deleted users), the
file generated from a snapshot of them, and the snapshot the core runs with. An operation of the API is one step with
everything it does to rows, file and core (`CreateInbound`, `UpdateInbound`, ..., `AssignInboundToUser`,
`RegenerateCredentials`, `CreateOutbound`); the interleavings inside are CoreLifecycle's. `behind` records why the core may
run something else than the rows say. The central definition is `LetsIn(i, format, user)`: the app of a user, configured
by this format, is let in by an endpoint the core serves. `Understood` says, by what a row holds, when
that is (never with Mihomo): which names and paths of transports a format carries (`Carried`), where the security is the same (`SameSecurity`,
`OtherSecurity`), when the flow is (`SameFlow`), and the few other protocols for which a format names what their core has
(`OthersKnown`).

### The egress group: where does traffic leave?

**RouteRules** is what warp_integration.go and geo_integration.go append to a configuration in each core, and
what each core makes of it: traffic is the set of conditions it meets, the first rule that fits decides, `Decision` is
the outbound taken, `Accepts` whether the core starts with these rules at all. That a bare domain is any part of a name for
xray, that sing-box has no action `block` or `dns` and refuses an endpoint with fields of an outbound, and that a rule
without condition is refused, is how those cores behave, not something this repository says. **WarpAccount** is warp_account.json and
wg.conf under RegisterWARP and RefreshToken, with files that read as `Torn` while they are written; **GeoFiles** is one
geo database under two updaters that share a temporary path, down to inodes: truncating a path truncates what another
download may still be writing, and the modification time decides whether the next update downloads at all.

**Egress** (proofs: **Egress_proofs**) composes them: the tables of routes and rules under the handlers (`AddWarpRoute`, `UpdateGeoRule`, `ApplyPreset`,
...) with the account the generators read. `Asked` is what an administrator asks for, in terms of the tables only.

### The service group

Nine modules that share no state. **Services** (proofs: **Services_proofs**) puts them side by side: a behaviour exercises
one of them, `part`, with all its processes, while the variables of the others stay 0. What holds of every behaviour of
Services holds of each of the nine, so that one run covers all of them, and a theorem about one is a theorem of the
property the run checks.

- **Sessions**: api/auth.go, auth/jwt.go, auth/bff_session.go. Token `n` is the refresh token of row `n` and the access token
  issued with it. `LogIn`, `Refresh` with `RevokeOld`/`CreateNew`, `SessionRefresh` of a browser with its three further
  steps, `Logout` with `BlacklistAccessToken` and `InsertRevoked`, `SessionLogout`, the two cleanups, and a restart that loads
  the table of revoked tokens.
- **Admins**: the row of an administrator. `Login` reads it, checks, and `SaveAdmin` writes it all back; `ChangePassword`,
  `TOTPSetup`/`TOTPVerify`/`TOTPDisable` write columns; passkeys with their challenges.
- **LoginAttempts**: rows of failed logins by time, the lock, and the notification at the limit.
- **Certificates**: rows, the two files of each directory (`SaveCertificate` writes certificate and key, one after the
  other, then the row; a write that fails or is cut leaves the file truncated, `Torn`), the listener's pair (`LoadPair`,
  which takes the pair only if the key fits), with uploads and views beside the mutex. An upload goes to the directory of
  the base name of its domain, so two domains may share one, and its key may be that of another certificate.
- **Subscriptions**: the cache. A reader is `GetUserBySubscriptionToken`,
  `GetUserSubscriptionData`, `GetCachedSubscription`, `SetCachedSubscription`; an editor changes rows and invalidates, in the
  order of the code (`UpdateUser` then `InvalidateUserCache`, but the invalidation first in `DeleteUser` and
  `DeleteInbound`). `InvalidateUserCache` of an inbound asks for its users first, and does nothing if that query fails.
- **Settings**: a row, the two cache entries over it, and who follows it: the collector through a channel of capacity
  one, the cron of traffic resets directly. The read after a signal, and those at the start, may fail.
- **TrafficHistory**: `Collect`/`InsertRaw`, `aggregateHourly`, `aggregateDaily`, `cleanupOldData`, a clock in hours that
  waits for nobody: a tick is put into a channel of one (`Fire`), and each of the two aggregations reads the clock again.
- **Ports**: `CreateInbound` and `UpdateInbound` check (`IsPortAvailable`), then `Insert` or `Update` against the
  unique index, where a query that fails counts as a port that is free; `ValidatePortConflict` is the answer the API gives
  about a port.
- **BackupFiles**: the directories of an archive beside the database and the key that seals it, under `PerformRestore`
  part by part, with a rename that fails over any directory that exists.

The `MC*` modules only add the model values, instances and symmetry sets the configurations use.

<a name="runs"></a>
## 3. Runs

| Run (module) | Bounds | Shows |
|---|---|---|
| lifecycle_serial (MCCoreLifecycle) | 1 handler, 3 inbounds with two contents each, no faults | `CleanConsistent`: requests one at a time, with status requests and the watchdog, leave the core running exactly when an inbound is enabled, with every enabled inbound as its row says, and row and file agree. `LazyStart`: implements LazyCore. Three inbounds are enough for "one of several is deleted or disabled" and "the last is". |
| lifecycle_faults (MCCoreLifecycle) | 2 handlers, 1 inbound, four operations, every fault, restarts | `SoloRepairs`: whatever races, failures and restarts left behind, an operation that meets no other repairs it. |
| lifecycle_overlap (MCCoreLifecycle) | 2 handlers, 1 inbound, all nine operations, no faults | `NoTempLeft` under every overlap of two operations: two writers of one temporary file never leave it behind. |
| hub (MCDashboardHub) | 2 connections, 2 tickets, channels of 2 | `OneConnPerTicket`, `JamsOnlyCrowded`, `OnlyDeadLeave`, `DeadLeave`, `LiveServed`, with peers that close or stop reading, and ticks at any time. Two entries are too few for two connections and enough for one, so the hub does come to wait for itself, both with and without `late`. |
| notify_accounting (MCNotifications) | 2 notifications, queue of 1, at most 1 kept, 1 restart, deletions | `PendingHasJob`, `DeliveredOnce`: with a queue of one the second job is dropped, and cleanup runs. |
| notify_live (MCNotifications) | 2 notifications, queue of 2, 2 retries | `Settles`, `FailedTriedAgain` under fairness. |
| quota (MCTrafficQuota) | 1 user, limits 5 and 10, counter from 3, 2 requests, resets | `Enforced`, `WarnedAt80`, and, while actors come one at a time, `OnlyTrafficCounts`, `DeletedStaysDeleted`. The counter passes the thresholds one byte at a time, exactly at 80 (4 of 5, 8 of 10), 90 (9 of 10) and 100 percent, and a limit raised from 5 to 10 after the warning leaves the user at 40 percent, to come to 80 again. |
| backups (MCBackups) | 2 rows, 1 kept, 2 events among deletions, restores, changes of schedule, restarts | `CompletedHasArchive`, `SomebodyWorks`, `RotationKeeps` (no more than the retention count, and the newest), `ScheduleIsCurrent`, `DatabaseSurvives`. Two rows and one kept make two concurrent rotations interfere; two events give every pair of interferences (restore and restart, two restores, schedule and deletion, ...). The two may be of one second. |
| offering (MCOffering) | 2 persons, 2 inbounds, 1 outbound; for each core, five operations on two typical inbounds (`LongOps`), and three on each of the inbounds the wizard can make: every protocol, transport, and mix of TLS and REALITY | `WorksExactly`: a format's entry gets the user in exactly where `Understood` says, and with Mihomo nowhere. `NobodyElse`: nobody without mapping, or with old credentials, gets in while the core is up to date. `ChangesReach`: the core is up to date but for the reasons in `behind`. |
| offering_unassigned (MCOffering) | the same | violation, see section 4 |
| egress (MCEgress) | 2 routes and 2 rules of every kind and priority on every core, without outbound rows, with one, with one of protocol block, and with both; 2 devices, 5 tokens; 3 releases; 1 restart | `RulesDecide`: a core starts exactly with the rules it can be asked for and then sends traffic where they say. `AccountStands`, `GeoCurrent`: the files stay whole and current. Two rows of a table are enough for their order to matter. |
| services (MCServices) | 2 clients, domains, users, editors, requests, cores; 1 reader, inbound and format; 2 tokens, 2 certificates, 2 versions; clocks of 4 to 6; 1 restart | One property per promise: `LogoutSticks`, `OneLiveToken`, `AdminStands`, `CredentialsStand`, `LimitIsTold`, `CertificatesStand`, `CacheIsCurrent`, `SettingsFollowed`, `DaysAddUp`, `PortsDistinct`, `RestoreStands`. |

The searches are exhaustive within these bounds. Run `services` has one constraint, `Followed`: a history of the
certificates that is `disturbed` stays so and no property speaks of it, so it is not followed further. Deadlock is checked in the lifecycle runs; the
others stop when their bounds are used up, or when the hub or the panel shuts down.

Why the bounds of `services` are enough: two clients are what a race takes; two tokens are a login and one rotation;
lifetimes of one and two ticks against a clock of four let an access token, and then a refresh token, expire and be
cleaned; a limit of three failures is passed by two that meet; two domains and two rows let rows share a domain or not;
an hour of three ticks with a lock of one lets failures leave the lock before the hour; days of two hours and a clock of
four give two complete days and retention of the first.

`SoloRepairs` needs care: "met no other" means that no other operation and no fault came between its first and its last
step (`solo`), not that nothing was ever broken before. `hub` takes every connection's peer as reading "now and then";
`Stalled` excuses the two liveness properties while one does not, and `Jammed` when the hub waits for itself.

**Excuses.** Some promises are broken by the code in a few identifiable ways. Rather than leave them out, the models
record these events and the property holds in every behaviour without them.

| Excuse (Backups) | What the code does | Breaks |
|---|---|---|
| overwritten | a backup's last save, or SetSchedule's, writes a whole stale row over a newer one | a schedule is lost; a finished backup is "running" for ever |
| resurrected | RestoreBackup, SetSchedule or a backup saves a row deleted meanwhile: it is back | a completed backup without archive; one too many |
| placeholder | SetSchedule without backups makes a pending row | it stays pending until a restart an hour later |
| forgotten | the row that holds the schedule is rotated or deleted | the schedule is gone at the next start |
| rejected | an expression of five fields is stored, then refused by the library; at the next start the library is not started | scheduled backups never run; the documented form `0 2 * * *` (api/backup.go) is such an expression |
| hidden | rotation does not see a backup that is being restored | one more is kept, until the next rotation |
| deleted | an administrator deletes a backup | a newer one is gone |
| restored | the restored table lists archives that are gone and not those made since; the backup itself is "running" in it | it cannot be restored again |
| together | two restores at once (restoreMu is released before the work) | the database file can be lost with both copies |
| `Shared` (of a row, not of the history) | another backup was asked for in the same second, and has the same file name | its archive goes with the other's |
| interrupted, orphaned | a restart between archive and row; a restart within the hour, or while restoring | a completed row without archive; pending, running or restoring for ever |

| Excuse (elsewhere) | What the code does | Breaks |
|---|---|---|
| `late`, `Jammed` (DashboardHub) | a tick comes with departures waiting, so a dead client is put in once more; the hub waits for room that only it makes | the room for two entries of each connection; every later registration, update and departure |
| `clean`, `solo` (CoreLifecycle) | two requests meet, or a call fails | the core's consistency, until the next request that is alone |
| `lost`, `rushed` (Notifications) | a full channel drops the job; a retry tick queues a row whose job is still there | it is pending until a restart; it is sent twice |
| `serial` (TrafficQuota) | a stale row is saved over a reset or a deletion | the old counter is back, or the user |
| `Remembered` (TrafficQuota) | a limit is changed, and the enforcer keeps what it warned of under the old one | no warning at a threshold that was warned about before |
| `behind` (Offering) | changes of users never reload a core; an update of a disabled inbound regenerates nothing; a refused configuration stays unwritten | the core serves what the rows do not say |
| `Overreaches`, `Fallback` (Egress) | a domain is written bare for xray, which finds it in any part of a name; an IPv6 route is written with /32; xray sends traffic of a rule without outbound to its first outbound | more, or other, traffic takes the route |
| `overlapped`, `cut` (WarpAccount), `overlapped`, `raced` (GeoFiles) | a refresh writes the account it read over a registration; two updates share `.tmp`; a release comes out during a download | an old account; a mixed file; an old file taken as new |
| `unsaved`, `disturbed` (Sessions) | an insert of the revoked token fails and is logged only; two requests rotate one token, or a rotation stops half way | a token works again after a restart; a login has two tokens, or none |
| `overlapped`, `hasty` (Admins) | a login saves the whole row; TOTPSetup replaces a secret in force | a change of password or TOTP is undone; a secret nobody confirmed is checked |
| `muted` (LoginAttempts) | two failures step over the limit; a wrong code counts without a check | no notification |
| `disturbed` (Certificates) | two rows, or two writers, share a directory, or a renewal moves a row to another; a view writes back a status over a change; a write is cut or fails after it has begun (os.WriteFile truncates) | row, files and listener disagree |
| `late` (Subscriptions) | a reader caches what it read before a change; deletions invalidate before they delete; the query for the users of a changed inbound fails | five minutes of an old subscription |
| `missed` (Settings) | a value cached late; UpdateSettings tells nobody and invalidates nothing; the read after a signal, or at the start, fails | the follower keeps the old value |
| `missing` (TrafficHistory) | an hour aggregated before its last sample, twice (two ticks in one hour), or not before a daily row of its day (a tick lost, late or failed); retention of one day | a day shows less, or more |
| `raced` (Ports) | a check and a write cross, or the query of a check fails and counts as free, on two cores | one port twice |
| `uncertain` (BackupFiles) | a copy of the configurations that is not whole, or made after a crash had left them only in the one before it | configurations are lost |

<a name="findings"></a>
## 4. Findings

**offering_unassigned** (`OnlyAssignedServed`): docs/USER_MANUAL.md:490 says a user cannot connect without being assigned to
inbounds. Unassigning a user, deleting him or giving him new credentials only drops cached subscriptions
(`services/inbound_service.go`:391); no change of users regenerates or restarts a core, and the running one lets him in
until something else restarts it.

### Other statements the code does not keep

They are defined at the end of their modules, or appear there as an exception of a property, and no run is spent on
them.

- Core lifecycle: RegenerateAndReload restarts the core before it renames the new file into place, so the core runs with
  the old configuration (`ChangeIsLoaded`). Disabled inbounds are in generated configurations, since no generator looks at
  `is_enabled` (cores/xray/config.go:274, cores/singbox/config.go:387): a core that runs for another inbound goes on
  serving one that was disabled. The Save of xray's generator (line 266) writes a whole row, with `is_running` and
  `last_error` as they were when it was read. With two requests at once, or one and faults, `CoreNeedsInbound`,
  `InboundIsServed` and `FileIsCurrent` fail.
- Dashboard hub: broadcastAll sends on `h.unregister`, which only the hub itself empties. With more failures in one
  broadcast than the channel has room for, the hub waits for itself for ever (`Jammed`, which run `hub` reaches).
  `JamsOnlyCrowded` says what it takes: more than 16 connections in flight with the 32 entries of the code, or a
  broadcast that began with the departures of an earlier one still in the channel.
- Quotas: no generator looks at `is_active`; the reload after switching a user off still serves him (`BlockedAtLimit`).
  The generators name users `user_<id>`, the collector expects `user_<id>_<inbound>`: no traffic is ever counted
  (`TrafficCounted` with `NamesInbound` = FALSE; run `quota` sets it to TRUE and checks the rest as if it were).
  `warned80` outlives a change of the limit (quota_enforcer.go:74): a user warned at 4 of 5 bytes whose limit is then
  raised to 10 gets no warning at 80 percent, contrary to docs/USER_MANUAL.md:480. Run `quota` meets this;
  `Remembered` excuses it in `WarnedAt80`, and nothing else.
- Notifications: the retry count is never compared with its maximum (`RetriesBounded`); a job saves a deleted row, and
  rows beyond the limit come back (`DeletedStaysDeleted`, `KeptAtMost`); `EnvIsUsed`.
- Backups: `StoredScheduleRuns`; a restore never swaps configurations while there are any, yet reports success
  (`ConfigurationsRestored`). Two backups asked for in one second have one file name (backup_service.go:124-125), hence
  one archive, which holds what was packed last, or a mixture, and goes with the first of them that is removed
  (`Shared`). `encryption_enabled = false` is replaced by the default of the column, and so is
  `include_cores`; `.backup_key` is archived and never restored; the checksum is never verified at a restore.
- What is offered: schemas name transports `websocket`, `http`, `httpupgrade` that no generator knows, so the inbound is
  plain TCP; outbounds on sing-box are compared with the name `sing-box` and refused but for anytls; the defaults of
  `masque` fail their own validation; v2ray and isolate links carry no path of a WebSocket; disabled inbounds stay in
  generated configurations. Mihomo serves nobody: what the panel calls inbounds of a Mihomo is written, with users and all,
  into its `proxies`, and no listeners are (cores/mihomo/config.go:20-36, 150-157).
- Routing: geo actions `block` and `proxy` name outbounds that xray and sing-box do not have, `direct` one they have only
  without rows of outbounds, and so does the final outbound of sing-box; rows of protocol block and dns become sing-box
  rules of an action it does not have (singbox/config.go:490), and the WARP endpoint has the fields of an outbound
  (warp_integration.go:115-124), which it refuses, so that no sing-box starts while a WARP route is enabled; a domain
  without `domain:` (warp_integration.go:194) takes every name that contains it in xray; an IPv6 address is routed with
  /32; updates of
  routes and rules skip the validation of their creation; GET /warp/routes and /geo/rules list enabled rows only.
- Sessions and administrators: TOTPSetup replaces the secret in force although a comment (api/auth.go:399) says it waits
  for verification; the Save of a login undoes a change of password or TOTP made meanwhile; a wrong code counts without
  check or notification (comment at 928); `attempted_at` is UTC by default while the lock's window is local time;
  SessionLogout leaves the refresh row live; two tabs that refresh at once may log each other out.
- Certificates: AutoRenew false of an upload becomes true (comment at api/certificates.go:408); showing a certificate
  sets a revoked one active again, and marks expired ones so that the checker no longer renews them; nothing keeps two
  rows from sharing a directory, and the deletion of either removes the files of both; a key is never compared with its
  certificate; the cron scheduler is never
  constructed, and the ticker first fires a day after the start.
- Subscriptions: the route of RegenerateToken passes `:id` where the handler reads `user_id`; a change of certificates
  invalidates nothing; short links survive new credentials, and redirect without the signature that /sub/ asks for.
- Settings: UpdateSettings writes without invalidating, so the collector told to reload reads the old value
  (api/settings.go:159); a schedule written so is not told to the cron; an unknown one at the start leaves the cron
  stopped.
- Traffic history: each hourly tick adds a daily row for the same day, so the overview shows a day's traffic times the
  number of its rows; a restart loses an hour.
- Ports: a port that CheckPortAvailability allows to be shared is refused by the creation itself.

<a name="fairness"></a>
## 5. Fairness

Weak fairness of a goroutine's next step stands for the Go scheduler: what can run does. No module assumes that a
request arrives, that traffic flows, that a channel or a core call succeeds, or that anything fails.

- DashboardHub: the cases of a Go `select` that are ready are chosen at random, so a case that is ready again and again is
  taken: strong fairness of each. Strong fairness of the writes: a peer that reads now and then lets a write through.
- Notifications: the worker, the sender that waits to queue its job, and time; the retry timer fires again and again,
  and finds its goroutine ready now and then (strong: a tick that comes while rows are being queued is taken later).
- TrafficQuota: the five minute timer and the reset get the enforcer's mutex in turn (Go's mutexes hand over to a waiter
  after one millisecond), hence strong fairness of `CheckAndEnforce` and `ClearAllWarnings`.
- CoreLifecycle, Backups, and the offering, egress and service groups: safety only. Nothing there promises to happen eventually that
  does not hang on a call to the outside.

<a name="proofs"></a>
## 6. Proofs

Eight proof modules state theorems for every value of the constants. Hardly a property is inductive; each proof
module begins by saying what is missing. `IInv` is the invariant with it; a proof shows that `Init` implies it, that each
action preserves it (one step per action, one below it per conjunct the action can disturb), and that it implies the
property.

| Module | Theorem | Assumes | Strengthened by |
|---|---|---|---|
| CoreLifecycle_proofs | `TypeCorrect`; `CleanIsConsistent`: Spec => []CleanConsistent | LifecycleAssumption | `CleanInv`: at most one handler is at work while the history is clean, and for each step it may be at, what the steps before have established (`HandlerInv`) |
| CoreLifecycle_proofs | `ImplementsLazyStart`: Spec => LazyStart, the refinement of LazyCore | LifecycleAssumption and `Serial`: one handler, no faults, operations on inbounds and observers only | `RInv`: what the row, the file and the process are to each other at each step of the one handler |
| CoreLifecycle_proofs | `AloneRepairs`: Spec => SoloRepairs | LifecycleAssumption | `SoloInv`: what the steps of an operation that met nobody have themselves established, whatever state it began in |
| CoreLifecycle_proofs | `NoTempStays`: Spec => []NoTempLeft | LifecycleAssumption | `TempInv`: whoever wrote the temporary file is on its way to rename or remove it |
| DashboardHub_proofs | `TicketsOpenOnce`: []OneConnPerTicket; `LiveStay`: OnlyDeadLeave | the module's | `UsedUp`: a ticket that opened a connection is not in the map; `DeadWait`: who waits in `unregister` is dead already |
| DashboardHub_proofs | `JamsWhenCrowded`: []JamsOnlyCrowded | the module's | `EntriesInv`: since a tick that found `unregister` empty, a connection is in it once by its handler and once by the hub; the room that is left follows by the pigeonhole principle |
| Notifications_proofs | `TypeCorrect`; `PendingOnItsWay`: []PendingHasJob | the module's | `WorkerInv`: what row the worker, the sender, the queue and the retry tick hold at each step |
| Notifications_proofs | `TakenOnce`: []DeliveredOnce | the module's | `OneJob`: a notification has one job, with the sender, in the queue, with the worker or the retry tick; `NotYet`: while it has one, or its row failed, no channel has taken it |
| TrafficQuota_proofs | `DeletedForGood`: DeletedStaysDeleted; `CountersAreTraffic`: OnlyTrafficCounts | Parameters | `AloneInv`: while `serial`, whoever holds a copy is alone; `FreshInv`: the row of the copy is not deleted and has counted no less |
| Backups_proofs | `DatabaseIsKept`: []DatabaseSurvives | Parameters (the model values differ) | until two restores meet: `AloneInv`, a restore at the files is alone; `AsideInv`, a whole file is aside while it is; `FreshInv`, one that begins has nothing aside |
| Backups_proofs | `CompletedRestorable`: []CompletedHasArchive | `Copies`: Parameters, and a copy of a table, whole or broken, is not the value None | `RowOk`: what a row, or any copy of one kept by a job, a restore, a deletion or a change of the schedule, says of its backup; `JobOk`: a backup is made once, and its archive is there before its row says so; `KeptInv`: an archive goes only while its row is being removed; `FilesInv`: archives are called after seconds, so a removal spares every archive of another second. A backup that shares its second, and a history with a row brought back, a removal cut in two or an older table is excused, in the property and in the proof |
| Backups_proofs | `StoredScheduleIsRun`: []ScheduleIsCurrent | Parameters, and None is not a row | `TimerInv`: no row holds a schedule from the clearing of the old one to the storing of the new, and at any other time what runs is what some row holds; on `DataInv` |
| Backups_proofs | `RowsInHand`: []SomebodyWorks | Parameters | `WorkInv`: a row that is not settled is in the hand of its goroutine or of a restore; on `DataInv` |
| Backups_proofs | `RotationLeavesNewest`: []RotationKeeps | Copies | `BackedInv`: a backup that is gone, or that some rotation is to remove, has as many newer ones as are kept; `CountInv`: what no rotation is to remove is no more than that, unless a rotation is still to look; on `DataInv` |
| Services_proofs | `CacheServesTheRows`: []CacheIsCurrent | the module's | `CacheInv`: which pending invalidation removes a stale entry; `DeletionInv`: what is being deleted is only in entries that will go; `ReaderInv`: a reader nothing overtook carries the rows as they are |
| Services_proofs | `LogoutIsFinal`: []LogoutSticks | SessionBounds (counts and lifetimes in the naturals) | `SessionListInv`: an entry, in memory or table, lasts as long as its token; `LogoutInv`: the table has one for every logout whose insert did not fail; `RequestInv`: what a logout at work has established |
| Services_proofs | `OneTokenEach`: []OneLiveToken | SessionBounds | `Sole(l)`: for a login nothing disturbed, one request at work at most, one token that works at most, and at each step of a rotation which one; `LoginTypes`: who has a session is a browser, and its token is the login's |
| Services_proofs | `OnePortEach`: []PortsDistinct | PortParameters | `CheckedInv`: until something crossed or a check was not answered, the port a request has checked is in no other row |
| Services_proofs | `FollowersAreTold`: []SettingsFollowed | SettingParameters (NoValue is not a value) | `SettingInv`: what each layer of the cache may hold beside the row, entry by entry, and whom a request that is on its way will still invalidate or tell |
| Services_proofs | `RestoredIsThere`: []RestoreStands | FileParameters (the archive has the part "cores", NoFile is not a content) | `FileInv`: part by part, what a restore at each of its steps has put in place, put aside or left; the key under which an archive was sealed |
| Services_proofs | `FilesFollowRows`: []CertificatesStand | CertificateParameters (the model values differ, the bounds are numbers) | `CertificateInv`: until something disturbs it, a directory stands as the operation or upload at work for it left it at its step, and the others as `CertificatesStand` says; `ListenerInv`: the listener's pair is that of the newest row, or a notification is on its way |
| Services_proofs | `AsAsked`: []AdminStands | AdminParameters (the bounds are numbers) | `AskedInv`: a login that met nobody is the only request at work, and what it read is the row still; `ConfirmedInv`: the secret in force, or about to be put in force, was shown a code for |
| Services_proofs | `KeysStayDeleted`: []CredentialsStand | AdminParameters | `CredentialInv`: what a login holds was not deleted; `ChallengeInv`: a challenge that may be answered names no credential that was |
| Services_proofs | `LockedIsTold`: []LimitIsTold | LoginParameters (a limit of one at least; the lock is not longer than the hour) | `AttemptInv`: a login that is about to count is the only one at work; the lock stops a login before its failure is one too many (`LockInv`); until it counts, the failures of the hour are one past what was told of (`ToldInv`) |
| Services_proofs | `DailyRowsAddUp`: []DaysAddUp | TrafficParameters (a day has hours; rows are kept for a day at least) | `HoursInv`: an hour that is not missing is in the raw rows until it is aggregated and in the hourly ones after that, for as long as its day may still be; `DaysInv`: a day has rows only once all its hours are aggregated |
| Offering_proofs | `OnlyUsersGetIn`: []NobodyElse | OfferingParameters (secrets are random: no two are the same, none is a name or a setting; three cores) | `RowsOk`: no setting is a secret and lists are of users. Then, without history: who a core knows is mapped and not deleted (`UsersServed`), an account shows a secret of one of them (`ServedUsers`), an entry shows only its user's (`Presented`), and secrets tell users apart |
| Offering_proofs | `ToldExactly`: []WorksExactly | OfferingParameters; no UUID is a token and no user is called "user_" and a user's name (KindsDiffer, LabelsDiffer); TellingRequests (flags are Booleans; no inbound is asked for with transport "xhttp" or the unregistered protocol "ssr"; an update does not change the protocol to one that needs a password) | `RowsTell`: a row has whatever its protocol's schema asks for. The rest is an argument about the generators, see below |
| Offering_proofs | `RowsReachTheCore`: []ChangesReach | OfferingParameters | inductive as it stands: each operation loads what the rows say, or records why it did not |
| Egress_proofs | `LatestIsSaved`: []AccountStands | EgressParameters (no file, and a torn one, are not accounts; the bounds are numbers) | `RegisterStands`, `RefreshStands`: what the one goroutine at work holds at each step, and when the file has it; `NobodyStands`, which is stronger than the property: without a device there is no account either |
| Egress_proofs | `FileIsLatest`: []GeoCurrent | EgressParameters | `FinalStands`: the file is of a release no older than its time says, and is another inode than the temporary file; `UpdateStands`: the one update at work has that to itself and what upstream has now |
| Egress_proofs | `AskedIsTaken`: []RulesDecide | RoutingParameters (priorities are numbers, rows of outbounds have ids from 1, an IPv6 address lies in the prefix named after it, what ends in a domain has it as a part) | `TablesInv`: the tables hold rows as requests make them. The rest is an argument about lists, see below |

`CleanConsistent` says nothing of a handler at work; `HandlerInv` adds that
the row xray's generator saves is the one there is; that after `GenerateConfig` its configuration is the desired one; that the file is written when it is about to restart or start
the core; that no inbound is enabled when it is about to stop it; that it knows what supervisord answered when it is
about to save the row; and so on for each of the hooks, the manager and the observers. Three facts make it work: a
handler that begins while another is at work makes history unclean (`Begin`), a failure does too (`Spoil`), and only the
handler itself changes what its step relies on. `CleanStep` combines a lemma for each group of steps, and `OneHandler`
reduces a clean step to the handler that takes it.

`DataInv` says what every row, and every copy of one in a job, a restore, a change of the schedule, a dump or a database
put aside, holds whatever goes wrong: its id was given out, its status goes with the step that has it, and its schedule
is one the library takes, unless one was rejected. A restart may bring back any of these tables, so nothing weaker is
preserved. `RotationLeavesNewest` is an argument about cardinalities: of the completed rows that one `SELECT` lists, those
that rotation keeps are no more than the retention count and those it removes have that many newer ones (`FewBehind`, on the
rank of an element in a finite set of numbers); a backup that completes makes the count one too high, and is itself
about to rotate; and a removal that another rotation does first changes neither count.

The theorems about the service group are stated of Services, so of the very definitions run `services` checks: `Exercised`
reduces a step of the group to a step of the one service exercised, whose invariant is then proved by its own lemmas.
For `OneLiveToken` the frame is `OneLoginInv`: a step of one request changes the rows and the session of its own login
only, so what remains is what the step makes of that login (`SoleStep`: with nothing disturbed, the requests at work for
it after the step are that one or none). For `CertificatesStand` the frame is a directory: what an operation writes step by
step (certificate, key, row, notification) is described per step, and every other directory is untouched.

Left to TLC: liveness (`DeadLeave`, `LiveServed`, `Settles`, `FailedTriedAgain`, `Enforced`, `WarnedAt80`),
which the prover does not do. Every safety invariant
and every action property that a passing run checks is a theorem.

Recursion is proved about where it is a recursive function. Induction over data with a predicate is out of the provers'
reach; `AllNumbers` says the same of a set (one that has 0 and, with each number, the next, has all), and goes through.
With it, `PartialSums` and `SumFacts` show that a sum over a finite set of numbers is a number that depends on its members
only (the fold of the library is unfolded to its equation), and `KeptExists`, `ChosenFacts` and `WithoutFacts` that a list without some of
its members has members of the list only; `Filtered` is kept by each rule that `WithCondition` looks at. No module that is
proved about has a RECURSIVE operator.

`AskedIsTaken` needs no history either. An order of loading lists every enabled row (`OrderFacts`, by the pigeonhole
principle), so the list of a configuration has the rules of the routes in force, then those of the geo rules in force, none
before one of a higher priority (`Lists`, `AllListed`). What mihomo leaves out, rules without a condition, changes neither
what the first rule that fits is nor which targets occur (`Filtered`). From there it is a matter of sets: who is the first
to fit (`FirstOfAll`), and which tags exist (`KnownTags`). A sing-box with rows of outbounds is refused whatever its rules
(`RowsRefused`), so that elsewhere no row becomes a rule. The proof found the property too generous once: `Overreaches`
excused every route of kind "ip", and now only those that are IPv6.

`OnlyUsersGetIn` needs no history beyond the types: `NobodyElse` speaks of a core that runs what the rows say now
(when that is, `RowsReachTheCore` says). What is left is an argument about the generators and the builders, format by format: an endpoint asks for secrets of the users it serves (or, for the naive
ones, an account of theirs), and an entry of a subscription shows secrets of the one user it is made for.

`ToldExactly` is the longest of them, and needs history only for what a row has. An entry and an endpoint are taken apart
(`EntryMade`, `EndpointMade`) into transport, security and account, and each part is compared by itself, for all four
formats and both cores that listen (a Mihomo has no endpoint, and `Understood` excludes it): `TransportTold` says that a client's transport is the core's where `Carried` says so, `MainSecurity`
and `OthersSecurity` the same of `SameSecurity` and `OtherSecurity`, and `AccountTold` that what an entry presents is an
account of the core exactly where flow and protocol fit (`Fits`). For the protocols that work nowhere `NoneFits` shows why
(the core has no accounts at all for those of Mihomo only):
an entry presents a setting, a token or nothing, the core asks for a UUID. That needs the settings to be there: without
a password in the row the builders present the user's own secret. `SchemasAsk` proves of the registry that it requires them
(of two schemas of a name, the last one registered), and `ValidComplete` that a config_json that passes has them. It is
also why TellingRequests excludes some changes of protocol: `UpdateInbound` checks config_json against the protocol the row
has had, so that a row may become one of another protocol without the settings that protocol needs. The instances of run
`offering` satisfy all of these assumptions, a change of protocol (to vmess) included.

The proof was what made `Understood` exact. The first version was a table about the rows the wizard makes; for others (a
path that is written as "/", flow without REALITY) it said too much or too
little. It is now stated by what the row holds, for every row. The registry is written with records and `With` rather
than with the operators of TLC, which the prover cannot expand.

`JamsWhenCrowded` ties capacity and clients without assuming anything of either: for every capacity and every number of
connections it says when the hub waits for itself. `EntriesInv` does not hold after a tick that found departures waiting,
since the hub then writes to a client it has failed before and puts it in once more; the next tick that finds the channel
empty establishes it anew. So the invariant is conditional on `late`, and so is the property.

<a name="not-modelled"></a>
## 7. What is not modelled

- Connection tracker: a map that is filled and never read, beside a table that stays empty. Nothing calls AddConnection;
  the rows the ticker makes name user 0 (FirstOrCreate with a condition as text sets no column) and are refused by the
  foreign key; DisconnectUser and KickUser pass names that configurations do not use. There is no behaviour to state a
  property of.
- Event bus, worker pool, unit of work, HAProxy generator and manager, port pool, node credentials: constructed at most,
  and used by nobody.
- Log retention and audit: one statement per table; as written (`Delete(&struct{}{})`) the retention deletes nothing.
- Field encryption: bytes and keys, with no state that changes.
- Persistence: SQLite and gorm are external. A statement is atomic, Save is an UPDATE followed by an upsert.
- HTTP routing, validation, the CLI, the frontend and deployment keep no state of their own; handlers that change state
  are modelled with the service they call.
- Within what is modelled: only one core in CoreLifecycle, user names and contents of messages, bandwidths, masks and
  sniffing options of configurations, permission masks, short links and access statistics, the wording of errors, times
  except for the order they imply, errors of deferred calls of Close.

<a name="plan"></a>
## 8. Plan

The components that have behaviour of their own are modelled. What would come next:

1. Compositions: BackupFiles with CoreLifecycle (a restore against a regeneration of the same directory), Subscriptions
   with Certificates (whose changes invalidate nothing).
2. Two cores in CoreLifecycle, for the order in which InitializeCores starts them, once something makes cores meet.
