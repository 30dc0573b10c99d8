------------------------------- MODULE Services -------------------------------
(***************************************************************************)
(* Nine services of the panel that share nothing but the panel itself.  A  *)
(* behaviour exercises one of them, part, with all its processes; the      *)
(* variables of the others stay 0.  What holds in every behaviour of this  *)
(* module holds of each service, and one run covers them all.              *)
(***************************************************************************)
EXTENDS Naturals, FiniteSets

CONSTANTS
  Services,    \* the services considered
  MaxRestarts, Client, Requests,
  MaxLogins, MaxTokens, SessionMaxNow, AccessTTL, RefreshTTL, NoSession,
  MaxPasswords, MaxSecrets, MaxChallenges, MaxCredentials,
  Limit, Lock, Hour, LoginMaxNow, MaxAttempts,
  Domains, MaxRows, MaxIssued, NoRow, NoPair,
  Users, Inbounds, Formats, Readers, Editors, MaxVersion, NoEntry,
  NoValue,
  HoursPerDay, MaxHour, MaxTraffic, RawDays, HourlyDays, NoSample,
  Cores, PortNumbers, Reserved, Kinds, Listens, MaxInbounds, NoInbound,
  Files, Copied, MaxWrites, NoFile, NoArchive

VARIABLES
  part, \* the service this behaviour exercises
  now, rows, blacklist, revokedTokens, session, request, logins, loggedOut, unsaved, ended,
  disturbed, restarts,
  admin, credentials, challenges, worker, nextSecret, nextChallenge, nextCredential, asked,
  confirmed, deleted, used, overlapped, hasty, adminRestarts,
  loginNow, failed, login, told, muted,
  certificates, nextRow, files, cached, issued, keyOf, age, op, upload, view, certDisturbed,
  certRestarts,
  users, inbounds, mappings, version, cache, reader, editor,
  setting, stored, settingCache, settingRequest, signal, collector, follower, missed, started,
  hour, fired, due, raw, recorded, hourly, daily, sample, tick, aggregated, missing,
  trafficRestarts,
  ports, nextId, portRequest, raced,
  data, spare, archive, making, work, keyFile, key, keys, written, uncertain, fileRestarts

sessionVars == <<now, rows, blacklist, revokedTokens, session, request, logins, loggedOut,
                 unsaved, ended, disturbed, restarts>>
adminVars == <<admin, credentials, challenges, worker, nextSecret, nextChallenge,
               nextCredential, asked, confirmed, deleted, used, overlapped, hasty,
               adminRestarts>>
loginVars == <<loginNow, failed, login, told, muted>>
certificateVars == <<certificates, nextRow, files, cached, issued, keyOf, age, op, upload, view,
                     certDisturbed, certRestarts>>
subscriptionVars == <<users, inbounds, mappings, version, cache, reader, editor>>
settingVars == <<setting, stored, settingCache, settingRequest, signal, collector, follower,
                 missed, started>>
trafficVars == <<hour, fired, due, raw, recorded, hourly, daily, sample, tick, aggregated,
                 missing, trafficRestarts>>
portVars == <<ports, nextId, portRequest, raced>>
fileVars == <<data, spare, archive, making, work, keyFile, key, keys, written, uncertain,
              fileRestarts>>

vars == <<part, sessionVars, adminVars, loginVars, certificateVars, subscriptionVars,
          settingVars, trafficVars, portVars, fileVars>>

Session == INSTANCE Sessions WITH MaxNow <- SessionMaxNow
Admin == INSTANCE Admins WITH restarts <- adminRestarts
Login == INSTANCE LoginAttempts WITH now <- loginNow, MaxNow <- LoginMaxNow
Certificate == INSTANCE Certificates WITH
  rows <- certificates, disturbed <- certDisturbed, restarts <- certRestarts
Sub == INSTANCE Subscriptions
Setting == INSTANCE Settings WITH
  key <- setting, cache <- settingCache, request <- settingRequest
Traffic == INSTANCE TrafficHistory WITH restarts <- trafficRestarts
Port == INSTANCE Ports WITH
  inbounds <- ports, request <- portRequest, PortRequests <- Requests
File == INSTANCE BackupFiles WITH restarts <- fileRestarts

\* The variables of a service that is not exercised.
NoSessions == now = 0 /\ rows = 0 /\ blacklist = 0 /\ revokedTokens = 0 /\ session = 0
              /\ request = 0 /\ logins = 0 /\ loggedOut = 0 /\ unsaved = 0 /\ ended = 0
              /\ disturbed = 0 /\ restarts = 0
NoAdmins == admin = 0 /\ credentials = 0 /\ challenges = 0 /\ worker = 0 /\ nextSecret = 0
            /\ nextChallenge = 0 /\ nextCredential = 0 /\ asked = 0 /\ confirmed = 0
            /\ deleted = 0 /\ used = 0 /\ overlapped = 0 /\ hasty = 0 /\ adminRestarts = 0
NoLogins == loginNow = 0 /\ failed = 0 /\ login = 0 /\ told = 0 /\ muted = 0
NoCertificates == certificates = 0 /\ nextRow = 0 /\ files = 0 /\ cached = 0 /\ issued = 0
                  /\ keyOf = 0 /\ age = 0 /\ op = 0 /\ upload = 0 /\ view = 0
                  /\ certDisturbed = 0 /\ certRestarts = 0
NoSubscriptions == users = 0 /\ inbounds = 0 /\ mappings = 0 /\ version = 0 /\ cache = 0
                   /\ reader = 0 /\ editor = 0
NoSettings == setting = 0 /\ stored = 0 /\ settingCache = 0 /\ settingRequest = 0 /\ signal = 0
              /\ collector = 0 /\ follower = 0 /\ missed = 0 /\ started = 0
NoTraffic == hour = 0 /\ fired = 0 /\ due = 0 /\ raw = 0 /\ recorded = 0 /\ hourly = 0 /\ daily = 0
             /\ sample = 0 /\ tick = 0 /\ aggregated = 0 /\ missing = 0
             /\ trafficRestarts = 0
NoPorts == ports = 0 /\ nextId = 0 /\ portRequest = 0 /\ raced = 0
NoFiles == data = 0 /\ spare = 0 /\ archive = 0 /\ making = 0 /\ work = 0 /\ keyFile = 0
           /\ key = 0 /\ keys = 0 /\ written = 0 /\ uncertain = 0 /\ fileRestarts = 0

Init ==
  /\ part \in Services
  /\ IF part = "sessions" THEN Session!Init ELSE NoSessions
  /\ IF part = "admins" THEN Admin!Init ELSE NoAdmins
  /\ IF part = "logins" THEN Login!Init ELSE NoLogins
  /\ IF part = "certificates" THEN Certificate!Init ELSE NoCertificates
  /\ IF part = "subscriptions" THEN Sub!Init ELSE NoSubscriptions
  /\ IF part = "settings" THEN Setting!Init ELSE NoSettings
  /\ IF part = "traffic" THEN Traffic!Init ELSE NoTraffic
  /\ IF part = "ports" THEN Port!Init ELSE NoPorts
  /\ IF part = "files" THEN File!Init ELSE NoFiles

\* Only the service exercised takes steps.
Next ==
  /\ UNCHANGED part
  /\ IF part = "ports" THEN Port!Next ELSE UNCHANGED portVars
  /\ IF part = "settings" THEN Setting!Next ELSE UNCHANGED settingVars
  /\ IF part = "logins" THEN Login!Next ELSE UNCHANGED loginVars
  /\ IF part = "subscriptions" THEN Sub!Next ELSE UNCHANGED subscriptionVars
  /\ IF part = "traffic" THEN Traffic!Next ELSE UNCHANGED trafficVars
  /\ IF part = "sessions" THEN Session!Next ELSE UNCHANGED sessionVars
  /\ IF part = "files" THEN File!Next ELSE UNCHANGED fileVars
  /\ IF part = "certificates" THEN Certificate!Next ELSE UNCHANGED certificateVars
  /\ IF part = "admins" THEN Admin!Next ELSE UNCHANGED adminVars

Spec == Init /\ [][Next]_vars
-----------------------------------------------------------------------------
\* A session or token that was logged out is refused.
LogoutSticks == part = "sessions" => Session!LogoutSticks

\* A login has at most one refresh token that works.
OneLiveToken == part = "sessions" => Session!OneLiveToken

\* Password and second factor are those last asked for.
AdminStands == part = "admins" => Admin!AdminStands

\* A key that was deleted stays deleted, and a challenge is answered once.
CredentialsStand == part = "admins" => Admin!CredentialsStand

\* An address with the limit of failures is locked and notified.
LimitIsTold == part = "logins" => Login!LimitIsTold

\* Rows, files and the listener's pair agree.
CertificatesStand == part = "certificates" => Certificate!CertificatesStand

\* The cache of subscriptions holds what would be generated now.
CacheIsCurrent == part = "subscriptions" => Sub!CacheIsCurrent

\* The collector and the cron follow the settings stored.
SettingsFollowed == part = "settings" => Setting!SettingsFollowed

\* A daily row is the traffic of its day.
DaysAddUp == part = "traffic" => Traffic!DaysAddUp

\* No two inbounds have one port, and what is said of a port holds.
PortsDistinct == part = "ports" => Port!PortsDistinct

\* What a restore reports is in place, and nothing is lost on the way.
RestoreStands == part = "files" => File!RestoreStands
===============================================================================
