CONSTANTS
  Services = {"sessions", "admins", "logins", "certificates", "subscriptions", "settings", "traffic", "ports", "files"}
  MaxRestarts = 1
  Client = {a, b}
  Requests = {a, b}
  MaxLogins = 1
  MaxTokens = 2
  SessionMaxNow = 4
  AccessTTL = 1
  RefreshTTL = 2
  NoSession = NoSession
  MaxPasswords = 2
  MaxSecrets = 2
  MaxChallenges = 1
  MaxCredentials = 1
  Limit = 3
  Lock = 1
  Hour = 3
  LoginMaxNow = 6
  MaxAttempts = 3
  Domains = {a, b}
  MaxRows = 2
  MaxIssued = 2
  NoRow = NoRow
  NoPair = NoPair
  Users = {a, b}
  Inbounds = {i}
  Formats = {f}
  Readers = {r}
  Editors = {a, b}
  MaxVersion = 2
  NoEntry = NoEntry
  NoValue = NoValue
  HoursPerDay = 2
  MaxHour = 4
  MaxTraffic = 1
  RawDays = 1
  HourlyDays = {1, 2}
  NoSample = NoSample
  Cores = {a, b}
  PortNumbers = {p, q}
  Reserved = {}
  Listens = {"one"}
  MaxInbounds = 2
  NoInbound = NoInbound
  MaxWrites = 3
  NoFile = NoFile
  NoArchive = NoArchive
  Kinds <- MCKinds
  Files <- MCFiles
  Copied <- MCCopied
SYMMETRY Sym
CONSTRAINT Followed
SPECIFICATION Spec
INVARIANTS LogoutSticks OneLiveToken AdminStands CredentialsStand LimitIsTold CertificatesStand
  CacheIsCurrent SettingsFollowed DaysAddUp PortsDistinct RestoreStands
CHECK_DEADLOCK FALSE
