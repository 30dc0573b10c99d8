CONSTANTS
  Parts = {"tables", "account", "files"}
  MaxRows = 2
  RouteChoices <- MCRouteChoices
  GeoChoices <- MCGeoChoices
  Presets <- MCPresets
  OutboundRows <- MCOutboundRows
  Traffic <- MCTraffic
  IPv6 <- MCIPv6
  NoRow = NoRow
  NoAccount = NoAccount
  Torn = Torn
  MaxDevices = 2
  MaxTokens = 5
  MaxReleases = 3
  MaxRestarts = 1
  NoFile = NoFile
SPECIFICATION Spec
INVARIANTS  AccountStands GeoCurrent
CHECK_DEADLOCK FALSE
