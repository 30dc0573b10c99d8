CONSTANTS
  u1 = u1
  h1 = h1
  User = {u1}
  Handler = {h1}
  Ops = {"update", "credentials", "delete"}
  Limits = {5, 10}
  InitUsed = {3}
  MaxUsed = 10
  MaxCounter = 1
  MaxOps = 2
  NamesInbound = TRUE
  Resets = TRUE
  None = None
SPECIFICATION FairSpec
PROPERTIES Enforced WarnedAt80 OnlyTrafficCounts DeletedStaysDeleted
CHECK_DEADLOCK FALSE
