SPECIFICATION Spec
CONSTANTS
  Person = {"ann", "bob"}
  Scenes <- MCScenes
  Changes <- MCChanges
  OutProtocols = {"vless", "direct"}
  MaxInbounds = 2
  MaxOutbounds = 1
  LongOps = 5
  None = None
INVARIANT OnlyAssignedServed
CHECK_DEADLOCK FALSE
