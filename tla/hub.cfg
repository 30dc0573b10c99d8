CONSTANTS
  c1 = c1
  c2 = c2
  t1 = t1
  t2 = t2
  Conn = {c1, c2}
  Ticket = {t1, t2}
  Cap = 2
  MaxClients = 2
  Stalls = TRUE
  None = None
SPECIFICATION FairSpec
INVARIANTS OneConnPerTicket JamsOnlyCrowded
PROPERTIES OnlyDeadLeave DeadLeave LiveServed
CHECK_DEADLOCK FALSE
