CONSTANTS
  c = c
  i1 = i1
  h1 = h1
  h2 = h2
  Inbound = {i1}
  Content = {c}
  Handler = {h1, h2}
  Ops = {"created", "updated", "deleted", "touch", "start", "stop", "restart", "status", "watchdog"}
  MaxRev = 1
  Faulty = FALSE
  None = None
SPECIFICATION Spec
INVARIANTS NoTempLeft
SYMMETRY Symmetry
