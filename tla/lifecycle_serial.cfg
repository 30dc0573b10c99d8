CONSTANTS
  c = c
  d = d
  i1 = i1
  i2 = i2
  i3 = i3
  h1 = h1
  Inbound = {i1, i2, i3}
  Content = {c, d}
  Handler = {h1}
  Ops = {"created", "updated", "deleted", "status", "watchdog"}
  MaxRev = 2
  Faulty = FALSE
  None = None
SPECIFICATION Spec
INVARIANTS CleanConsistent
PROPERTIES LazyStart
