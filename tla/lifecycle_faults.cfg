CONSTANTS
  c = c
  i1 = i1
  h1 = h1
  h2 = h2
  Inbound = {i1}
  Content = {c}
  Handler = {h1, h2}
  Ops = {"created", "deleted", "status", "touch"}
  MaxRev = 1
  Faulty = TRUE
  None = None
SPECIFICATION Spec
PROPERTIES SoloRepairs
SYMMETRY Symmetry
