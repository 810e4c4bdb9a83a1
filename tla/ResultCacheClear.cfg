SPECIFICATION Spec
VIEW View
SYMMETRY Symmetry
CONSTANTS
  Clients = {c1, c2}
  Keys = {k1, k2, k3}
  MaxEntries = 2
  VersionAware = FALSE
  ClearOverlaps = TRUE
  Elems = {e1, e2, e3, e4, e5, e6, e7}
  Root = Root
  Nil = Nil
INVARIANTS EvictFindsAnItem
