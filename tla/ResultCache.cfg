SPECIFICATION Spec
VIEW View
SYMMETRY Symmetry
CONSTANTS
  Clients = {c1, c2}
  Keys = {k1, k2, k3}
  MaxEntries = 2
  VersionAware = TRUE
  ClearOverlaps = FALSE
  Elems = {e1, e2, e3, e4}
  Root = Root
  Nil = Nil
INVARIANTS TypeOK ListIsRecencyOrder CapacityBound
