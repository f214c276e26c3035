SPECIFICATION Spec
CONSTANTS
  Asids = {1, 2}
  ItAsid = 1
  Roots = {r1, r2}
  PageTables = {t1, t2}
  Frames = {f1, f2}
  PageZero = PageZero
  None = None
  IndexSize = 2
  VAddrs <- WideVAddrs
SYMMETRY Symmetry
INVARIANTS
  TablesFormTrees
PROPERTIES
  OnlyItsOwnerUnmaps
