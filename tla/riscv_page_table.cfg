SPECIFICATION Spec
CONSTANTS
  Asids = {1, 2}
  ItAsid = 1
  Roots = {r1, r2}
  KernelRoot = KernelRoot
  PageTables = {t1, t2}
  Frames = {f1, f2}
  KernelPage = KernelPage
  PageZero = PageZero
  NoRoot = NoRoot
  NoCap = NoCap
  IndexSize = 3
  CopiedFrom = 1
  KernelIndex = 2
  UserVAddr <- OneVAddr
SYMMETRY Symmetry
INVARIANTS
  TypeOK
  MappedFrameHasCap
  TablesFormTrees
  KernelHalfIntact
PROPERTIES
  OnlyItsOwnerUnmaps
