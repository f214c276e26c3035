SPECIFICATION Spec
CONSTANTS
  Asids = {1}
  ItAsid = 1
  Roots = {r1}
  PageTables = {t1, t2, t3}
  Frames = {f1, f2}
  PageZero = PageZero
  None = None
  IndexSize = 2
  VAddrs <- DeepVAddrs
SYMMETRY Symmetry
INVARIANTS
  TypeOK
  MappedFrameHasCap
  LeavesFitTheirLevel
