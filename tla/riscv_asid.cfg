SPECIFICATION BootSpec
CONSTANTS
  Harts = {h1, h2}
  Roots = {r1, r2}
  Pools = {p1, p2}
  KernelRoot = KernelRoot
  Null = Null
  NonVSpaceCap = NonVSpaceCap
  HighSize = 2
  LowSize = 2
  ItAsid = 1
  IndexSize = 8
  PPTR_BASE = 256
  PPTR_TOP = 384
  PADDR_BASE = 0
  PADDR_TOP = 128
  KERNEL_ELF_BASE = 401
  KERNEL_ELF_PADDR_BASE = 81
  KDEV_BASE = 448
  Level2Pt = 410
  kernel_device_frames <- MCDevices
SYMMETRY Symmetry
INVARIANTS
  TypeOK
  NothingOutlivesItsCap
  RootHasOneAsid
  NoAsidAliasing
PROPERTIES
  StaleDeleteHarmless
  ImplementsAsidMap
  KernelRunsOnItsWindow
