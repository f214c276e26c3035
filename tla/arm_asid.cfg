SPECIFICATION BootSpec
CONSTANTS
  Harts = {h1, h2}
  Roots = {r1, r2}
  Pools = {p1, p2}
  GlobalUserVSpace = GlobalUserVSpace
  Null = Null
  NonVSpaceCap = NonVSpaceCap
  HighSize = 2
  LowSize = 2
  ItAsid = 1
  IndexSize = 4
  PPTR_BASE = 192
  PPTR_TOP = 240
  PADDR_BASE = 4
  PADDR_TOP = 52
  KERNEL_ELF_BASE = 197
  KERNEL_ELF_PADDR_BASE = 9
  PUDAddress = 199
  PDsAddress = 200
  PTAddress = 204
  kernel_device_frames <- MCDevices
SYMMETRY Symmetry
INVARIANTS
  TypeOK
  NothingOutlivesItsCap
  HartsAreOnPhysicalRoots
PROPERTIES
  StaleDeleteHarmless
  ReassignedAsidFallsBack
  ImplementsAsidMap
  KernelRunsOnItsWindow
