SPECIFICATION FairSpec
CONSTANTS
  Procs = {p1, p2}
  Spaces = {s1, s2}
  Global = Global
  Kernel = Kernel
  Boot = Boot
  Frames = {f1}
  BootFrame = BootFrame
  None = None
INVARIANTS
  TypeOK
  BootTablesForgotten
PROPERTIES
  SwitchForgetsEarlierSpaces
  SwitchForgetsUnmappedPages
  OperationsReturn
