SPECIFICATION Spec
CONSTANTS
  Lines = 2
  LineSize = 2
  Dma = {1, 2}
  WordBits = 8
  LoC = 2
  Ctype <- MCCtype
  Ccsidr <- MCCcsidr
  None = None
INVARIANTS
  TypeOK
PROPERTIES
  NeighboursKeepTheirData
  CleanReachesMemory
  DeviceDataIsRead
  FetchesSeeStores
