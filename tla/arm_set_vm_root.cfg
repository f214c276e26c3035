SPECIFICATION Spec
CONSTANTS
  Harts = {h1, h2}
  Roots = {r1, r2}
  Pools = {p1, p2}
  GlobalUserVSpace = GlobalUserVSpace
  Null = Null
  NonVSpaceCap = NonVSpaceCap
  HighSize = 2
  LowSize = 2
  ItAsid = 1
PROPERTIES
  IllegalRootFallsBack
