SPECIFICATION Spec
CONSTANTS
  Harts = {h1, h2, h3}
  Frames = {f1, f2}
  NoFrame = NoFrame
  None = None
PROPERTIES
  DeletedAsidNotCached
