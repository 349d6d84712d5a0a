SPECIFICATION Spec
CONSTANTS
  x = x
  y = y
  Handles = {h1, h2}
  Objects = {a, b}
  Byte = {x, y}
  Chunks <- MCChunks
  InitialContents <- MCInitialContents
  StreamedObjects = {a}
  MaxSize = 2
  Hole = Hole
  NoObject = NoObject
  NoPath = NoPath
  NoWriter = NoWriter
  NoSession = NoSession
INVARIANT
  NeverAborts
