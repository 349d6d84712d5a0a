SPECIFICATION Spec
CONSTANTS
  Moves = {m1, m2}
  Uris <- Reached
  Located <- Reached
  Locate <- ReachedItself
  Objects <- Reached
  ObjectOf <- ReachedItself
  Contents = {x, y}
  Parts <- AnyPart
  NoObject = NoObject
SYMMETRY Symmetry
INVARIANTS
  TypeOK
  NothingLost
PROPERTIES
  OrdinaryMoveLands
