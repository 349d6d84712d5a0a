SPECIFICATION Spec
CONSTANTS
  Moves = {m1}
  Uris <- OnServers
  Located <- OnServers
  Locate <- OnServersItself
  Objects <- OnServers
  ObjectOf <- OnServersItself
  Contents = {x}
  Parts <- AnyPart
  NoObject = NoObject
PROPERTIES
  MoveLands
