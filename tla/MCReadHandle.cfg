SPECIFICATION FairSpec
CONSTANTS
  Objects = {a}
  Handles = {h1}
  Threads = {t1, t2}
  Contents <- MCContents
  MaxIndex = 2
  MaxStream = 2
  NoObject = NoObject
  NoPath = NoPath
  NoHandle = NoHandle
INVARIANTS
  TypeOK
  PositionalReadExact
  StreamContinuous
  ShortReadIsEnd
PROPERTIES
  EveryReadEnds
