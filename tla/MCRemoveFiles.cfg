SPECIFICATION Spec
CONSTANTS
  Requests = {r1}
  Uris <- MCUris
  Schemes = {"s3", "gcs"}
  Configs = {"first", "second"}
  Paths = {"a", "b"}
  Locate <- MCLocate
  EmptyPath = EmptyPath
  Unsupported = Unsupported
  MaxUris = 4
INVARIANTS
  TypeOK
  ValidatedBeforeRemoval
  ReturnedRemovesAll
  GroupsPartitionPaths
  PrefixRemoved
PROPERTIES
  OnlyNamedRemoved
