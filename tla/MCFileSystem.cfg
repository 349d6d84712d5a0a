SPECIFICATION Spec
CONSTANTS
  Connections = {c1}
  Handles = {h1}
  Uris <- MCUris
  Parsed <- MCParsed
  Unsupported = Unsupported
  EmptyPath <- MCEmptyPath
  NoSecretType = "NONE"
  FixedConfig <- MCFixedConfig
  Secrets <- MCSecrets
  Covers <- MCCovers
  Length <- MCLength
  Locating = {"bucket", "endpoint", "root"}
  FlagSets <- MCFlagSets
  Children <- MCChildren
  NoTransaction = NoTransaction
  NoListing = NoListing
INVARIANTS
  TypeOK
  KnownAnswers
  ListingComplete
  UrisStayApart
