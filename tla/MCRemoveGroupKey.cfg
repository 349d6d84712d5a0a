SPECIFICATION KeySpec
CONSTANTS
  Colon = 10
  Components <- MCComponents
  MaxOptions = 2
INVARIANTS
  KeyTellsApart
  KeyIgnoresOrder
