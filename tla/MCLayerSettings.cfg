SPECIFICATION Spec
CONSTANTS
  Calls = {c1}
  MaxWord = 5
  NanosPerMilli = 2
  Default <- MCDefault
INVARIANTS
  TypeOK
  BuiltIsUsable
  QuietCallExact
  SteadyCallSucceeds
