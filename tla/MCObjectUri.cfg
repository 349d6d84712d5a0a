SPECIFICATION Spec
CONSTANTS
  Starts <- MCStarts
  Tokens = {"a", "/", "?", "@", "%2F", "%3F", "%40", "%252F", "raw=true"}
  MaxTokens = 4
CHECK_DEADLOCK FALSE
INVARIANTS
  TypeOK
  SpelledBack
  GitHubPage
  SecretFound
