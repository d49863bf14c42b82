SPECIFICATION FairSessionSpec
CONSTANTS
  User = {a, b}
  Password <- Passwords
  RightPassword <- GoodPassword
  ApiToken <- Tokens2
  Owner <- Owners
  OtpUser = {a}
  MaxOtpTokenAttempts = 2
  HasAuthCallback = TRUE
  HasOtpCallback = TRUE
  HasWebLogin = TRUE
  MaxLogins = 2
  NumRetries = 3
  good = good
  bad = bad
  valid = valid
  revoked = revoked
  None = None
INVARIANTS TypeOK AttemptsBounded RetriesOnce ActsAsUser EndsAsAsked
CHECK_DEADLOCK FALSE
PROPERTIES ImplementsBudget CommandsEnd
