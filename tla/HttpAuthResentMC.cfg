SPECIFICATION SessionSpec
CONSTANTS
  User = {a}
  Password <- Passwords
  RightPassword <- GoodPassword
  ApiToken <- Tokens2
  Owner <- Owners
  OtpUser = {}
  MaxOtpTokenAttempts = 2
  HasAuthCallback = TRUE
  HasOtpCallback = TRUE
  HasWebLogin = FALSE
  MaxLogins = 1
  NumRetries = 3
  good = good
  bad = bad
  valid = valid
  revoked = revoked
  None = None
INVARIANTS RefusedNotResent
CHECK_DEADLOCK FALSE
