SPECIFICATION ProofSpec
CONSTANTS
  Request = {r1, r2}
  NoRequest = noRequest
  MaxAttempts = 2
  MaxRevision = 3
  MaxLapsed = 1
CHECK_DEADLOCK FALSE
INVARIANTS NoStaleAnswer
