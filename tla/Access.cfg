CONSTANTS
    r1 = r1  r2 = r2
    Requests = {r1, r2}
    max_attempts = 2
    lockout = 2
    rpm = 2
    Minute = 1
    MaxSecrets = 2
    None = None
SPECIFICATION FairSpec
INVARIANTS TypeOK FailuresBounded RateBounded EnabledWasVerified
PROPERTY LockoutEnds
