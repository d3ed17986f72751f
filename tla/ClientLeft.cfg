CONSTANTS
    Req = {r1, r2}
    Failures = 2
    Cooldown = 1
    Attempts = 3
    BaseDelay = 2
    MaxDelay = 3
    RetryAfters = {1, 2, 3}
    Second = 3
    Word = 16
SPECIFICATION FSpec
INVARIANT OpenBlamesProvider
