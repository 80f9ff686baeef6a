\* One login, one connection that waits.
SPECIFICATION LoginSpec
CONSTANTS
    Logins = {l1}
    Timeout = 1
    MaxTime = 2
    MaxBacklog = 1
    ManualToken = ManualToken
    NoToken = NoToken
INVARIANT
    WaitEndsInTime
