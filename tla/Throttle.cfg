\* Two requests, two client addresses and two proxies; a time unit stands for five minutes.
\* Restart is always possible, so nothing deadlocks at MaxTime.
SPECIFICATION Spec
CONSTANTS
    Requests = {r1, r2}
    Addresses = {ip1, ip2, proxy1, proxy2}
    Trusted = {proxy1, proxy2}
    Malformed = Malformed
    Claims <- MCClaims
    Routes <- MCRoutes
    NoAddress = NoAddress
    MaxAttempts = 2
    ThrottleWindow = 3
    LockoutDuration = 3
    ThrottleIdleTTL = 12
    MaxTime = 18
INVARIANTS
    TypeOK
    AttemptsBounded
    HeadersBuyNothing
PROPERTIES
    LockoutHolds
    LockoutReportedOnce
