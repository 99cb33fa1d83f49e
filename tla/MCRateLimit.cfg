\* Auth and rate-limit middleware over the Redis token bucket.
CONSTANTS
    g1 = g1
    g2 = g2
    Clients = {g1, g2}
    Paths <- MCPaths
    Passwords <- MCPasswords
    Salts <- MCSalts
    AccessTTL = 1
    RefreshTTL = 3
    MaxAuthRequests = 2
    Capacity = 2
    Refill = 4
    Expire = 4
    MaxStall = 1
    MaxTime = 5
    MaxRequests = 6
    RedisErrors = TRUE
    None = None
SPECIFICATION Spec
SYMMETRY MCSymmetry
INVARIANT TypeOK
INVARIANT WindowBound
PROPERTY AuthenticatedSession
\* Bounded clock and requests: the system idles once they are used up.
CHECK_DEADLOCK FALSE
