\* Violation run: AtMostOnce. Two goroutines, two requests with one key, no crash, no query errors.
CONSTANTS
    Keys <- MCKeys
    Bodies <- MCBodies
    Procs <- MCProcs
    MaxRequests = 2
    MaxCrashes = 0
    DbErrors = FALSE
    Endpoint <- MCEndpoint
    None = None
SPECIFICATION Spec
INVARIANT AtMostOnce
CHECK_DEADLOCK FALSE
