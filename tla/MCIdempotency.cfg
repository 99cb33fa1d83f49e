\* Two goroutines, up to four requests with one key, one crash, failing queries.
CONSTANTS
    Keys <- MCKeys
    Bodies <- MCBodies
    Procs <- MCProcs
    MaxRequests = 4
    MaxCrashes = 1
    DbErrors = TRUE
    Endpoint <- MCEndpoint
    None = None
SPECIFICATION Spec
INVARIANTS TypeOK RecordImpliesEffect
\* The number of requests is bounded; afterwards the server idles.
CHECK_DEADLOCK FALSE
