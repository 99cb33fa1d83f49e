\* Violation run: NoOverfill. A buyer and a seller, one request at a time, one restart.
CONSTANTS
    Users <- MCUsers
    Prices <- MCPrices
    Qtys <- MCQtys
    MaxOrders = 3
    None = None
    Procs <- MCOneProc
    Places <- MCRoles
    InitUSD = 4
    InitBTC = 3
    MaxRestarts = 1
SPECIFICATION Spec
INVARIANT NoOverfill
\* The number of requests is bounded; afterwards the server idles.
CHECK_DEADLOCK FALSE
