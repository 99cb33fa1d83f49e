\* Violation run: TradeAtomic. A buyer and a seller, two concurrent requests, one restart.
CONSTANTS
    Users <- MCUsers
    Prices <- MCPrices
    Qtys <- MCQtys
    MaxOrders = 3
    None = None
    Procs <- MCProcs
    Places <- MCRoles
    InitUSD = 2
    InitBTC = 2
    MaxRestarts = 1
SPECIFICATION Spec
INVARIANT TradeAtomic
\* The number of requests is bounded; afterwards the server idles.
CHECK_DEADLOCK FALSE
