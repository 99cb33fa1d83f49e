\* Two concurrent callers, a pool with a connection to spare, both
\* deployments (with and without an accounts row for uuid.Nil).
CONSTANTS
    Users <- MCUsers
    Currencies <- MCCurrencies
    USD = "USD"
    SystemAccount = SystemAccount
    Amounts <- MCAmount
    TransferPairs <- MCAllPairs
    Workers <- MCWorkers
    PoolSize = 3
    MaxCalls = 4
    SystemRowInit = {TRUE, FALSE}
    None = None
SPECIFICATION Spec
INVARIANTS TypeOK
PROPERTIES CallsComplete
\* The model bounds the number of client calls; once they have all
\* returned the system is idle and waits for requests that never come.
CHECK_DEADLOCK FALSE
