\* Two concurrent callers, transfers between different users only.
CONSTANTS
    Users <- MCUsers
    Currencies <- MCCurrencies
    USD = "USD"
    SystemAccount = SystemAccount
    Amounts <- MCAmount
    TransferPairs <- MCDistinctPairs
    Workers <- MCWorkers
    PoolSize = 3
    MaxCalls = 4
    SystemRowInit = {TRUE}
    None = None
SPECIFICATION Spec
INVARIANT BalanceMatchesLedger
CHECK_DEADLOCK FALSE
