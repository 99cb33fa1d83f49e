\* The subscriber slice under concurrent Subscribe, Unsubscribe and updateQuote.
CONSTANTS
    Clients <- MCClients
    ChanCap = 1
    MaxQuotes = 3
    MaxConnects = 2
    None = None
SPECIFICATION Spec
INVARIANT TypeOK
INVARIANT SubscribersExact
\* Bounded quotes and connections: the system idles once they are used up,
\* and a panic ends the process.
CHECK_DEADLOCK FALSE
