\* Violation run: NoSendOnClosed. updateQuote sends on a channel that
\* Unsubscribe closed after the subscriber slice was copied.
CONSTANTS
    Clients <- MCClients
    ChanCap = 1
    MaxQuotes = 3
    MaxConnects = 2
    None = None
SPECIFICATION Spec
INVARIANT NoSendOnClosed
CHECK_DEADLOCK FALSE
