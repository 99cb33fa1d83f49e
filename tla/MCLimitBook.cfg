\* Book safety: level index, heap, ask priority, and refinement of AbstractBook (fill prices and accounting).
CONSTANTS
    Users <- MCUsers
    Prices <- MCPrices
    Qtys <- MCQtys
    MaxOrders = 4
    None = None
SPECIFICATION Spec
INVARIANT TypeOK
INVARIANT BookIntegrity
INVARIANT HeapConsistent
PROPERTY AskPriority
PROPERTY RefinesAbstractBook
\* A bounded number of client requests: the book idles once they are served,
\* and a spinning MatchOrder blocks every later request on the symbol.
CHECK_DEADLOCK FALSE
