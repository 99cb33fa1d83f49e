\* Violation run: NoSlicePanic.
CONSTANTS
    Users <- MCUsers
    Prices <- MCPrices
    Qtys <- MCQtys
    MaxOrders = 5
    None = None
SPECIFICATION Spec
INVARIANT NoSlicePanic
CHECK_DEADLOCK FALSE
