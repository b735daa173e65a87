SPECIFICATION MCPSpec
CONSTANTS
    g1 = g1  g2 = g2
    Goroutine = {g1, g2}
    Client = {1, 2}
    Limits <- MCLimits
INVARIANTS
    AnswersSafe
PROPERTIES
    NoneLeftBehind
    OperationsEnd
CHECK_DEADLOCK FALSE
