SPECIFICATION CronSpec
CONSTANTS
    Expr <- MCExpr
    Today <- MCToday
    Period = 2
    Day = 240
INVARIANTS CronSafe
PROPERTY EveryIsRegular
CHECK_DEADLOCK FALSE
