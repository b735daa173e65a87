SPECIFICATION GitWatchSpec
CONSTANTS
    f1 = f1  f2 = f2  w1 = w1  w2 = w2  s1 = s1  s2 = s2
    NoStatus = NoStatus
    File = {f1}
    Watcher = {w1, w2}
    Subscriber = {s1}
    Capacity = 1
    HistoryMax = 2
    HistoryKept = 1
    MaxSends = 3
INVARIANTS
    NotifierSafe
PROPERTY
    SendsEnd
CHECK_DEADLOCK FALSE
