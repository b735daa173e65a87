SPECIFICATION RouterSpec
CONSTANTS
    ann = ann
    bob = bob
    direct = direct
    more = more
    news = news
    c1 = c1
    c2 = c2
    NoFile = NoFile
    Everyone = Everyone
    Agent = {ann, bob}
    Message = {direct, more, news}
    Sender <- MCSender
    To <- MCTo
    Idle = {}
    Capacity = 1
    Channel = {c1, c2}
INVARIANTS RouterSafe
PROPERTIES BroadcastReachesAll SendsEnd
CHECK_DEADLOCK FALSE
