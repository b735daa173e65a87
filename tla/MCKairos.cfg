SPECIFICATION MCSpec
CONSTANTS
    p1 = p1  p2 = p2  d1 = d1  d2 = d2  r1 = r1  r2 = r2
    gw = gw  l1 = l1  l2 = l2
    GitWatch = gw
    Loop = {l1, l2}
    Project = {p1, p2}
    Daemon = {d1, d2}
    Request = {r1, r2}
    Custom = {gw}
    Period = 1
    MaxClock = 2
    MaxTasks = 2
INVARIANT
    KairosSafe
PROPERTY
    LoopsEnd
CHECK_DEADLOCK FALSE
