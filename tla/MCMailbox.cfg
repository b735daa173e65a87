SPECIFICATION MCSpec
CONSTANTS
    lead = lead
    worker1 = worker1
    worker2 = worker2
    idle1 = idle1
    idle2 = idle2
    text = text
    NoFile = NoFile
    one = one
    two = two
    Agent = {worker1, worker2}
    Message = {idle1, idle2, text}
    Idle = {idle1, idle2}
    Sender <- MCSender
    Instance = {one}
    MaxTries = 2
    MaxCrashes = 1
    MaxFaults = 2
INVARIANTS MailboxTypeOK NoLockLeft
PROPERTIES
    KeptUntilTaken
    HandedOutOnce
    AtomicPromise
    OperationsEnd
