\* Four turns of chats of several lengths; a loop ends.
SPECIFICATION LoopSpec
CONSTANTS
    Histories <- MCHistories
    Answers <- MCAnswers
    CallId <- MCIds
    MaxIterations = 4
    MaxMessages = 10
INVARIANTS
    LoopSafe
PROPERTIES
    CancelledEnds
CHECK_DEADLOCK FALSE
