\* Every answer of up to six chunks and two calls, from both kinds of provider; an
\* answer ends.
SPECIFICATION StreamSpec
CONSTANTS
    MaxCalls = 2
    MaxChunks = 6
INVARIANTS
    StreamSafe
CHECK_DEADLOCK FALSE
