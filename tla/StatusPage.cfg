\* Two connections and one worker at a time on the page.
SPECIFICATION StatusSpec
CONSTANTS
    Readers = {w1}
    MaxConnection = 2
    Word = 8
    MaxAccepted = 2
    MaxRequests = 1
    MaxQueued = 1
INVARIANTS PageIsTrue
CHECK_DEADLOCK FALSE
