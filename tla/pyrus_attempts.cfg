\* An old message makes a worker claim an event whose attempts are used up.
SPECIFICATION Spec
CONSTANTS
    Event = {e1}
    Message = {m1, m2}
    Worker = {w1, w2}
    Claimer = w2
    NoEvent = NoEvent
    NoMessage = NoMessage
    MaxAttempts = 1
    MaxWait = 1
    MaxReplays = 0
    MaxFaults = 1
INVARIANT AttemptsBounded
CHECK_DEADLOCK FALSE
