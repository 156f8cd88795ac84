\* One event with up to two messages at a time, two workers, a replay and a restart
\* or failed statement anywhere.
SPECIFICATION FairSpec
CONSTANTS
    Event = {e1}
    Message = {m1, m2}
    Worker = {w1, w2}
    Claimer = w2
    NoEvent = NoEvent
    NoMessage = NoMessage
    MaxAttempts = 2
    MaxWait = 1
    MaxReplays = 1
    MaxFaults = 1
INVARIANTS OneWorker AttemptsAreFailures
PROPERTIES ClosedStays AcceptedIsSettled
CHECK_DEADLOCK FALSE
