\* One event with up to two messages at a time, a consumer and the claimer, and two restarts
\* or failed statements anywhere.
SPECIFICATION FairSpec
CONSTANTS
    Event = {e1}
    Message = {m1, m2}
    Worker = {w1, w2}
    Claimer = w2
    NoEvent = NoEvent
    NoMessage = NoMessage
    MaxAttempts = 2
    MaxFaults = 2
INVARIANTS NeverForgotten
PROPERTIES AcceptedIsHandled ErrorsAreRetried
CHECK_DEADLOCK FALSE
