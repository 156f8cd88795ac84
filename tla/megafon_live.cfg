\* The two events that lock both calls the other way round, two goroutines, one restart,
\* failed statement, replay or run of SyncHistory.
SPECIFICATION FairSpec
CONSTANTS
    Event = {transferred, completed}
    CallId = {1, 2}
    NoCall = NoCall
    Worker = {w1, w2}
    Syncer = sync
    Nobody = Nobody
    NoEvent = NoEvent
    Of <- MCOf
    Second <- MCSecond
    Transfer = {transferred}
    Says <- MCSays
    MaxAttempts = 1
    MaxUpsets = 1
    accepted = accepted
    transferred = transferred
    completed = completed
PROPERTIES AcceptedIsHandled
CHECK_DEADLOCK FALSE
