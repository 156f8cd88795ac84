\* The three events of a transferred call, two goroutines, one restart,
\* failed statement, replay or run of SyncHistory.
SPECIFICATION Spec
CONSTANTS
    Event = {accepted, transferred, completed}
    CallId = {1, 2}
    NoCall = NoCall
    Worker = {w1, w2}
    Syncer = sync
    Nobody = Nobody
    NoEvent = NoEvent
    Of <- MCOf
    Second <- MCSecond
    Transfer = {transferred}
    Says <- MCSays
    MaxAttempts = 1
    MaxUpsets = 1
    accepted = accepted
    transferred = transferred
    completed = completed
INVARIANTS OneHandler NoWaitCycle Recorded StatusIsFurthest
CHECK_DEADLOCK FALSE
