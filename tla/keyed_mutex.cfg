\* Three goroutines, two keys that are locked and one that is not.
SPECIFICATION FairSpec
CONSTANTS
    Thread = {g1, g2, g3}
    Key = {0, 1, 2}
    Entry = {e1, e2, e3}
    NoEntry = NoEntry
    NoThread = NoThread
INVARIANTS Inv MutualExclusion MapHoldsWanted
PROPERTIES Served
