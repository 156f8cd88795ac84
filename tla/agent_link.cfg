\* Two commands, two requests at a time, and two of: a lost answer, a failed statement,
\* an expired token, a stop of the agent.
SPECIFICATION FairSpec
CONSTANTS
    Cmd = {c1, c2}
    Saga = {"self_update"}
    SagaOf <- MCSagaOf
    Pair = {1, 2, 3, 4}
    NoPair = 0
    Slot = {1, 2}
    NoSlot = 0
    MaxUpsets = 2
INVARIANTS NoResultLost RunOnce
PROPERTIES SessionsRecover CommandsFinish
