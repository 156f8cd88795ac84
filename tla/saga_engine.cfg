\* The plan of agent_self_update: four steps, each tried twice, six failures or stops.
SPECIFICATION FairSpec
CONSTANTS
    N = 4
    Check = 2
    Apply = 4
    MaxAttempts = 2
    MaxUpsets = 6
INVARIANT RecordedNotRepeated
PROPERTIES ImplementsSteps SagaFinishes
