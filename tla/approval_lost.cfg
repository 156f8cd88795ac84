\* The operator approves an agent while its registration is handled.
SPECIFICATION Spec
CONSTANTS
    Cmd = {c1, c2}
    Saga = {"self_update"}
    SagaOf <- MCSagaOf
    Pair = {1, 2, 3, 4}
    NoPair = 0
    Slot = {1, 2}
    NoSlot = 0
    MaxUpsets = 2

PROPERTY ApprovalStands
