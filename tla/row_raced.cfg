\* The worker adds a server to a row while a user confirms the row.
SPECIFICATION Spec
CONSTANTS
    Entity = {e1, e2, e3}
    None = None
    Workstation = {w1}
    User = {anna, boris}
    Worker = worker
    MaxCandidates = 2
    MaxOpen = 2
    MaxUpsets = 1
SYMMETRY Symmetry
PROPERTY ClosedIsDoneAlways
\* In the end every row is confirmed, and there is none left to make.
CHECK_DEADLOCK FALSE
