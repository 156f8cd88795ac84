\* Three servers and a workstation, two users and the worker, two of them at once, two rows,
\* one deletion or restoration by others or one row or workstation raced.
SPECIFICATION Spec
CONSTANTS
    Entity = {e1, e2, e3}
    None = None
    Workstation = {w1}
    User = {anna, boris}
    Worker = worker
    MaxCandidates = 2
    MaxOpen = 2
    MaxUpsets = 1
SYMMETRY Symmetry
PROPERTIES AutoDeletesAsked ClosedIsDone
\* In the end every row is confirmed, and there is none left to make.
CHECK_DEADLOCK FALSE
