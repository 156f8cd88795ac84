\* Without deletions by others, and one transaction at a time: a group of three duplicates
\* is deleted as a whole.
SPECIFICATION Spec
CONSTANTS
    Entity = {e1, e2, e3}
    None = None
    Workstation = {w1}
    User = {anna, boris}
    Worker = worker
    MaxCandidates = 3
    MaxOpen = 1
    MaxUpsets = 0
SYMMETRY Symmetry
PROPERTY GroupSurvives
\* In the end every row is confirmed, and there is none left to make.
CHECK_DEADLOCK FALSE
