\* A counterexample: on Windows the saga is completed when the script is only started.
SPECIFICATION Spec
CONSTANTS
    N = 4
    Check = 2
    Apply = 4
    MaxAttempts = 2
    MaxUpsets = 1
INVARIANT CompletedIsInstalled
