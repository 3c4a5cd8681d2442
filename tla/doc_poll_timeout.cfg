\* What the comment of PollSession says of its error.
CONSTANTS
    c1 = c1
    Calls = {c1}
    MaxAttempts = 3
    MaxRounds = 3
    Refusals = {404, 500}
    Options <- MCOptions
    MaxDuration = 100
SPECIFICATION Spec
INVARIANTS
    PollTimeoutOnlyAtDeadline
CHECK_DEADLOCK FALSE
