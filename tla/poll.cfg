\* One helper of any kind: helpers share nothing but the session they read.
CONSTANTS
    c1 = c1
    Calls = {c1}
    MaxAttempts = 3
    MaxRounds = 3
    Refusals = {404, 500}
    Options <- MCOptions
    MaxDuration = 100
SPECIFICATION PromptSpec
INVARIANTS
    TypeOK
    ReturnedSessionIsFinal
    ReceiptOnlyIfSettled
    TimeoutIsHonest
PROPERTIES
    IntervalBacksOff
    EveryHelperEnds
    CancelledHelperEnds
CHECK_DEADLOCK FALSE
