\* Two calls, with or without the key, with equal or different payloads.
CONSTANTS
    c1 = c1  c2 = c2  k1 = k1  p1 = p1  p2 = p2  NoKey = NoKey
    Calls = {c1, c2}
    Keys = {k1}
    Payloads = {p1, p2}
    MaxAttempts = 2
    Refusals = {400, 500}
SPECIFICATION Spec
INVARIANTS
    OneResourcePerKey
    OneResourcePerAttempt
    SuccessIsOwnResource
    ConflictMeansNoEffect
    CleanFailureMeansNoEffect
PROPERTIES
    ImplementsContract
CHECK_DEADLOCK FALSE
