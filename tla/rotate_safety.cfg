\* Two calls: rotations with or without the key, and revocations.
CONSTANTS
    c1 = c1  c2 = c2  k1 = k1  NoKey = NoKey
    Calls = {c1, c2}
    Keys = {k1}
    Types = {"api_key", "webhook_secret"}
    MaxAttempts = 2
    GatewayStatus = 502
SPECIFICATION Spec
SYMMETRY MCSymmetry
INVARIANTS
    KeyedRotationKeepsBoth
    TwoRotationsPerApiKey
    UnauthorizedIsFinal
CHECK_DEADLOCK FALSE
