\* What the comment of RotateMerchantCredential says, with no key.
CONSTANTS
    c1 = c1  c2 = c2  k1 = k1  NoKey = NoKey
    Calls = {c1}
    Keys = {}
    Types = {"api_key", "webhook_secret"}
    MaxAttempts = 3
    GatewayStatus = 502
SPECIFICATION Spec
INVARIANTS
    PreviousStaysValid
CHECK_DEADLOCK FALSE
