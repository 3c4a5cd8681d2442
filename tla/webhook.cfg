\* One rotation, deliveries signed at any time around it.
CONSTANTS
    b1 = b1  b2 = b2
    Bodies = {b1, b2}
    Undecodable = {b2}
    MaxDuration = 3
    DefaultWebhookTolerance = 1
    Tolerances = {0, 2, 3}
    Offsets <- MCOffsets
    Overlap = 6
    MaxClock = 7
    MaxSecret = 2
SPECIFICATION WebhookSpec
INVARIANTS
    WebhookTypeOK
    AcceptedWasSent
    NothingLostInRotation
    ErrorsTellWhy
CHECK_DEADLOCK FALSE
