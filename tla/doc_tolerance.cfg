\* A sender whose clock is further ahead than a Duration reaches.
CONSTANTS
    b1 = b1  b2 = b2
    Bodies = {b1, b2}
    Undecodable = {b2}
    MaxDuration = 3
    DefaultWebhookTolerance = 1
    Tolerances = {0, 2}
    Offsets <- MCOffsets
    Overlap = 5
    MaxClock = 7
    MaxSecret = 2
SPECIFICATION WebhookSpec
INVARIANTS
    AcceptedWithinTolerance
CHECK_DEADLOCK FALSE
