\* Any one call of the client, or two lists that share their params.
CONSTANTS
    c1 = c1  c2 = c2
    Calls = {c1, c2}
    MaxAttempts = 2
    Ids <- MCIds
    Segments <- MCSegments
    Merchants = {"m1", "m2"}
    NoMerchant = "none"
    Torn = "torn"
    BaseURLs <- MCBaseURLs
    Refusals = {400, 503}
SPECIFICATION ApiCallLiveSpec
INVARIANTS
    AsksForWhatWasMeant
    HeadersOnEveryAttempt
    DecodedAsSent
    ParsersAgree
    ListsAskedMerchant
PROPERTIES
    EveryCallReturns
CHECK_DEADLOCK FALSE
