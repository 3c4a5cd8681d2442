\* Two calls, every pair of callbacks, two quotes.
CONSTANTS
    c1 = c1  c2 = c2  q1 = q1  q2 = q2  NoQuote = NoQuote
    Calls = {c1, c2}
    Quotes = {q1, q2}
    Refusals = {400, 402, 503}
SPECIFICATION X402Spec
SYMMETRY MCSymmetry
INVARIANTS
    X402TypeOK
    PaidOnce
    SuccessIsPaidFor
    ErrorTellsIfPaid
CHECK_DEADLOCK FALSE
