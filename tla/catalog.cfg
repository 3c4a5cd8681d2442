\* Two calls of any kind on a store, or on a product, plan or price.
CONSTANTS
    c1 = c1  c2 = c2  c3 = c3
    Calls = {c1, c2}
    MaxAttempts = 2
    Refusals = {400, 503}
SPECIFICATION Spec
SYMMETRY MCSymmetry
INVARIANTS
    OutcomeStaysTrue
    PatchMakesItsOwnVersion
CHECK_DEADLOCK FALSE
