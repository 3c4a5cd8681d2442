\* Two calls of any kind on one session, two methods to choose from.
CONSTANTS
    c1 = c1  c2 = c2
    Calls = {c1, c2}
    MaxAttempts = 2
    Methods = {"solana", "ethereum", "bitcoin"}
    Candidates = {"solana", "ethereum"}
    NoMethod = "none"
    Nobody = "nobody"
    Gateway = {502}
SYMMETRY MCSymmetry
SPECIFICATION Spec
INVARIANTS
    SelectionsConverge
    RefusedSelectionBindsNothing
    ConflictAtOnceIsNotOurs
PROPERTIES
    ImplementsContract
CHECK_DEADLOCK FALSE
