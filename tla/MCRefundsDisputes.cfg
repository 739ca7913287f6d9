SPECIFICATION RefundsFairSpec
CONSTANTS
    k1 = k1
    k2 = k2
    k3 = k3
    outside = outside
    h1 = h1
    h2 = h2
    Keys = {k1, k2, k3}
    Outside = outside
    Ask <- MCAsk
    Amount = 3
    Disputed = 2
    Fee = 1
    Back = 2
    Workers = {h1, h2}
    Changes = 3
    Failures = 1
    Givens <- RefundsGivens
INVARIANTS
    RefundsTypeOK
    BooksAgree
PROPERTIES
    RefundsAreBooked
    DisputeEnds
CHECK_DEADLOCK FALSE
