SPECIFICATION InvoiceFairSpec
CONSTANTS
    a = a  b = b  k1 = k1  k2 = k2  w1 = w1  w2 = w2
    Nobody = Nobody
    Plan <- MCPlan
    Amount <- MCAmount
    Tries = 2
    LateFee = 1
    Keys = {k1, k2}
    KeyFor <- MCKeyFor
    Workers = {w1, w2}
    Changes = 2
    Failures = 1
    Givens <- MCGivens
INVARIANTS InvoiceTypeOK MoneyReconciled
PROPERTIES FinalIsFinal ChargesAreBooked DunningEnds
CHECK_DEADLOCK FALSE
