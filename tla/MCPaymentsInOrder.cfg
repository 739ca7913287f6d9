SPECIFICATION PaymentsFairSpec
CONSTANTS
    c1 = c1  div = div  off = off  x1 = x1
    Unlimited = Unlimited  NoTime = NoTime  Nobody = Nobody
    Checkouts = {c1}
    Subjects = {div, off}
    Programs = {}
    Seats = {x1}
    CheckoutOf <- MCCheckoutOf
    SubjectsOf <- MCSubjectsOf
    Capacities = {1}
    HoldWindow = 1
    MaxHold = 1
    ApprovalWindow = 1
    Grace = 1
    FailWindow = 2
    MaxTime = 3
    Intents = {i1, i2}
    CartOf <- MCCartOf
    AchIntents = {i2}
    ConfirmOnAch = TRUE
    Workers = {w1}
    Faults = FALSE
    Prompt = TRUE
    MaxChanges = 2
INVARIANTS MoneyAndSeatsAgree ProcessingKeepsPlace
PROPERTIES SuccessResolves HoldsResolve
CHECK_DEADLOCK FALSE
