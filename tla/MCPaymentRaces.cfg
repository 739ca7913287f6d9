SPECIFICATION PaymentsSpec
CONSTANTS
    c1 = c1  div = div  off = off  x1 = x1
    Unlimited = Unlimited  NoTime = NoTime  Nobody = Nobody
    Checkouts = {c1}
    Subjects = {off}
    Programs = {}
    Seats = {x1}
    CheckoutOf <- MCCheckoutOf
    SubjectsOf <- MCSubjectsOf
    Capacities = {1}
    HoldWindow = 1
    MaxHold = 1
    ApprovalWindow = 1
    Grace = 1
    FailWindow = 2
    MaxTime = 2
    Intents = {i1}
    CartOf <- MCCartOf
    AchIntents = {i1}
    ConfirmOnAch = FALSE
    Workers = {w1, w2}
    Faults = TRUE
    Prompt = TRUE
    MaxChanges = 4
INVARIANTS PaymentsTypeOK RefundedOnce MoneyAndSeatsAgree ProcessingKeepsPlace
SYMMETRY WorkerSymmetry
CHECK_DEADLOCK FALSE
