SPECIFICATION Spec
CONSTANTS
    c1 = c1  c2 = c2
    prog = prog  div = div  o1 = o1  o2 = o2
    x1 = x1  x2 = x2  x3 = x3
    Unlimited = Unlimited
    Checkouts = {c1, c2}
    Subjects = {prog, div, o1, o2}
    Programs = {prog}
    Seats = {x1, x2, x3}
    CheckoutOf <- MCCheckoutOf
    SubjectsOf <- MCSubjectsOf
    Capacities = {1, 2}
    HoldWindow = 1
    MaxHold = 2
    ApprovalWindow = 2
    Grace = 1
    FailWindow = 2
    MaxTime = 3
INVARIANTS TypeOK Reconciled ConfirmedTogether InFlightKeepsPlace
PROPERTY ImplementsLedger
CHECK_DEADLOCK FALSE
