SPECIFICATION LockFairSpec
CONSTANTS
    c1 = c1  c2 = c2  div = div  off = off  x1 = x1  x2 = x2
    p1 = p1  p2 = p2
    Unlimited = Unlimited  NoCart = NoCart
    Checkouts = {c1, c2}
    Subjects = {div, off}
    Programs = {}
    Seats = {x1, x2}
    CheckoutOf <- MCCheckoutOf
    SubjectsOf <- MCSubjectsOf
    Capacities = {1}
    HoldWindow = 1
    MaxHold = 1
    ApprovalWindow = 1
    Grace = 1
    FailWindow = 1
    MaxTime = 2
    Sessions = {p1, p2}
    Kinds = {"reserve", "confirm", "keep", "expire"}
    SubjectNo <- MCSubjectNo
INVARIANTS LockTypeOK
PROPERTIES CommitsAreSteps TransactionsEnd
CHECK_DEADLOCK FALSE
