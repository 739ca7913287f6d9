SPECIFICATION LifecycleFairSpec
CONSTANTS
    league = league  camp = camp  cup = cup
    div = div  o1 = o1  o2 = o2  o3 = o3  o4 = o4
    a1 = a1  a2 = a2  b3 = b3  b4 = b4  w1 = w1  w2 = w2  w3 = w3  w4 = w4
    p1 = p1  p2 = p2  p3 = p3  p4 = p4
    Offerings = {o1, o2, o3, o4}
    Subjects = {div, o1, o2, o3, o4}
    Lines = {a1, a2, b3, b4, w1, w2, w3, w4}
    WaitLines = {w1, w2, w3, w4}
    RequiresApproval = {o2}
    ProgramOf <- MCProgramOf
    SubjectsOf <- MCSubjectsOf
    Capacity <- MCCapacity
    PersonOf <- MCPersonOf
    OfferingOf <- MCOfferingOf
    CartOf <- MCCartOf
    AutoMode = TRUE
    Givens <- MCGivens
INVARIANTS LifecycleTypeOK LifecycleReconciled OneRegistrationEach
PROPERTIES ClosedStays OffersInTurn OfferEnds
CHECK_DEADLOCK FALSE
