SPECIFICATION ClassesSpec
CONSTANTS
    ann = ann  bea = bea  cem = cem  dan = dan
    term = term  next = next  gym = gym  punch = punch
    s1 = s1  s2 = s2  g = g  t1 = t1  t2 = t2  card1 = card1
    NoSession = NoSession  Empty = Empty  Invoice = Invoice  Trial = Trial
    People = {ann, bea, cem, dan}
    Classes = {term, next, gym, punch}
    Billing <- MCBilling
    Sessions = {s1, s2, g, t1, t2}
    ClassOf <- MCClassOf
    Room <- MCRoom
    Eligible <- MCEligible
    CreditsPerTerm = 1
    Cards = {card1}
    OwnerOf <- MCOwner
    ClassOfCard <- MCCardClass
    Uses = 2
    MaxCapacity = 2
    Givens <- ClassesGivens
INVARIANTS ClassesTypeOK BookingsArePaid PlacesAreOffered
CHECK_DEADLOCK FALSE
