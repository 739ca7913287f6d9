SPECIFICATION SpacesSpec
CONSTANTS
    a = a  b = b  c = c  d = d  n = n  e1 = e1
    Top = Top  Facility = Facility  Nobody = Nobody
    Spaces = {a, b, c, d, n}
    FirstTree <- MCTree
    Slots = {1, 2}
    Events = {e1, e2}
    Blocks = {k}
    Sessions = {p1, p2}
    MaxVersion = 3
    MaxClosures = 1
    Givens <- SpacesGivens
INVARIANTS SpacesTypeOK BookingsAgree
SYMMETRY SessionSymmetry
CHECK_DEADLOCK FALSE
