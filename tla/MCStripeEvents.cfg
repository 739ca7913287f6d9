SPECIFICATION EventsFairSpec
CONSTANTS
    e1 = e1  e2 = e2  w1 = w1  r = r
    Nobody = Nobody  NoEvent = NoEvent
    Events = {e1, e2}
    Poison = {e2}
    Workers = {w1}
    Replayer = r
    Deliveries = 2
    Tries = 2
    ReplayLimit = 2
    MaxOverruns = 1
    MaxStops = 1
INVARIANTS EventsTypeOK ProcessedOnce
PROPERTIES LeaseIsKept Recovered
CHECK_DEADLOCK FALSE
