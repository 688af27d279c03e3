SPECIFICATION Spec
CONSTANTS
    Requests = {r1, r2, r3}
    Windows <- MCWindows
    Calendar <- MCCalendar
    Span <- MCSpan
    TTL <- MCTTL
    Forever = {"none"}
    Limits <- MCLimits
    Totals = {0, 2}
    MaxRead = 1
    LastTick = 9
SYMMETRY MCSymmetry
INVARIANTS LiveBucketKept DecisionsSound
CHECK_DEADLOCK FALSE
