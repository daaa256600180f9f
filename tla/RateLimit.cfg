\* Four requests around midnight, two of them messages, under a limit that an
\* admin moves between one and two; a day of four ticks, seconds of two.
CONSTANTS
    r1 = r1
    r2 = r2
    r3 = r3
    r4 = r4
    Requests = {r1, r2, r3, r4}
    Posts = {r1, r2}
    Limits = {1, 2}
    DailyLimit = 1
    Second = 2
    Window = 2
    Day = 4
    MinTtl = 1
    MaxNow = 5
SPECIFICATION RateSpec
SYMMETRY Symmetry
INVARIANTS
    CounterCountsTokens
    LessThanTwiceTheLimit
    RefusalsAreEarned
CHECK_DEADLOCK FALSE
