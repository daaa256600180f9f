\* The same prompt twice: the second request meets the first one's cache entry.
CONSTANTS
    hello = hello
    MaxRequests = 2
    Inputs = {hello}
    Messages <- Both
    MaxTroubles = 0
SPECIFICATION Spec
INVARIANT
    HeldIdsAreSaved
CHECK_DEADLOCK FALSE
