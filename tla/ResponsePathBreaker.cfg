\* Three concurrent requests, auto-routed or pinned, over one shared breaker.
CONSTANTS
    r1 = r1
    r2 = r2
    r3 = r3
    a = a
    b = b
    c = c
    Requests = {r1, r2, r3}
    Models = {a, b, c}
    NoRouter = NoRouter
    Codes = {"unavailable", "invalid"}
    Threshold = 2
    Window = 2
    Cooldown = 2
    MaxClock = 2
    Configs <- BreakerConfigs
    Profiles <- BreakerProfiles
SPECIFICATION Spec
SYMMETRY Symmetry
INVARIANTS
    TypeOK
    OpenBreakerPredatesNoChoice
    OpenIsEarned
CHECK_DEADLOCK FALSE
