\* One request at a time against every combination of bounds, policy, tools,
\* budget and tool loop, streamed, fanned out or pinned, under routers that are
\* swapped or taken away while it runs: where can it go, and does it end?
CONSTANTS
    r1 = r1
    r2 = r2
    r3 = r3
    a = a
    b = b
    c = c
    Requests = {r1}
    Models = {a, b, c}
    NoRouter = NoRouter
    Codes = {"unavailable", "invalid"}
    Threshold = 2
    Window = 1
    Cooldown = 1
    MaxClock = 1
    Configs <- BoundsConfigs
    Profiles <- RoamingProfiles
SPECIFICATION FairSpec
INVARIANTS
    NeverRetriesAFailedModel
    TierStaysInBounds
PROPERTIES
    EscalationNeverWeakens
    EndsUnlessProviderHangs
CHECK_DEADLOCK FALSE
