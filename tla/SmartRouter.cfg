\* Two callers over a primary pool of three endpoints and a disabled one, under
\* every strategy, and a fallback behind a provider without a pool.
CONSTANTS
    a = a
    b = b
    c = c
    d = d
    off = off
    p1 = p1
    p2 = p2
    p3 = p3
    r1 = r1
    r2 = r2
    m1 = m1
    m2 = m2
    NoEndpoint = NoEndpoint
    Endpoints = {a, b, c, d, off}
    FailureThreshold = 2
    RecoveryTimeout = 2
    Requests = {r1, r2}
    Models = {m1, m2}
    Pools <- MCPools
    EndpointsOf <- MCEndpointsOf
    Enabled = {a, b, c, d}
    Lists <- MCLists
    Serves <- MCServes
    ChainOf <- MCChainOf
    Selectors <- MCSelectors
    CounterPeriod = 6
    Weight <- MCWeight
    Priority <- MCPriority
    RegionOf <- MCRegionOf
    ProfilesOf <- MCProfilesOf
    Troubled = {a, b}
    AdminBudget = 1
SPECIFICATION RouterSpec
INVARIANTS
    CircuitsAreSound
    RoundRobinIsEven
PROPERTIES
    EveryCircuitReopens
    FavouriteStays
