SPECIFICATION FairSpec
CONSTANTS
    None = None
    k1 = k1
    k2 = k2
    e1 = e1
    e2 = e2
    r1 = r1
    Keys <- TwoKeys
    Endpoints = {e1, e2}
    EndpointsOf <- OneEach
    IPv4 = {e1}
    Scenarios <- Environments
    Requests = {r1}
    MaxGroups = 3
    RuntimeMax = 0
INVARIANTS OnlyBoundAreConfigured SelectionSound
PROPERTIES RuntimeBounded HealthConverges
