SPECIFICATION Spec
CONSTANTS
    None = None
    c1 = c1
    c2 = c2
    p1 = p1
    r1 = r1
    Certs <- OneCert
    Stored <- OneCert
    Routed <- NoCerts
    Providers <- OneProvider
    Registrars <- NoRegistrars
    Ops <- StorageOps
    MaxGen = 3
    MaxLate = 2
    Keep = 2
    Concurrency = 1
    PrepBudget = 2
INVARIANT ActiveHasGeneration
