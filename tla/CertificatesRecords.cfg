SPECIFICATION Spec
CONSTANTS
    None = None
    c1 = c1
    c2 = c2
    p1 = p1
    r1 = r1
    Certs <- OneCert
    Stored <- NoCerts
    Routed <- OneCert
    Providers <- OneProvider
    Registrars <- OneRegistrar
    Ops <- RecordOps
    MaxGen = 1
    MaxLate = 1
    Keep = 2
    Concurrency = 1
    PrepBudget = 2
INVARIANT RegistrationNeverOverwrites
