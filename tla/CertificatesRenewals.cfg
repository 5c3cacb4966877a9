SPECIFICATION PromptSpec
CONSTANTS
    None = None
    c1 = c1
    c2 = c2
    p1 = p1
    r1 = r1
    Certs <- TwoCerts
    Stored <- TwoCerts
    Routed <- NoCerts
    Providers <- OneProvider
    Registrars <- NoRegistrars
    Ops <- SchedulerOps
    MaxGen = 1
    MaxLate = 1
    Keep = 2
    Concurrency = 1
    PrepBudget = 0
PROPERTIES DueIsRetried ScanRequestHonoured
