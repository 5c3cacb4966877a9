SPECIFICATION FairSpec
CONSTANTS
    None = None
    d = d
    x = x
    site = site
    admin = admin
    c1 = c1
    c2 = c2
    Conns = {c1, c2}
    Listeners = {d, x}
    Default = d
    Names = {site, admin}
    Configs <- ThreeConfigs
    Scenarios <- Environments
    MaxRounds = 2
    MaxQueue = 2
INVARIANTS GuardsExact RecordsExact NeverForwarded DrainIsComplete
PROPERTIES StopCompletes 
CHECK_DEADLOCK FALSE
