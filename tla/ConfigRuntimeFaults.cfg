SPECIFICATION Spec
CONSTANTS
    Topologies = {t1, t2}
    Rules = {r1, r2}
    Unbindable = {t2}
    Unusable = {r2}
    Accounted = {}
    Admins = {a1}
    InitialTopology = t1
    InitialRules = r1
    MaxRevision = 2
    Exports = {1}
    Faults = {"ctrl-c", "kill"}
    None = None
PROPERTIES RuntimeSettles ReloadHappens
