SPECIFICATION Spec
CONSTANTS
    Topologies = {t1, t2}
    Rules = {r1, r2}
    Unbindable = {t2}
    Unusable = {r2}
    Accounted = {}
    Admins = {a1, a2}
    InitialTopology = t1
    InitialRules = r1
    MaxRevision = 3
    Exports = {}
    Faults = {}
    None = None
SYMMETRY Symmetry
INVARIANTS QuiescentAgreement RollbackToLatestWorking ServiceSurvives
PROPERTY NoLostUpdate
