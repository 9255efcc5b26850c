SPECIFICATION Spec
CONSTANTS
    Versions = {v1, v2}
    Approvals = {a1}
    Ops = {o1, o2, o3}
    NoVersion = NoVersion
    NoOp = NoOp
    MaxFaults = 1
SYMMETRY Symmetry
INVARIANTS
    OneVersionInForce
    LastDispatchIsOfCurrent
    PlanStatusMatchesVersion
    DispatchedVersionIsDecided
PROPERTY KeepsPlanInForce
