SPECIFICATION Spec
CONSTANTS
    Rules = {r1}
    Peers = {p1}
    Shared = {shared}
    Users = {u1, u2}
    NoUser = NoUser
    RequestKinds <- AllKinds
    BirthStates = {FALSE, TRUE}
    Targets = {"deprecated", "retired"}
    MaxVersions = 3
    MaxRequests = 2
    MaxRollbacks = 1
    MaxSuites = 2
    MaxFaults = 1
SYMMETRY UserSymmetry
INVARIANTS ActiveRuleWasGranted RowMatchesCurrentVersion
PROPERTIES RemovedOnlyRecovered ActiveRulesStayCovered
CHECK_DEADLOCK FALSE
