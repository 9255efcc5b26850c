CONSTANTS
    j1 = j1
    j2 = j2
    s1 = s1
    NoRun = NoRun
    NoPlan = NoPlan
    NoSuite = NoSuite
    Runs = {j1, j2}
    JoinRuns = {j1, j2}
    Workers = {w1}
    Etl = {e1}
    KindOf <- KindPair
    PlanOf <- PlanPair
    SuiteOf <- SuitePair
    ContractOf <- Contracts
    Purgeable = {j1, j2}
    MaxCrashes = 1
    MaxFaults = 2
SPECIFICATION FairJoinSpec
INVARIANT UntraceableRunCostsALostCall
PROPERTY JoinDispatchSettles
CHECK_DEADLOCK FALSE
