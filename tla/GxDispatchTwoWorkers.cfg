CONSTANTS
    r1 = r1
    r2 = r2
    r3 = r3
    p1 = p1
    s1 = s1
    NoRun = NoRun
    NoPlan = NoPlan
    NoSuite = NoSuite
    Runs = {r1, r2}
    Workers = {w1, w2}
    KindOf <- KindPair
    PlanOf <- PlanPair
    SuiteOf <- SuitePair
    Purgeable = {}
    MaxCrashes = 1
    MaxFaults = 1
SPECIFICATION Spec
SYMMETRY WorkerSymmetry
INVARIANTS OneFreshRunPerObject PendingRunIsQueued
CHECK_DEADLOCK FALSE
