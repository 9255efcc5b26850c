CONSTANTS
    r1 = r1
    r2 = r2
    r3 = r3
    p1 = p1
    s1 = s1
    NoRun = NoRun
    NoPlan = NoPlan
    NoSuite = NoSuite
    Runs = {r1, r2, r3}
    Workers = {w1}
    KindOf <- KindMixed
    PlanOf <- PlanMixed
    SuiteOf <- SuiteMixed
    Purgeable = {r3}
    MaxCrashes = 1
    MaxFaults = 1
SPECIFICATION FairSpec
INVARIANTS RunningRunIsAttended InFlightMessageIsRecoverable OnlyRefusedMessagesStranded
PROPERTY AcceptedDispatchIsHandled
CHECK_DEADLOCK FALSE
