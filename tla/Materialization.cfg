SPECIFICATION FairSpec
CONSTANTS
    r1 = r1
    u1 = u1
    u2 = u2
    NoRequest = NoRequest
    Requests = {r1, r2, r3}
    Workers = {w1}
    Locations = {u1, u2}
    Targets <- BatchTargets
    Refresh = {r1}
    Delta = {u2}
    Beneath <- Sibling
    Inside <- Apart
    Parts = {1, 2}
    MaxPending = 2
    MaxInFlight = 2
    MaxFaults = 2
INVARIANTS CompletedIsDelivered LeftoverCostsAFault WorkerDeliversWhole
PROPERTY RequestSettles
CHECK_DEADLOCK FALSE
