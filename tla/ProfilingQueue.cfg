CONSTANTS
    a = a
    b = b
    c = c
    t = t
    src = src
    NoRequest = NoRequest
    Requests = {a, b, c, t}
    Workers = {w1}
    RouteOf <- Routing
    ObjectOf <- OneObject
    MaxFailures = 2
SPECIFICATION FairSpec
INVARIANTS OneFreshRequestPerSource LostRequestCostsAFailure
PROPERTY EnqueuedRequestSettles
CHECK_DEADLOCK FALSE
