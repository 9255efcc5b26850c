CONSTANTS
    a = a
    b = b
    Requests = {a, b}
    NoRequest = NoRequest
    NoReview = NoReview
    KindOf <- DraftAndTask
    MaxFailures = 2
SPECIFICATION FairSpec
INVARIANTS StoresDivergeByFailures LostDraftCostsAFailure FinalRecordIsAnnounced
PROPERTY AcceptedDraftSettles
CHECK_DEADLOCK FALSE
