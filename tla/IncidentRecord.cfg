SPECIFICATION Spec
CONSTANTS
    owner = owner
    NoRow = NoRow
    N = 4
    Users <- OwnerAlone
    Owner = owner
    Admins = {}
    Statuses = {"open", "resolved"}
    Kinds = {"create", "patch", "comment", "lock", "unlock", "edit", "delete",
             "acknowledge"}
INVARIANTS LostEventWasOverlaid RowIsExplained LockIsKept
CHECK_DEADLOCK FALSE
