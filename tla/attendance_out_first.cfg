SPECIFICATION Spec
CONSTANTS
    Employees = {e1}
    Times = {1, 2}
    DayLength = 3
    WorkDay = 1
    DueAt <- MCDueAt
    Tokens = {t1}
    KindOf <- MCKindOf
    RedisFaults = {FALSE}
    MaxScans = 2
    Rows = {r1, r2}
    Procs = {p1}
INVARIANTS
    CheckOutNeedsCheckIn
CHECK_DEADLOCK FALSE
