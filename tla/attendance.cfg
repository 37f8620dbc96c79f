SPECIFICATION Spec
CONSTANTS
    Employees = {e1}
    Times = {1, 2}
    DayLength = 3
    WorkDay = 1
    DueAt <- MCDueAt
    Tokens = {t1}
    KindOf <- MCKindOf
    RedisFaults = {FALSE, TRUE}
    MaxScans = 2
    Rows = {r1, r2}
    Procs = {p1, p2}
SYMMETRY Symmetric
INVARIANTS
    TypeOK
    OneRowPerDay
    TokenServesOnce
    EveryoneAccountedFor
    ReportsAgree
PROPERTIES
    HoursAddUp
CHECK_DEADLOCK FALSE
