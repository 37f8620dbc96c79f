SPECIFICATION Spec
CONSTANTS
    Employees = {e1}
    LeaveTypes = {"ANNUAL_LEAVE", "UNPAID_LEAVE"}
    Unpaid = "UNPAID_LEAVE"
    Days <- MCDays
    YearOf <- MCYearOf
    PartDays = {0}
    OtherStatuses = {"ON_HOLD"}
    DefaultDays <- MCDefaultDays
    Totals = {1}
    MaxContentions = 1
    DeleteModes = {"soft", "hard"}
    Requests = {r1, r2}
    Procs = {p1, p2}
SYMMETRY Symmetric
INVARIANTS
    TypeOK
    ApprovedAreCharged
    LedgerIsExact
    NoOverlap
    RequestsExplainBalances
PROPERTIES
    DeskIsKept
    NeverOverbooks
