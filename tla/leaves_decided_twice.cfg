SPECIFICATION Spec
CONSTANTS
    Employees = {e1}
    LeaveTypes = {"ANNUAL_LEAVE", "UNPAID_LEAVE"}
    Unpaid = "UNPAID_LEAVE"
    Days <- MCDays
    YearOf <- MCYearOf
    PartDays = {0}
    OtherStatuses = {}
    DefaultDays <- MCDefaultDays
    Totals = {2}
    MaxContentions = 1
    DeleteModes = {"hard"}
    Requests = {r1}
    Procs = {p1, p2}
PROPERTIES
    OnlyPendingProcessed
