SPECIFICATION Spec
CONSTANTS
    Employees = {e1, e2}
    Exempt = {}
    Income <- MCIncome
    Approved <- MCApproved
    LeaveTypes = {"ANNUAL_LEAVE", "UNPAID_LEAVE"}
    Period <- MCPeriod
    AutoCalculate = TRUE
    Brackets = {"low", "high", "fee"}
    Bracket <- MCBracket
    Rates = {1, 2}
    Opening <- MCOpening
    MaxEdits = 0
    Faults = {FALSE}
    Runs = {g1, g2}
    Selected <- MCSelected
    e1 = e1
    e2 = e2
    g1 = g1
    g2 = g2
INVARIANTS
    UnpaidLeaveIsDeducted
CHECK_DEADLOCK FALSE
