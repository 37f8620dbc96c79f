SPECIFICATION Spec
CONSTANTS
    Employees = {e1, e2}
    Exempt = {}
    Income <- MCIncome
    Approved = {}
    LeaveTypes = {"ANNUAL_LEAVE", "UNPAID_LEAVE"}
    Period <- MCPeriod
    AutoCalculate = TRUE
    Brackets = {"low", "high", "fee"}
    Bracket <- MCBracket
    Rates = {1, 2}
    Opening <- MCOpening
    MaxEdits = 1
    Faults = {FALSE, TRUE}
    Runs = {g1, g2}
    Selected <- MCSelected
    e1 = e1
    e2 = e2
    g1 = g1
    g2 = g2
INVARIANTS
    TypeOK
    ReportIsStored
    RerunIsSafe
    TaxedAtOneRate
    MoreGrossMoreNet
PROPERTIES
    RunsEnd
CHECK_DEADLOCK FALSE
