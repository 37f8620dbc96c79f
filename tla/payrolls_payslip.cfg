SPECIFICATION ReportSpec
CONSTANTS
    Employees = {e1}
    Periods = {january}
    Amounts = {1, 2}
    TaxTables = {"taxed"}
    TaxDue <- MCTaxDue
    DeleteModes = {"soft", "hard"}
    Payrolls = {i1}
    Procs = {p1}
    MaxContentions = 0
    DepartmentOf <- MCDepartmentOf
    BracketName = "5% - Low-Mid"
INVARIANTS
    PayslipAddsUp
CHECK_DEADLOCK FALSE
