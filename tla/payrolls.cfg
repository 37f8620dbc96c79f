SPECIFICATION ReportSpec
CONSTANTS
    Employees = {e1}
    Periods = {january, february}
    Amounts = {1, 2}
    TaxTables = {"taxed"}
    TaxDue <- MCTaxDue
    DeleteModes = {"soft", "hard"}
    Payrolls = {i1, i2}
    Procs = {p1, p2}
    MaxContentions = 1
    DepartmentOf <- MCDepartmentOf
    BracketName = "5% - Low-Mid"
SYMMETRY Symmetric
INVARIANTS
    TypeOK
    ItemsMatchRow
    TaxCalcMatchesItems
    OnePayrollPerPeriod
    ReportMissesNone
    SummariesAgree
PROPERTIES
    FinalizedIsFrozen
    LifeIsKept
CHECK_DEADLOCK FALSE
