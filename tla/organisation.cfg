SPECIFICATION Spec
CONSTANTS
    Logins = {"ann", "bob"}
    RoleNames = {"HR", "hr", "IT"}
    Upper <- MCUpper
    RoleLists = {{}, {"IT"}}
    Titles = {"clerk", "cook"}
    DepartmentNames = {north, south}
    Codes = {"USD"}
    Default = "USD"
    Salaries = {1, 3}
    Ranges <- MCRanges
    None = None
    Procs = {p1, p2}
    MaxCalls = 3
SYMMETRY Symmetric
INVARIANTS
    TypeOK
    NamesUnique
    SalaryInRange
    ImageOnDisk
    HeadcountsAgree
CHECK_DEADLOCK FALSE
