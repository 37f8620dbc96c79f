------------------------- MODULE OrganisationReports -------------------------
(***************************************************************************)
(* What is told of the staff: the employee reports of ReportsService, the  *)
(* figures of DashboardService and the summaries of UsersService,          *)
(* EmployeesService and DepartmentsService, each with queries of its own   *)
(* over the tables of Organisation.                                        *)
(***************************************************************************)
EXTENDS Organisation, Functions

Unknown == "Unknown"

EmployeesIn(d) == {e \in LiveIds(employees) : employees[e].department = d}

\* findOneByIdAsync and findOneByUserIdAsync of employees: at most one.
FindEmployeeById(e) == {e} \cap LiveIds(employees)
FindEmployeeByUser(u) == {e \in LiveIds(employees) : employees[e].user = u}

-----------------------------------------------------------------------------
(* ReportsService *)

\* getEmployeeReportData, its pages and its export; D is every department where the
\* query names none.
EmployeeReport(D) == {e \in LiveIds(employees) : employees[e].department \in D}

\* What a group of employees is called: by the name of a row that may be deleted.
NameOf(table, i, name) == IF i \in LiveIds(table) THEN name ELSE Unknown

\* getEmployeeSummaryReportData and its export, and the employees of
\* getComprehensiveReportData.  A group is one of a groupBy, the names are looked up
\* afterwards.
EmployeeSummary ==
    LET all == LiveIds(employees)
    IN  [totalEmployees |-> Cardinality(all),
         departmentBreakdown |->
            {[id |-> d, department |-> NameOf(departments, d, departments[d].name),
              count |-> Cardinality(EmployeesIn(d))] :
                d \in {employees[e].department : e \in all}},
         positionBreakdown |->
            {[id |-> i, position |-> NameOf(positions, i, positions[i].title),
              count |-> Cardinality({e \in all : employees[e].position = i})] :
                i \in {employees[e].position : e \in all}}]

-----------------------------------------------------------------------------
(* DepartmentsService and DashboardService *)

\* Faulty: deleted employees count, as they do in employee_count.
HeadcountOfAll(d) == Cardinality({e \in DOMAIN employees : employees[e].department = d})

\* The employees of a department, in its summary and on the dashboard.
Headcount(d) == Cardinality(EmployeesIn(d))

\* _count of the lists and of findOneByIdAsync: deleted employees count.
EmployeeCount(d) == Cardinality({e \in DOMAIN employees : employees[e].department = d})

\* getSummaryAsync of departments; largestDept is one that has most, or none.
DepartmentSummary ==
    LET all == LiveIds(departments)
        most == {d \in all : /\ Headcount(d) > 0
                             /\ \A c \in all : Headcount(c) <= Headcount(d)}
    IN  [totalDepartments |-> Cardinality(all),
         totalEmployees |-> SumFunction([d \in all |-> Headcount(d)]),
         largestDept |-> most]

\* getDepartmentDistributionAsync
Distribution == [d \in LiveIds(departments) |-> Headcount(d)]

-----------------------------------------------------------------------------
(* UsersService and EmployeesService *)

\* getSummaryAsync: the users of a role, which may be deleted.
UsersWithRole(n) ==
    {u \in LiveIds(users) : \E r \in DOMAIN roles : roles[r].name = n /\ <<u, r>> \in userRoles}

\* adminCount and hrCount are two of roleCount.
UserSummary ==
    [totalUsers |-> Cardinality(LiveIds(users)),
     roleCount |-> [n \in RoleNames |-> Cardinality(UsersWithRole(n))]]

\* getSummaryAsync of employees, and totalEmployees of getStatsAsync.
EmployeeTotal == Cardinality(LiveIds(employees))

-----------------------------------------------------------------------------
(* Properties *)

\* Five places count the staff, each with code of its own, and they agree: the groups
\* of the employee summary add up to the report, and those that are not "Unknown" to
\* the departments' summary and the dashboard, which leave out who is still in a
\* department that was deleted, or was moved into one, as an update does not look.  The
\* employee_count of a department is no less than its headcount, and equal where nobody
\* was deleted; a user is one employee at most, whom findOneByUserIdAsync finds; and the
\* summary of users counts everybody whom the list shows with a role, as long as roles
\* are in upper case.
HeadcountsAgree ==
    LET s == EmployeeSummary
        groups(S) == SumFunction([g \in S |-> g.count])
        named == {g \in s.departmentBreakdown : g.department # Unknown}
    IN  /\ groups(s.departmentBreakdown) = Cardinality(EmployeeReport(DOMAIN departments))
        /\ groups(s.positionBreakdown) = s.totalEmployees
        /\ s.totalEmployees = EmployeeTotal
        /\ groups(named) = DepartmentSummary.totalEmployees
        /\ groups(named) = Cardinality(EmployeeReport(LiveIds(departments)))
        /\ \A d \in LiveIds(departments) :
              /\ Distribution[d] <= EmployeeCount(d)
              /\ (\A e \in DOMAIN employees : employees[e].department = d =>
                        e \in FindEmployeeById(e))
                 => Distribution[d] = EmployeeCount(d)
        /\ \A d \in DepartmentSummary.largestDept :
              DepartmentSummary.totalDepartments * Distribution[d]
                >= DepartmentSummary.totalEmployees
        /\ \A u \in DOMAIN users : Cardinality(FindEmployeeByUser(u)) <= 1
        /\ UserSummary.totalUsers = Cardinality(FindUsers(None, None))
        /\ (\A r \in LiveIds(roles) : Upper[roles[r].name] = roles[r].name) =>
              \A n \in RoleNames : Cardinality(FindUsers(None, n)) <= UserSummary.roleCount[Upper[n]]
=============================================================================
