--------------------------- MODULE PayrollReports ---------------------------
(***************************************************************************)
(* What is told of the payrolls: the queries of PayrollsService (lists,    *)
(* getSummaryAsync, getMePayslipsAsync, the printed payslip) and the       *)
(* payroll part of ReportsService.  A query in one round trip is an        *)
(* operator over the tables of Payrolls.  getComprehensiveReportData       *)
(* counts in two more round trips after its first one, so it is a process  *)
(* that the handlers of Payrolls interleave with.                          *)
(*                                                                         *)
(* A period is a calendar month and all of Periods one year, so that the   *)
(* date range of a query is a set R of periods.                            *)
(***************************************************************************)
EXTENDS Payrolls, Functions

CONSTANTS
    DepartmentOf,   \* the department of each employee
    BracketName     \* the bracketName of the tax brackets

\* What is added up per employee, per month or per payroll is finite.
ASSUME PayrollReportsAssumption ==
    /\ DOMAIN DepartmentOf = Employees
    /\ IsFiniteSet(Employees) /\ IsFiniteSet(Periods) /\ IsFiniteSet(Payrolls)

VARIABLE report     \* the getComprehensiveReportData in flight: its period, the
                    \* payrolls of it when the PENDING ones were counted (live),
                    \* and those that were (pending)

reportVars == <<payrolls, items, taxCalc, handler, contentions, doubled, report>>

NoReport == [pc |-> "idle"]

-----------------------------------------------------------------------------
(* Lists *)

Total(F(_), S) == SumFunction([i \in S |-> F(i)])

Gross(i) == payrolls[i].gross
Deductions(i) == payrolls[i].ded
NetSalary(i) == payrolls[i].net

\* findAllAsync and findAllPaginatedAsync; E, S and R are everything where the
\* query names no employee, status or month.
FindAll(E, S, R) ==
    {i \in Payrolls : /\ Visible(i)
                      /\ payrolls[i].emp \in E
                      /\ payrolls[i].status \in S
                      /\ payrolls[i].period \in R}

\* findByIdAsync, for the owner getMyPayrollByIdAsync: at most one payroll.
FindById(i) == {j \in {i} : Visible(j)}
GetMyPayrollById(e, i) == {j \in {i} : payrolls[j].row = "live" /\ payrolls[j].emp = e}

\* Faulty variant: deleted payrolls are reported.
ReportRowsOfAll(R, D, S) ==
    {i \in Payrolls : /\ Exists(i)
                      /\ payrolls[i].period \in R
                      /\ payrolls[i].status \in S
                      /\ DepartmentOf[payrolls[i].emp] \in D}

\* getPayrollReportData, its pages and its export.
ReportRows(R, D, S) ==
    {i \in Payrolls : /\ Visible(i)
                      /\ payrolls[i].period \in R
                      /\ payrolls[i].status \in S
                      /\ DepartmentOf[payrolls[i].emp] \in D}

-----------------------------------------------------------------------------
(* Payslips *)

\* What the item named 'Tax' holds: an item bears the name of its bracket.
NamedTax(i) == IF BracketName = "Tax" THEN items[i].tax ELSE 0

\* A record of getMePayslipsAsync.
Payslip(i) ==
    [gross_salary |-> Gross(i),
     total_deductions |-> NamedTax(i) + Deductions(i),
     net_salary |-> NetSalary(i)]

\* getMePayslipsAsync of a year: the records and what they come to.
MePayslips(e, R) ==
    LET mine == FindAll({e}, Statuses, R)
    IN  [records |-> [i \in mine |-> Payslip(i)],
         total_gross |-> Total(Gross, mine),
         total_tax |-> Total(NamedTax, mine),
         total_net |-> Total(NetSalary, mine)]

-----------------------------------------------------------------------------
(* Summaries *)

\* getSummaryAsync of a year or a month, of all departments or one.
Summary(R, D) ==
    LET found == {i \in FindAll(Employees, Statuses, R) :
                    DepartmentOf[payrolls[i].emp] \in D}
        with(s) == {i \in found : payrolls[i].status = s}
        of(d) == {i \in found : DepartmentOf[payrolls[i].emp] = d}
    IN  [totalPayrolls |-> Cardinality(found),
         totalGrossSalary |-> Total(Gross, found),
         totalDeductions |-> Total(Deductions, found),
         totalNetSalary |-> Total(NetSalary, found),
         totalTax |-> Total(NamedTax, found),
         byStatus |-> [s \in {payrolls[i].status : i \in found} |->
            [count |-> Cardinality(with(s)),
             totalAmount |-> Total(NetSalary, with(s))]],
         byDepartment |-> [d \in {DepartmentOf[payrolls[i].emp] : i \in found} |->
            [employeeCount |-> Cardinality({payrolls[i].emp : i \in of(d)}),
             totalSalary |-> Total(Gross, of(d)),
             totalDeductions |-> Total(Deductions, of(d)),
             totalNetSalary |-> Total(NetSalary, of(d))]]]

\* getPayrollSummaryReportData, and its export: payrolls that overlap the range R,
\* and the amounts of the last months, here all of Periods.
PayrollSummary(R) ==
    LET found == FindAll(Employees, Statuses, R)
        of(d) == {i \in found : DepartmentOf[payrolls[i].emp] = d}
    IN  [totalPayroll |-> Total(NetSalary, found),
         totalDeductions |-> Total(Deductions, found),
         departmentPayroll |->
            [d \in {DepartmentOf[payrolls[i].emp] : i \in found} |->
                Total(NetSalary, of(d))],
         payrollTrend |-> [m \in Periods |->
            Total(NetSalary, FindAll(Employees, Statuses, {m}))]]

-----------------------------------------------------------------------------
(* getComprehensiveReportData of a month: the payrolls are counted and added *)
(* up in one round trip with the rest of the report, those that are PENDING  *)
(* in a second and those that are PROCESSED in a third.                      *)

\* Faulty variant: the two counts are taken the other way round.
CountedInReverse(d, s) ==
    FindAll(Employees, {"PENDING", "PROCESSED"} \ {s}, {d})

\* The payrolls of a month with a status, as one of the counts finds them.
Counted(d, s) == FindAll(Employees, {s}, {d})

PayrollStats(d) ==
    LET found == FindAll(Employees, Statuses, {d})
    IN  [totalPayrolls |-> Cardinality(found),
         totalNetSalary |-> Total(NetSalary, found)]

\* The round trip before it gave totalPayrolls and totalNetSalary, PayrollStats of
\* that moment, which nothing here depends on.
CountPending(d) ==
    /\ report.pc = "idle"
    /\ report' = [pc |-> "counting", period |-> d,
                  live |-> FindAll(Employees, Statuses, {d}),
                  pending |-> Counted(d, "PENDING")]
    /\ UNCHANGED vars

\* The reply: pendingPayrolls and processedPayrolls are the sizes of
\* report.pending and of Reported.
Reported == Counted(report.period, "PROCESSED")

CountProcessed ==
    /\ report.pc = "counting"
    /\ report' = NoReport
    /\ UNCHANGED vars

-----------------------------------------------------------------------------

ReportInit == Init /\ report = NoReport

ReportNext ==
    \/ Next /\ UNCHANGED report
    \/ \E d \in Periods : CountPending(d)
    \/ CountProcessed

ReportSpec == ReportInit /\ [][ReportNext]_reportVars

-----------------------------------------------------------------------------
(* Properties *)

\* A report that is counting while payrolls are finalized, paid, moved or deleted
\* leaves none out: one that is in the month at both counts and not yet paid is among
\* the pending or the processed ones, because PENDING is counted first and no payroll
\* returns to it (getComprehensiveReportData).
ReportMissesNone ==
    report.pc = "counting" =>
        \A i \in report.live :
            /\ Visible(i)
            /\ payrolls[i].period = report.period
            /\ payrolls[i].status # "PAID"
            => i \in report.pending \cup Reported

\* The reports, each with a query of its own, tell the same story of a month and of
\* the year: getSummaryAsync, getMePayslipsAsync of everybody and the two reports
\* of ReportsService come to the same totals, and what is paid out is what is left
\* of the gross incomes after the tax and the deductions of every payslip.
\* (They read the tables alone, so the states with a count in flight add nothing.)
SummariesAgree ==
  report = NoReport =>
    LET D == {DepartmentOf[e] : e \in Employees}
        trend == PayrollSummary(Periods).payrollTrend
    IN  \A R \in {{d} : d \in Periods} \cup {Periods} :
            LET s == Summary(R, D)
                rows == ReportRows(R, D, Statuses)
                slips == [e \in Employees |-> MePayslips(e, R)]
            IN  /\ s.totalPayrolls = Cardinality(rows)
                /\ s.totalNetSalary = Total(NetSalary, rows)
                /\ s.totalNetSalary = SumFunction([d \in R |-> trend[d]])
                /\ s.totalNetSalary = SumFunction([e \in Employees |-> slips[e].total_net])
                /\ s.totalTax = SumFunction([e \in Employees |-> slips[e].total_tax])
                /\ s.totalNetSalary = s.totalGrossSalary - s.totalDeductions
                                        - SumFunction([i \in rows |-> items[i].tax])

\* "Tax from items": what a payslip deducts is the difference between its gross and
\* its net salary (getMePayslipsAsync, generatePdfBuffer).
PayslipAddsUp ==
    \A e \in Employees :
        LET slips == MePayslips(e, Periods).records
        IN  \A i \in DOMAIN slips :
                slips[i].net_salary = slips[i].gross_salary - slips[i].total_deductions
=============================================================================
