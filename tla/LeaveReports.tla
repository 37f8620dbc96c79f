---------------------------- MODULE LeaveReports ----------------------------
(***************************************************************************)
(* What is told of leave requests and balances: the queries of             *)
(* LeavesService and LeaveBalancesService, the leave reports of            *)
(* ReportsService and the counts of DashboardService, each with queries of *)
(* its own over the tables of Leaves.  Every operator is one of them, the  *)
(* range of creation dates it is asked for holding every request.          *)
(***************************************************************************)
EXTENDS Leaves

\* What is added up per employee, type and year is finite.
ASSUME LeaveReportsAssumption ==
    IsFiniteSet(Employees) /\ IsFiniteSet(LeaveTypes) /\ IsFiniteSet(Years)

\* Faulty variant: the last day is not counted.
TotalDaysShort(l) == l.to - l.from

\* Math.ceil over the stored dates, plus one: total_days of a record, and diffDays of
\* getLeaveReportData.
TotalDays(l) == l.to - l.from + 1

\* What is left, as the replies compute it.
AvailableDays(b) == b.total - b.used - b.pending

-----------------------------------------------------------------------------
(* LeavesService                                                             *)

\* The where clause of findAllPaginatedAsync: E, T and S are everything where the
\* query names no employee, leave type or status.
FindAll(E, T, S) ==
    {r \in Requests : /\ Visible(r)
                      /\ requests[r].leave.emp \in E
                      /\ requests[r].leave.type \in T
                      /\ requests[r].status \in S}

\* findOneByIdAsync, and getMyLeaveRequestByIdAsync of employee e.
FindOneById(r) == {q \in {r} : Visible(q)}
GetMyLeaveRequestById(e, r) == {q \in FindOneById(r) : requests[q].leave.emp = e}

CountIn(S, s) == Cardinality({r \in S : requests[r].status = s})

\* total_requests respects the status of the query, the other counts do not.
LeaveSummary(E, T, S) ==
    LET all == FindAll(E, T, Statuses)
    IN  [total_requests |-> Cardinality(FindAll(E, T, S)),
         pending_count |-> CountIn(all, "PENDING"),
         approved_count |-> CountIn(all, "APPROVED"),
         rejected_count |-> CountIn(all, "REJECTED")]

\* getMyLeaveRequestsAsync
MyLeaveRequests(e, S) ==
    [records |-> [r \in FindAll({e}, LeaveTypes, S) |->
        [leave_type |-> requests[r].leave.type,
         year |-> YearOf[requests[r].leave.from],
         total_days |-> TotalDays(requests[r].leave),
         status |-> requests[r].status]],
     summary |-> LeaveSummary({e}, LeaveTypes, S)]

\* getMyLeaveBalancesAsync
MyLeaveBalances(e, y) ==
    [t \in {u \in LeaveTypes : balances[<<e, u, y>>].row = "live"} |->
        LET b == balances[<<e, t, y>>]
        IN  [total_days |-> b.total, used_days |-> b.used, pending_days |-> b.pending,
             available_days |-> AvailableDays(b)]]

-----------------------------------------------------------------------------
(* LeaveBalancesService, ReportsService and DashboardService                 *)

\* findAllAsync and findByEmployeeAsync
FindBalances(E, T, Y) ==
    [k \in {j \in Keys : /\ balances[j].row = "live"
                         /\ j[1] \in E /\ j[2] \in T /\ j[3] \in Y} |->
        [totalDays |-> balances[k].total, usedDays |-> balances[k].used,
         pendingDays |-> balances[k].pending, availableDays |-> AvailableDays(balances[k])]]

\* getLeaveUtilizationData, its pages and its export: every balance that is not deleted.
LeaveUtilization ==
    [k \in {j \in Keys : balances[j].row = "live"} |->
        [total |-> balances[k].total, used |-> balances[k].used,
         pending |-> balances[k].pending,
         remaining |-> balances[k].total - balances[k].used - balances[k].pending]]

\* getLeaveReportData and its export.  totalLeaveDays over the approved requests is
\* the average.
LeaveReport ==
    LET all == FindAll(Employees, LeaveTypes, Statuses)
        approved == FindAll(Employees, LeaveTypes, {"APPROVED"})
    IN  [totalRequests |-> Cardinality(all),
         approvedRequests |-> CountIn(all, "APPROVED"),
         rejectedRequests |-> CountIn(all, "REJECTED"),
         pendingRequests |-> CountIn(all, "PENDING"),
         totalLeaveDays |->
            SumFunction([r \in approved |-> TotalDays(requests[r].leave)]),
         leaveTypeBreakdown |-> [t \in LeaveTypes |->
            Cardinality({r \in all : requests[r].leave.type = t})]]

\* The leave part of getComprehensiveReportData, and pendingLeaveRequests of
\* getStatsAsync and getTodayStateAsync.
LeaveCount(s) == CountIn(FindAll(Employees, LeaveTypes, Statuses), s)

-----------------------------------------------------------------------------
(* Properties *)

\* The total_days of the records of type t and year y with a status in S, in the list
\* of employee e.
RecordedDays(e, t, y, S) ==
    LET records == MyLeaveRequests(e, Statuses).records
        counted == {r \in DOMAIN records : /\ records[r].leave_type = t
                                           /\ records[r].year = y
                                           /\ records[r].status \in S}
    IN  SumFunction([r \in counted |-> records[r].total_days])

\* As long as no two handlers hold one request, an employee's list of requests, the
\* balances and the leave report tell the same story, although they count days in
\* code of their own: the total_days of the approved records of a balance are its
\* used days, those still to decide its pending ones, and the average of the report
\* is over the used days (of balances that are not deleted).
RequestsExplainBalances ==
    LET shown(e, y) == MyLeaveBalances(e, y)
        all == FindBalances(Employees, LeaveTypes, Years)
    IN  contentions = 0 =>
            /\ \A e \in Employees, y \in Years : \A t \in DOMAIN shown(e, y) :
                  /\ shown(e, y)[t].used_days = RecordedDays(e, t, y, {"APPROVED"})
                  /\ shown(e, y)[t].pending_days =
                        RecordedDays(e, t, y, Statuses \ {"APPROVED", "REJECTED"})
                  /\ shown(e, y)[t].available_days =
                        FindBalances({e}, {t}, {y})[<<e, t, y>>].availableDays
                  /\ shown(e, y)[t].available_days = LeaveUtilization[<<e, t, y>>].remaining
            /\ (\A k \in Keys : balances[k].row # "deleted") =>
                  LeaveReport.totalLeaveDays = SumFunction([k \in DOMAIN all |-> all[k].usedDays])
            /\ LeaveReport.totalRequests = SumFunction(LeaveReport.leaveTypeBreakdown)
            /\ LeaveReport.pendingRequests =
                  SumFunction([e \in Employees |->
                                  MyLeaveRequests(e, Statuses).summary.pending_count])
=============================================================================
