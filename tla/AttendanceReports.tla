-------------------------- MODULE AttendanceReports --------------------------
(***************************************************************************)
(* What is told of a day's attendance: the roll call and the summaries of  *)
(* AttendancesService, the attendance reports of ReportsService and the    *)
(* figures of DashboardService, each with queries of its own over the      *)
(* tables of Attendance.  Every operator is one of them, asked for the     *)
(* date of the model and for all employees.                                *)
(*                                                                         *)
(* Rows and leaves are counted whoever they are of, but each report has    *)
(* its own idea of who is expected: those on the roll, those who are       *)
(* ACTIVE, or everybody.  The status of an employee decides nothing else,  *)
(* and can be changed at any time: statusOf is what it is of each when the *)
(* report is asked for, and any assignment of statuses is possible.        *)
(***************************************************************************)
EXTENDS Attendance, Functions

ASSUME AttendanceReportsAssumption == IsFiniteSet(Employees) /\ IsFiniteSet(Rows)

EmployeeStatus == {"ACTIVE", "INACTIVE", "ON_LEAVE", "PROBATION", "TERMINATED"}

\* Who is listed in the roll call
OnRoll(statusOf) == {e \in Employees : statusOf[e] \in {"ACTIVE", "PROBATION", "ON_LEAVE"}}

\* Faulty variant: those on probation or on leave are not expected.
ExpectedIfActive(statusOf) == {e \in Employees : statusOf[e] = "ACTIVE"}

\* Who is expected by the attendance report
Expected(statusOf) == {e \in Employees : statusOf[e] \in {"ACTIVE", "PROBATION", "ON_LEAVE"}}

\* Who is expected by the list of a longer range
Active(statusOf) == {e \in Employees : statusOf[e] = "ACTIVE"}

\* The rows of the day with a status in S: one group of a groupBy, or a count.
With(S) == {r \in Rows : Exists(r) /\ rows[r].status \in S}

CountOf(S) == Cardinality(With(S))

\* The hours of the rows in S.
Worked(S) == SumFunction([r \in S |-> rows[r].worked])
Overtime(S) == SumFunction([r \in S |-> rows[r].overtime])

PresentStatuses == {"PRESENT", "LATE", "EARLY_OUT"}
Statuses == PresentStatuses \cup
    {"ABSENT", "EXCUSED", "OVERTIME", "ON_LEAVE", "DID_NOT_CHECKOUT"}

\* getTodayAttendance and findOneByIdAsync: one of these, if there is one.
TodayAttendance(e) == {rows[r] : r \in RowsOf(e)}

-----------------------------------------------------------------------------
(* findAllPaginatedAsync over a range of at most 30 days, for which           *)
(* rangeDaysCount is at most 31                                              *)

Virtual(s) == [status |-> s, worked |-> 0, overtime |-> 0]

\* What the list may show for an employee: the first row that is found, whichever
\* that is, else a made-up one.
Entries(e) ==
    IF RowsOf(e) # {}
    THEN {[status |-> rows[r].status, worked |-> rows[r].worked, overtime |-> rows[r].overtime] :
            r \in RowsOf(e)}
    ELSE {Virtual(IF Excused(e) THEN "ON_LEAVE" ELSE "ABSENT")}

\* The lists of the employees in D: the code's are those of OnRoll(statusOf).
RollCalls(D) ==
    {f \in [D -> UNION {Entries(e) : e \in D}] : \A e \in D : f[e] \in Entries(e)}

\* What is left of a list under a filter by status
Listed(f, S) == {e \in DOMAIN f : f[e].status \in S}

RollCallSummary(f) ==
    LET count(S) == Cardinality(Listed(f, S))
    IN  [daysPresent |-> count(PresentStatuses),
         lateCount |-> count({"LATE"}),
         daysAbsent |-> count({"ABSENT"}),
         daysOnLeave |-> count({"ON_LEAVE"}),
         totalHoursWorked |-> SumFunction([e \in DOMAIN f |-> f[e].worked]),
         totalOvertimeHours |-> SumFunction([e \in DOMAIN f |-> f[e].overtime])]

-----------------------------------------------------------------------------
(* getAttendanceReportData, and findAllPaginatedAsync over a longer range     *)

\* Faulty variant: a leave counts although its employee showed up.
LeaveDaysOfAll == Cardinality({e \in Employees : Excused(e)})

\* The leave set: showing up takes priority.
LeaveDays == Cardinality({e \in Employees : Excused(e) /\ RowsOf(e) = {}})

\* Math.ceil over the time from 00:00 to 23:59:59.999, plus one, for n days.
RangeDaysCount(n) == n + 1

\* Who was marked absent, and who is expected and neither there nor on leave.
Absences(expected) ==
    LET missing == expected - CountOf(PresentStatuses) - LeaveDays - CountOf({"ABSENT"})
    IN  CountOf({"ABSENT"}) + (IF missing > 0 THEN missing ELSE 0)

AttendanceReport(statusOf) ==
    LET expected == Cardinality(Expected(statusOf)) * RangeDaysCount(1)
    IN  [totalDays |-> expected,
         presentDays |-> CountOf({"PRESENT", "EARLY_OUT"}),
         lateDays |-> CountOf({"LATE"}),
         leaveDays |-> LeaveDays,
         absentDays |-> Absences(expected),
         totalOvertimeHours |-> Overtime({r \in Rows : Exists(r)})]

\* The list over n days, the date of the model among n - 1 on which there is nothing:
\* the hours are those of the rows it shows, with a status in S, the counts are not.
LongRollCall(n, S, statusOf) ==
    [daysPresent |-> CountOf(PresentStatuses),
     lateCount |-> CountOf({"LATE"}),
     daysAbsent |-> Absences(Cardinality(Active(statusOf)) * RangeDaysCount(n)),
     daysOnLeave |-> LeaveDays,
     totalHoursWorked |-> Worked(With(S)),
     totalOvertimeHours |-> Overtime(With(S))]

\* getAttendanceSummaryData and the attendance part of getComprehensiveReportData.
AttendanceSummary(s) == CountOf({s})

-----------------------------------------------------------------------------
(* DashboardService                                                          *)

\* getStatsAsync: everybody is expected, as no code clears isActive of an employee.  It
\* counts leaves, of which an employee has one over the day: two, which creations that
\* overlap in time can leave behind (crowded in Leaves), are not modelled here.
Stats ==
    LET present == CountOf(PresentStatuses)
        absent == Cardinality(Employees) - present - Cardinality(onLeave)
    IN  [presentToday |-> present,
         lateToday |-> CountOf({"LATE"}),
         onLeave |-> Cardinality(onLeave),
         absentToday |-> IF absent > 0 THEN absent ELSE 0]

\* getTodayStateAsync
TodayState == [presentCount |-> CountOf({"PRESENT", "LATE"}),
               onLeaveCount |-> Cardinality(onLeave)]

\* getAttendanceTrendAsync, its item for the day.
TrendItem == [present |-> CountOf(PresentStatuses),
              absent |-> CountOf({"ABSENT"}),
              late |-> CountOf({"LATE"}),
              onLeave |-> Cardinality(onLeave)]

-----------------------------------------------------------------------------
(* getMeAttendance and getMeAttendanceSummary                                *)

\* The records of getMeAttendance; S is every status where the query names none.
MeAttendance(e, S) == RowsOf(e) \cap With(S)

\* Their summary, the same as getMeAttendanceSummary.
MeSummary(e, S) ==
    LET mine == MeAttendance(e, S)
        count(T) == Cardinality({r \in mine : rows[r].status \in T})
    IN  [totalDays |-> Cardinality(mine),
         daysPresent |-> count(PresentStatuses),
         daysAbsent |-> count({"ABSENT"}),
         daysOnLeave |-> IF Excused(e) THEN 1 ELSE 0,
         lateCount |-> count({"LATE"}),
         totalHoursWorked |-> Worked(mine),
         totalOvertimeHours |-> Overtime(mine)]

-----------------------------------------------------------------------------
(* Properties *)

\* As long as rows are not doubled, whatever the status of each employee, everyone on
\* the roll is in one place of the roll call f, and every other report can be explained
\* by it and by g, the roll call of those off the roll, which nobody is shown.  The
\* attendance report, the longer list and the dashboard count whoever came, was on
\* leave or worked, on the roll or off it, and so do the employees' own summaries.  Who
\* is missing they take from the number of days of work they expect: the report and the
\* list one day too many of everyone on the roll, or of everyone who is ACTIVE; both
\* count someone whom handleAutoCheckout reported as DID_NOT_CHECKOUT as missing, and
\* make up for it by those off the roll who came or are on leave.  The dashboard expects
\* everybody, and takes off the leave of someone who came all the same once more.
ReportsAgree ==
    ~raced => \A statusOf \in [Employees -> EmployeeStatus] :
        \A f \in RollCalls(OnRoll(statusOf)), g \in RollCalls(Employees \ OnRoll(statusOf)) :
            LET s == RollCallSummary(f)
                o == RollCallSummary(g)
                unfinished(h) == Cardinality(Listed(h, {"DID_NOT_CHECKOUT"}))
                roll == Cardinality(OnRoll(statusOf))
                missing(expected) ==
                    LET n == s.daysAbsent + unfinished(f) + (expected - roll)
                               - (o.daysPresent + o.daysOnLeave)
                        absent == AttendanceSummary("ABSENT")
                    IN  IF n > absent THEN n ELSE absent
                report == AttendanceReport(statusOf)
                long == LongRollCall(32, Statuses, statusOf)
                own == [e \in Employees |-> MeSummary(e, Statuses)]
            IN  /\ s.daysPresent + s.daysAbsent + s.daysOnLeave + unfinished(f) = roll
                /\ report.presentDays + report.lateDays = s.daysPresent + o.daysPresent
                /\ report.leaveDays = s.daysOnLeave + o.daysOnLeave
                /\ report.absentDays = missing(2 * roll)
                /\ long.daysPresent = s.daysPresent + o.daysPresent
                /\ long.daysOnLeave = s.daysOnLeave + o.daysOnLeave
                /\ long.daysAbsent = missing(33 * Cardinality(Active(statusOf)))
                /\ long.totalHoursWorked = s.totalHoursWorked + o.totalHoursWorked
                /\ Stats.presentToday = s.daysPresent + o.daysPresent
                /\ Stats.absentToday
                      <= (s.daysAbsent + unfinished(f)) + (o.daysAbsent + unfinished(g))
                /\ TodayState.presentCount = s.daysPresent + o.daysPresent
                /\ TrendItem.present = s.daysPresent + o.daysPresent
                /\ TrendItem.late = s.lateCount + o.lateCount
                /\ TrendItem.absent <= s.daysAbsent + o.daysAbsent
                /\ SumFunction([e \in Employees |-> own[e].daysPresent])
                      = s.daysPresent + o.daysPresent
                /\ SumFunction([e \in Employees |-> own[e].totalHoursWorked])
                      = s.totalHoursWorked + o.totalHoursWorked
                /\ SumFunction([e \in Employees |-> own[e].totalOvertimeHours])
                      = report.totalOvertimeHours
=============================================================================
