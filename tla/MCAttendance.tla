---------------------------- MODULE MCAttendance ----------------------------
(* Attendance for TLC: one employee and one day of three hours, of which one *)
(* is work and what is beyond it overtime.                                   *)
EXTENDS AttendanceReports, TLC

MCDueAt == [e \in Employees |-> 1]
MCKindOf == [t \in Tokens |-> "IN"]
Symmetric == Permutations(Rows) \cup Permutations(Procs)
=============================================================================
