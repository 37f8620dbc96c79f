------------------------------ MODULE MCLeaves ------------------------------
(* Leaves for TLC: one employee, an annual and an unpaid balance.            *)
EXTENDS LeaveReports, TLC

MCDays == 1..2
MCYearOf == [d \in MCDays |-> 2026]
MCDefaultDays == "ANNUAL_LEAVE" :> 2
Symmetric == Permutations(Requests) \cup Permutations(Procs)
=============================================================================
