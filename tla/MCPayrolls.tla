----------------------------- MODULE MCPayrolls -----------------------------
(* Payrolls for TLC: one employee, two periods, a table without a match and  *)
(* one whose bracket takes 1 from an income of at least 2.                   *)
EXTENDS PayrollReports, TLC

MCTaxDue(t, g) == IF t = "taxed" /\ g >= 2 THEN 1 ELSE 0
MCDepartmentOf == [e \in Employees |-> "Sales"]
Symmetric == Permutations(Payrolls) \cup Permutations(Procs) \cup Permutations(Periods)
=============================================================================
