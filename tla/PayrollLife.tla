----------------------------- MODULE PayrollLife -----------------------------
(***************************************************************************)
(* What PayrollsService promises of its payrolls, each operation one step: *)
(* a payroll is drafted, edited for as long as it is PENDING, finalized    *)
(* and paid, or deleted instead of being finalized.                        *)
(*                                                                         *)
(* Two things that the service does not prevent are part of the promise.   *)
(* Once two requests have held one payroll at the same time, an edit, a    *)
(* finalization and a deletion may come late and an edit may leave another *)
(* tax on file.  Once two drafts of an employee have been under way at the *)
(* same time, or a payroll was moved to another period, an employee may    *)
(* have two payrolls of one period.  Whatever happens, nothing is PENDING  *)
(* again, only what was processed is paid, a deletion is final, a payroll  *)
(* stays its employee's and the lines of a payslip add up.                 *)
(***************************************************************************)
EXTENDS Integers

CONSTANTS
    Payrolls,
    Employees,
    Periods,
    NoPayslip

VARIABLES
    stage,      \* of each payroll: "none", a status or "deleted"
    payslip,    \* the lines of each
    filed,      \* the tax on file for each, 0 if there is none
    contended,  \* two requests have held one payroll at the same time
    doubled     \* two drafts of an employee at once, or a payroll moved

vars == <<stage, payslip, filed, contended, doubled>>

Payslip == [emp : Employees, period : Periods,
            gross : Nat, tax : Nat, ded : Nat, net : Int]

Init ==
    /\ stage = [i \in Payrolls |-> "none"]
    /\ payslip = [i \in Payrolls |-> NoPayslip]
    /\ filed = [i \in Payrolls |-> 0]
    /\ contended = FALSE
    /\ doubled = FALSE

Current(i) == stage[i] \in {"PENDING", "PROCESSED", "PAID"}

Move(i, to) == stage' = [stage EXCEPT ![i] = to]

\* Payslip i becomes s, with n on file.
Write(i, s, n) ==
    /\ s \in Payslip
    /\ s.net = s.gross - (s.tax + s.ded)
    /\ n \in Nat
    /\ payslip' = [payslip EXCEPT ![i] = s]
    /\ filed' = [filed EXCEPT ![i] = n]

Draft(i) ==
    LET s == payslip'[i]
    IN  /\ stage[i] = "none"
        /\ Move(i, "PENDING")
        /\ Write(i, s, s.tax)
        /\ doubled \/ \A j \in Payrolls :
              Current(j) => payslip[j].emp # s.emp \/ payslip[j].period # s.period
        /\ UNCHANGED <<contended, doubled>>

Edit(i) ==
    LET s == payslip'[i]
    IN  /\ stage[i] = "PENDING" \/ (contended /\ stage[i] # "none")
        /\ s.emp = payslip[i].emp
        /\ doubled' = (doubled \/ s.period # payslip[i].period)
        /\ Write(i, s, filed'[i])
        /\ contended \/ filed'[i] = s.tax
        /\ UNCHANGED <<stage, contended>>

Finalize(i) ==
    /\ stage[i] = "PENDING" \/ (contended /\ Current(i))
    /\ Move(i, "PROCESSED")
    /\ UNCHANGED <<payslip, filed, contended, doubled>>

Pay(i) ==
    /\ stage[i] = "PROCESSED"
    /\ Move(i, "PAID")
    /\ UNCHANGED <<payslip, filed, contended, doubled>>

Delete(i) ==
    /\ stage[i] = "PENDING" \/ (contended /\ Current(i))
    /\ Move(i, "deleted")
    /\ UNCHANGED <<payslip, filed, contended, doubled>>

Contend == contended' = TRUE /\ UNCHANGED <<stage, payslip, filed, doubled>>

Double == doubled' = TRUE /\ UNCHANGED <<stage, payslip, filed, contended>>

Next ==
    \/ \E i \in Payrolls : Draft(i) \/ Edit(i) \/ Finalize(i) \/ Pay(i) \/ Delete(i)
    \/ Contend
    \/ Double

Spec == Init /\ [][Next]_vars
=============================================================================
