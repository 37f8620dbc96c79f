------------------------------ MODULE Payrolls ------------------------------
(***************************************************************************)
(* The life of a payroll in PayrollsService: createDraftAsync (alone or    *)
(* from generateBulkAsync), updateAsync, finalizeAsync, markAsPaidAsync    *)
(* and deleteAsync, over the tables payrolls, payroll_items and            *)
(* tax_calculations.                                                       *)
(*                                                                         *)
(* Each handler reads the payroll and checks its status in one round trip  *)
(* and writes in a later one without looking again.  A sheet is what the   *)
(* calculation arrives at: gross income (salary, overtime and bonus), the  *)
(* total of the matching tax brackets and the other deductions; how it is  *)
(* calculated is module Generation.  The transactions of createDraftAsync  *)
(* and updateAsync write the payroll row first, which locks it, so each is *)
(* one step.                                                               *)
(***************************************************************************)
EXTENDS Integers, FiniteSets

CONSTANTS
    Employees,      \* employee ids
    Periods,        \* (payPeriodStart, payPeriodEnd) pairs, the end after the start
    Amounts,        \* the gross incomes and deductions a request can lead to
    TaxTables,      \* the bracket tables and exchange rates that may be in force
    TaxDue(_, _),   \* total of the brackets of a table that match a gross income
    DeleteModes,    \* what client.delete does to a row: "soft" or "hard"
    Payrolls,       \* bound: the payroll ids that can be created
    Procs,          \* bound: the request handlers in flight at once
    MaxContentions  \* bound: how often a payroll is taken up while it is held

ASSUME PayrollsAssumption ==
    /\ Amounts \subseteq Nat
    /\ \A t \in TaxTables, g \in Amounts : TaxDue(t, g) \in Nat
    /\ DeleteModes \subseteq {"soft", "hard"}
    /\ MaxContentions \in Nat

VARIABLES
    payrolls,       \* payrolls by id
    items,          \* payroll_items that are not deleted, added up per payroll
    taxCalc,        \* the tax_calculations row of each payroll (payroll_id is unique)
    handler,        \* what each handler in flight has read and will write
    contentions,    \* history: how often two handlers came to hold one payroll
    doubled         \* history: two drafts of an employee in flight at once, or a
                    \* period changed by updateAsync

vars == <<payrolls, items, taxCalc, handler, contentions, doubled>>

Statuses == {"PENDING", "PROCESSED", "PAID"}
Sheets == [gross : Nat, tax : Nat, ded : Nat]
Net(s) == s.gross - (s.tax + s.ded)

Idle == [pc |-> "idle"]
NoPayroll == [row |-> "none"]
NoItems == [gross |-> 0, tax |-> 0, ded |-> 0]
NoTaxCalc == [row |-> "none", amount |-> 0]

\* gross stands for basic_salary, overtime and bonus, processed for processed_at.
Payroll == [row : {"live", "deleted"}, emp : Employees, period : Periods,
            gross : Nat, ded : Nat, net : Int,
            status : Statuses, processed : BOOLEAN]

\* No tax calculation over nothing is stored.
TaxCalc == {c \in [row : {"none", "live", "deleted"}, amount : Nat] :
              c.row = "none" <=> c.amount = 0}

Handler ==
    [pc : {"drafting"}, emp : Employees, period : Periods, sheet : Sheets]
    \cup [pc : {"editing"}, id : Payrolls, period : Periods, sheet : Sheets,
          hadTax : BOOLEAN]
    \cup [pc : {"finalizing", "paying", "deleting"}, id : Payrolls]

TypeOK ==
    /\ payrolls \in [Payrolls -> Payroll \cup {NoPayroll}]
    /\ items \in [Payrolls -> Sheets]
    /\ taxCalc \in [Payrolls -> TaxCalc]
    /\ handler \in [Procs -> Handler \cup {Idle}]
    /\ contentions \in Nat
    /\ doubled \in BOOLEAN

Init ==
    /\ payrolls = [i \in Payrolls |-> NoPayroll]
    /\ items = [i \in Payrolls |-> NoItems]
    /\ taxCalc = [i \in Payrolls |-> NoTaxCalc]
    /\ handler = [p \in Procs |-> Idle]
    /\ contentions = 0
    /\ doubled = FALSE

-----------------------------------------------------------------------------

Exists(i) == payrolls[i] # NoPayroll
Visible(i) == payrolls[i].row = "live"

\* Faulty variant: finalized payrolls are not looked at.
HasPendingPayroll(e, d) ==
    \E i \in Payrolls : /\ Visible(i) /\ payrolls[i].status = "PENDING"
                       /\ payrolls[i].emp = e /\ payrolls[i].period = d

HasPayroll(e, d) ==
    \E i \in Payrolls :
        Visible(i) /\ payrolls[i].emp = e /\ payrolls[i].period = d

Drafting(e) ==
    \E q \in Procs : handler[q].pc = "drafting" /\ handler[q].emp = e

Holds(q, i) ==
    /\ handler[q].pc \in {"editing", "finalizing", "paying", "deleting"}
    /\ handler[q].id = i

\* bound: a payroll id is left for every draft in flight.
IdLeft ==
    Cardinality({i \in Payrolls : ~Exists(i)})
        > Cardinality({q \in Procs : handler[q].pc = "drafting"})

Goto(p, h) == handler' = [handler EXCEPT ![p] = h]

-----------------------------------------------------------------------------
(* createDraftAsync *)

\* Look for a payroll of the period, then calculate with the brackets in force.
CheckPeriod(p, e, d, g, x, t) ==
    /\ handler[p].pc = "idle"
    /\ IdLeft
    /\ ~HasPayroll(e, d)
    /\ Goto(p, [pc |-> "drafting", emp |-> e, period |-> d,
                sheet |-> [gross |-> g, tax |-> TaxDue(t, g), ded |-> x]])
    /\ doubled' = (doubled \/ Drafting(e))
    /\ UNCHANGED <<payrolls, items, taxCalc, contentions>>

\* Faulty variant: a tax calculation is stored for every payroll.
TaxCalcAlways(s) == [row |-> "live", amount |-> s.tax]

\* A tax calculation is stored only when some bracket matched.
TaxCalcOf(s) ==
    IF s.tax > 0 THEN [row |-> "live", amount |-> s.tax] ELSE NoTaxCalc

CommitDraft(p) ==
    LET h == handler[p]
    IN  /\ h.pc = "drafting"
        /\ \E i \in Payrolls :
              /\ ~Exists(i)
              /\ payrolls' = [payrolls EXCEPT ![i] =
                    [row |-> "live", emp |-> h.emp, period |-> h.period,
                     gross |-> h.sheet.gross, ded |-> h.sheet.ded,
                     net |-> Net(h.sheet), status |-> "PENDING",
                     processed |-> FALSE]]
              /\ items' = [items EXCEPT ![i] = h.sheet]
              /\ taxCalc' = [taxCalc EXCEPT ![i] = TaxCalcOf(h.sheet)]
        /\ Goto(p, Idle)
        /\ UNCHANGED <<contentions, doubled>>

-----------------------------------------------------------------------------
(* The handlers of an existing payroll: each reads it and checks its status  *)
(* before it writes.                                                         *)

Claim(p, i, s, h) ==
    /\ handler[p].pc = "idle"
    /\ Visible(i)
    /\ payrolls[i].status = s
    /\ Goto(p, h)
    /\ contentions' = IF \E q \in Procs : Holds(q, i)
                      THEN contentions + 1 ELSE contentions
    /\ contentions' <= MaxContentions
    /\ UNCHANGED <<payrolls, items, taxCalc, doubled>>

\* Faulty variant: the status is not checked.
ReadForUpdateOfAny(p, i, d, g, x, t) ==
    Claim(p, i, payrolls[i].status,
          [pc |-> "editing", id |-> i, period |-> d,
           sheet |-> [gross |-> g, tax |-> TaxDue(t, g), ded |-> x],
           hadTax |-> taxCalc[i].row # "none"])

\* updateAsync: d, g and x are what was just read where the request leaves them
\* out.  Another payroll of the employee in the period d is not looked for.
ReadForUpdate(p, i, d, g, x, t) ==
    Claim(p, i, "PENDING",
          [pc |-> "editing", id |-> i, period |-> d,
           sheet |-> [gross |-> g, tax |-> TaxDue(t, g), ded |-> x],
           hadTax |-> taxCalc[i].row # "none"])

ReadForFinalize(p, i) == Claim(p, i, "PENDING", [pc |-> "finalizing", id |-> i])

\* Faulty variant: a payroll is paid before it is finalized.
ReadForPaymentOfPending(p, i) == Claim(p, i, "PENDING", [pc |-> "paying", id |-> i])

ReadForPayment(p, i) == Claim(p, i, "PROCESSED", [pc |-> "paying", id |-> i])
ReadForDeletion(p, i) == Claim(p, i, "PENDING", [pc |-> "deleting", id |-> i])

\* tx.taxCalculation.delete of the row that was read: it throws when the row is
\* gone by now.
TaxCalcDeleted(c, mode) ==
    IF mode = "soft" THEN [c EXCEPT !.row = "deleted"] ELSE NoTaxCalc

\* Faulty variant: the old row stays when no bracket matches any more.
TaxCalcKept(c, hadTax, s) ==
    IF s.tax = 0 THEN {c} ELSE {TaxCalcOf(s)}

\* What the transaction leaves of row c, given whether updateAsync had read one:
\* a set that is empty when the transaction fails.  The unique payroll_id makes
\* the creation fail while any row, deleted or not, is there.
TaxCalcUpdates(c, hadTax, s) ==
    LET rest == IF hadTax
                THEN {TaxCalcDeleted(c, m) : m \in {n \in DeleteModes : c.row # "none"}}
                ELSE {c}
    IN  IF s.tax = 0 THEN rest
        ELSE {TaxCalcOf(s) : b \in {r \in rest : r.row = "none"}}

\* Faulty variant: net_salary is not written.
EditedWithoutNet(row, d, s) ==
    [row EXCEPT !.period = d, !.gross = s.gross, !.ded = s.ded]

\* The columns updateAsync writes: the status is not among them.
Edited(row, d, s) ==
    [row EXCEPT !.period = d, !.gross = s.gross, !.ded = s.ded, !.net = Net(s)]

CommitUpdate(p) ==
    LET h == handler[p]
        outcomes == TaxCalcUpdates(taxCalc[h.id], h.hadTax, h.sheet)
    IN  /\ h.pc = "editing"
        /\ \/ \E c \in outcomes :
                 /\ payrolls' = [payrolls EXCEPT ![h.id] =
                                    Edited(@, h.period, h.sheet)]
                 /\ items' = [items EXCEPT ![h.id] = h.sheet]
                 /\ taxCalc' = [taxCalc EXCEPT ![h.id] = c]
                 /\ doubled' = (doubled \/ h.period # payrolls[h.id].period)
           \/ /\ outcomes = {}
              /\ UNCHANGED <<payrolls, items, taxCalc, doubled>>
        /\ Goto(p, Idle)
        /\ UNCHANGED contentions

\* The last write of a handler that only touches the payroll row.
WriteRow(p, at, row) ==
    /\ handler[p].pc = at
    /\ payrolls' = [payrolls EXCEPT ![handler[p].id] = row]
    /\ Goto(p, Idle)
    /\ UNCHANGED <<items, taxCalc, contentions, doubled>>

\* finalizeAsync.  Its push notification follows and can only change the reply.
CommitFinalize(p) ==
    WriteRow(p, "finalizing",
        [payrolls[handler[p].id] EXCEPT !.status = "PROCESSED", !.processed = TRUE])

\* markAsPaidAsync
CommitPayment(p) ==
    WriteRow(p, "paying", [payrolls[handler[p].id] EXCEPT !.status = "PAID"])

\* deleteAsync marks the row itself, whatever client.delete does.
CommitDeletion(p) ==
    WriteRow(p, "deleting", [payrolls[handler[p].id] EXCEPT !.row = "deleted"])

-----------------------------------------------------------------------------

Next ==
    \E p \in Procs :
        \/ \E e \in Employees, d \in Periods, g, x \in Amounts, t \in TaxTables :
              CheckPeriod(p, e, d, g, x, t)
        \/ CommitDraft(p)
        \/ \E i \in Payrolls :
              \/ \E d \in Periods, g, x \in Amounts, t \in TaxTables :
                    ReadForUpdate(p, i, d, g, x, t)
              \/ ReadForFinalize(p, i)
              \/ ReadForPayment(p, i)
              \/ ReadForDeletion(p, i)
        \/ CommitUpdate(p)
        \/ CommitFinalize(p)
        \/ CommitPayment(p)
        \/ CommitDeletion(p)

Spec == Init /\ [][Next]_vars

-----------------------------------------------------------------------------
(* Properties *)

\* Whatever handlers interleave, the lines of a payslip add up to its payroll
\* row: gross and deductions agree and net_salary is what the items leave.
ItemsMatchRow ==
    \A i \in Payrolls : Exists(i) =>
        /\ payrolls[i].gross = items[i].gross
        /\ payrolls[i].ded = items[i].ded
        /\ payrolls[i].net = Net(items[i])

\* A payroll that is marked PAID was finalized: processed_at is set.
PaidWasProcessed ==
    \A i \in Payrolls :
        Exists(i) /\ payrolls[i].status = "PAID" => payrolls[i].processed

\* As long as no two handlers hold the same payroll, the tax calculation on file
\* is the tax on the payslip, and there is none when no tax is due.
TaxCalcMatchesItems ==
    contentions = 0 =>
        \A i \in Payrolls : Exists(i) =>
            IF items[i].tax = 0 THEN taxCalc[i].row # "live"
            ELSE taxCalc[i] = [row |-> "live", amount |-> items[i].tax]

\* createDraftAsync: absent two drafts at once and an updateAsync that moves a
\* payroll to another period, an employee has one payroll per period.
OnePayrollPerPeriod ==
    ~doubled =>
        \A i, j \in Payrolls :
            /\ Visible(i) /\ Visible(j)
            /\ payrolls[i].emp = payrolls[j].emp
            /\ payrolls[i].period = payrolls[j].period
            => i = j

\* A payroll that has left PENDING is never PENDING again, stale writers or not.
NeverReopened ==
    [][ \A i \in Payrolls :
          Exists(i) /\ payrolls[i].status # "PENDING"
          => payrolls'[i].status # "PENDING" ]_vars

\* As long as no two handlers hold the same payroll, nothing but its payment
\* happens to a payroll that has been finalized.
FinalizedIsFrozen ==
    [][ contentions' = 0 =>
          \A i \in Payrolls :
              Exists(i) /\ payrolls[i].status # "PENDING" =>
                  /\ items'[i] = items[i]
                  /\ payrolls'[i] \in {payrolls[i],
                                       [payrolls[i] EXCEPT !.status = "PAID"]} ]_vars

\* A payroll, its payslip and its tax as PayrollLife sees them.
Stage ==
    [i \in Payrolls |-> IF ~Exists(i) THEN "none"
                        ELSE IF Visible(i) THEN payrolls[i].status ELSE "deleted"]

Slip(i) ==
    [emp |-> payrolls[i].emp, period |-> payrolls[i].period, gross |-> items[i].gross,
     tax |-> items[i].tax, ded |-> items[i].ded, net |-> payrolls[i].net]

Payslips == [i \in Payrolls |-> IF Exists(i) THEN Slip(i) ELSE NoPayroll]

Filed == [i \in Payrolls |-> IF taxCalc[i].row = "live" THEN taxCalc[i].amount ELSE 0]

Contended == contentions > 0

Life == INSTANCE PayrollLife WITH
            stage <- Stage, payslip <- Payslips, filed <- Filed,
            contended <- Contended, NoPayslip <- NoPayroll

\* However the round trips of the handlers interleave, what becomes of the payrolls is
\* what operations in one step make of them: each write of a handler is one of them, or
\* changes nothing, and as long as no two handlers hold the same payroll it comes at the
\* stage that the handler had read.
LifeIsKept == Life!Spec
=============================================================================
