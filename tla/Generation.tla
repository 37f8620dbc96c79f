----------------------------- MODULE Generation -----------------------------
(***************************************************************************)
(* Bulk generation of the payrolls of one period: generateBulkAsync with   *)
(* createDraftAsync for every employee, the tax calculation that reads the *)
(* brackets and the exchange rates (ExchangeRatesService), and the edits   *)
(* of both tables (TaxBracketsService) that can happen meanwhile.          *)
(*                                                                         *)
(* A run is a process with one step per query whose answer can change.     *)
(* Brackets are in the currency of the payroll or in one other.  Payrolls  *)
(* only appear here; what happens to them later is module Payrolls.        *)
(***************************************************************************)
EXTENDS Integers, FiniteSets, Functions

CONSTANTS
    Employees,      \* ids of the active employees
    Exempt,         \* those whose tax configuration exempts them
    Income,         \* gross income of each: salary and overtime
    Approved,       \* approved leave requests
    LeaveTypes,     \* members of enum LeaveType
    Period,         \* payPeriodStart and payPeriodEnd, as days
    AutoCalculate,  \* dto.autoCalculate
    Brackets,       \* ids of the brackets of the country and year
    Bracket,        \* the columns of each, the rate in per cent
    Rates,          \* exchange rates that can be saved
    Opening,        \* the tables when the first run begins
    MaxEdits,       \* bound: edits of rates and brackets
    Faults,         \* {FALSE}, or BOOLEAN when a query may fail
    Runs,           \* calls of generateBulkAsync
    Selected        \* the active employees that each is for

ASSUME GenerationAssumption ==
    /\ Income \in [Employees -> Nat]
    /\ Exempt \subseteq Employees
    /\ Period \in [from : Int, to : Int]
    /\ Approved \subseteq [emp : Employees, type : LeaveTypes, from : Int, to : Int]
    /\ IsFiniteSet(Approved)
    /\ AutoCalculate \in BOOLEAN
    /\ IsFiniteSet(Brackets)
    /\ Bracket \in [Brackets -> [min : Nat, max : Nat, pct : Nat, fixed : Int,
                                 foreign : BOOLEAN]]
    /\ Rates \subseteq Nat \ {0}
    /\ Opening \subseteq [brackets : SUBSET Brackets,
                          latest : [{"direct", "inverse"} -> Rates \cup {0}]]
    /\ MaxEdits \in Nat
    /\ Faults \subseteq BOOLEAN
    /\ Selected \in [Runs -> SUBSET Employees]

Directions == {"direct", "inverse"}

VARIABLES
    brackets,   \* ids of the tax_brackets that are not deleted
    latest,     \* exchange_rates: the latest rate each way, None without one
    payrolls,   \* the payrolls of the period
    run,        \* what each run has read and counted
    edits,      \* bound: edits so far
    together    \* history: the pairs of runs that were at work at once

vars == <<brackets, latest, payrolls, run, edits, together>>

None == 0
NoRate == [num |-> 1, den |-> 1]
Idle == [pc |-> "idle"]

\* A rate as a fraction: what 1 of the payroll's currency is in the other.
Quotes == [num : Nat \ {0}, den : Nat \ {0}]

\* amount: in hundredths of the payroll's currency.
Lines == [bracket : Brackets, rate : Quotes, amount : Nat]

\* days: unpaid leave deducted; odd: a rate was saved, or could not be read,
\* during the calculation; quoted: the rates when it began.
Payroll == [emp : Employees, by : Runs, gross : Nat, days : Nat,
            table : SUBSET Brackets, lines : SUBSET Lines,
            quoted : [Directions -> Rates \cup {None}], odd : BOOLEAN]

Count == [todo : SUBSET Employees, generated : SUBSET Employees,
          skipped : SUBSET Employees, failed : SUBSET Employees]

Run == [pc : {"loop"}, count : Count]
       \cup [pc : {"draft", "stored"}, count : Count, emp : Employees]
       \cup [pc : {"tax"}, count : Count, draft : Payroll, left : SUBSET Brackets]
       \cup [pc : {"inverse"}, count : Count, draft : Payroll, left : SUBSET Brackets,
             bracket : Brackets]

TypeOK ==
    /\ brackets \subseteq Brackets
    /\ latest \in [Directions -> Rates \cup {None}]
    /\ payrolls \subseteq Payroll
    /\ run \in [Runs -> Run \cup {Idle}]
    /\ edits \in 0..MaxEdits
    /\ together \subseteq (SUBSET Runs)

Init ==
    /\ \E o \in Opening : brackets = o.brackets /\ latest = o.latest
    /\ payrolls = {}
    /\ run = [q \in Runs |-> Idle]
    /\ edits = 0
    /\ together = {}

-----------------------------------------------------------------------------
(* The calculation                                                           *)

\* The brackets that match a gross income: 0-0 is everybody, and 0 above is no end.
\* Faulty variant: the upper bound is part of the range.
AppliesUpTo(b, g, x) ==
    \/ b.min = 0 /\ b.max = 0
    \/ /\ g * x.num >= b.min * x.den
       /\ g * x.num <= b.max * x.den \/ b.max = 0

Applies(b, g, x) ==
    \/ b.min = 0 /\ b.max = 0
    \/ /\ g * x.num >= b.min * x.den
       /\ g * x.num < b.max * x.den \/ b.max = 0

Abs(n) == IF n < 0 THEN -n ELSE n

\* (income * rate) - fixed, or fixed alone where the rate is 0, never negative,
\* converted there and back.
Amount(b, g, x) ==
    LET flat == 100 * b.fixed * x.den
    IN  (IF b.pct = 0 /\ b.fixed > 0 THEN flat ELSE Abs(g * x.num * b.pct - flat))
            \div x.num

LinesOf(id, g, x) ==
    {l \in {[bracket |-> id, rate |-> x, amount |-> Amount(Bracket[id], g, x)]} :
        Applies(Bracket[id], g, x) /\ l.amount > 0}

Inverted(r) == [num |-> 1, den |-> r]
Direct(r) == [num |-> r, den |-> 1]

\* calculateLeaveDeductionAsync: the days of its leaves that fall into the period.
DeductedDays(e) ==
    LET unpaid == {l \in Approved : l.emp = e /\ l.type = "UNPAID"}
    IN  Cardinality({x \in unpaid \X (Period.from..Period.to) :
                        x[1].from <= x[2] /\ x[2] <= x[1].to})

-----------------------------------------------------------------------------

\* Faulty variant: a payroll without tax lines is overlooked.
HasTaxedPayroll(e) == \E p \in payrolls : p.emp = e /\ p.lines # {}

HasPayroll(e) == \E p \in payrolls : p.emp = e

\* A run returns its counts when nobody is left.
Done(q) == run[q].pc = "loop" /\ run[q].count.todo = {}

AtWork(q) == run[q] # Idle /\ ~Done(q)

Goto(q, r) == run' = [run EXCEPT ![q] = r]

Loop(q, count) == Goto(q, [pc |-> "loop", count |-> count])

TablesUnchanged == UNCHANGED <<brackets, latest, edits>>
RunStep == TablesUnchanged /\ UNCHANGED together

(* generateBulkAsync *)

\* Select the employees.
Start(q) ==
    /\ run[q].pc = "idle"
    /\ Selected[q] # {}
    /\ Loop(q, [todo |-> Selected[q], generated |-> {}, skipped |-> {}, failed |-> {}])
    /\ together' = together \cup {{q, r} : r \in {s \in Runs : AtWork(s)}}
    /\ TablesUnchanged
    /\ UNCHANGED payrolls

\* The next employee: skip one who has a payroll.
Take(q, e) ==
    LET count == [run[q].count EXCEPT !.todo = @ \ {e}]
    IN  /\ run[q].pc = "loop"
        /\ e \in run[q].count.todo
        /\ IF HasPayroll(e)
           THEN Loop(q, [count EXCEPT !.skipped = @ \cup {e}])
           ELSE Goto(q, [pc |-> "draft", count |-> count, emp |-> e])
        /\ RunStep
        /\ UNCHANGED payrolls

Current(q) ==
    IF run[q].pc \in {"tax", "inverse"} THEN run[q].draft.emp ELSE run[q].emp

InHand(q) == run[q].pc \in {"draft", "tax", "inverse", "stored"}

\* Faulty variants: an employee who failed is tried again; is reported as skipped.
FailAndRetry(q) ==
    /\ InHand(q)
    /\ run[q].pc # "stored"
    /\ TRUE \in Faults
    /\ Loop(q, [run[q].count EXCEPT !.todo = @ \cup {Current(q)}])
    /\ RunStep
    /\ UNCHANGED payrolls
FailAsSkipped(q) ==
    /\ InHand(q)
    /\ TRUE \in Faults
    /\ Loop(q, [run[q].count EXCEPT !.skipped = @ \cup {Current(q)}])
    /\ RunStep
    /\ UNCHANGED payrolls

\* A query of the draft, its transaction, or the query that reads the stored
\* payroll back fails: the employee counts as failed and the loop goes on.
Fail(q) ==
    /\ InHand(q)
    /\ TRUE \in Faults
    /\ Loop(q, [run[q].count EXCEPT !.failed = @ \cup {Current(q)}])
    /\ RunStep
    /\ UNCHANGED payrolls

(* createDraftAsync *)

\* Look again for a payroll, then read the employee and the brackets.  The brackets
\* in the payroll's own currency need no query.
CheckDraft(q) ==
    LET r == run[q]
        table == IF r.emp \in Exempt THEN {} ELSE brackets
        foreign == {b \in table : Bracket[b].foreign}
        draft == [emp |-> r.emp, by |-> q, gross |-> Income[r.emp],
                  days |-> IF AutoCalculate THEN DeductedDays(r.emp) ELSE 0,
                  table |-> table,
                  lines |-> UNION {LinesOf(b, Income[r.emp], NoRate) : b \in table \ foreign},
                  quoted |-> latest, odd |-> FALSE]
    IN  /\ r.pc = "draft"
        /\ IF HasPayroll(r.emp)
           THEN Loop(q, [r.count EXCEPT !.failed = @ \cup {r.emp}])
           ELSE Goto(q, [pc |-> "tax", count |-> r.count, draft |-> draft, left |-> foreign])
        /\ RunStep
        /\ UNCHANGED payrolls

\* Bracket b is done: add its lines to the draft.
Taxed(q, b, lines, odd) ==
    /\ Goto(q, [pc |-> "tax", count |-> run[q].count, left |-> run[q].left \ {b},
                draft |-> [run[q].draft EXCEPT !.lines = @ \cup lines,
                                               !.odd = @ \/ odd]])
    /\ RunStep
    /\ UNCHANGED payrolls

\* getLatestRateAsync: the rate itself, else the inverse of the opposite one.
ReadDirect(q, b) ==
    LET r == run[q]
    IN  /\ r.pc = "tax"
        /\ b \in r.left
        /\ IF latest["direct"] # None
           THEN Taxed(q, b, LinesOf(b, r.draft.gross, Direct(latest["direct"])), FALSE)
           ELSE /\ Goto(q, [pc |-> "inverse", count |-> r.count, draft |-> r.draft,
                            left |-> r.left, bracket |-> b])
                /\ RunStep
                /\ UNCHANGED payrolls

\* Faulty variants: the rate is not inverted; that there is none is not noticed.
ReadInverseAsDirect(q) ==
    /\ run[q].pc = "inverse"
    /\ Taxed(q, run[q].bracket,
             IF latest["inverse"] = None THEN {}
             ELSE LinesOf(run[q].bracket, run[q].draft.gross, Direct(latest["inverse"])),
             FALSE)
ReadInverseUnchecked(q) ==
    /\ run[q].pc = "inverse"
    /\ Taxed(q, run[q].bracket,
             LinesOf(run[q].bracket, run[q].draft.gross, Inverted(latest["inverse"])), FALSE)

\* Without any rate the bracket is passed over.
ReadInverse(q) ==
    /\ run[q].pc = "inverse"
    /\ Taxed(q, run[q].bracket,
             IF latest["inverse"] = None THEN {}
             ELSE LinesOf(run[q].bracket, run[q].draft.gross, Inverted(latest["inverse"])),
             FALSE)

\* So it is when either query fails: getLatestRateAsync catches the error.
RateUnread(q, b) ==
    /\ TRUE \in Faults
    /\ run[q].pc = "tax"
    /\ b \in run[q].left
    /\ Taxed(q, b, {}, TRUE)

\* The transaction.
Store(q) ==
    LET r == run[q]
    IN  /\ r.pc = "tax"
        /\ r.left = {}
        /\ payrolls' = payrolls \cup {r.draft}
        /\ Goto(q, [pc |-> "stored", count |-> r.count, emp |-> r.draft.emp])
        /\ RunStep

\* Reading it back succeeds: the employee counts as generated.
ReadBack(q) ==
    LET r == run[q]
    IN  /\ r.pc = "stored"
        /\ Loop(q, [r.count EXCEPT !.generated = @ \cup {r.emp}])
        /\ RunStep
        /\ UNCHANGED payrolls

-----------------------------------------------------------------------------
(* Edits of the tables                                                       *)

Edit ==
    /\ edits < MaxEdits
    /\ edits' = edits + 1
    /\ UNCHANGED <<payrolls, together>>

\* Another rate for today or a later day: one for an earlier day is not the latest.
SaveRate(d, x) ==
    /\ Edit
    /\ latest[d] # x
    /\ latest' = [latest EXCEPT ![d] = x]
    /\ run' = [q \in Runs |->
                 IF run[q].pc \in {"tax", "inverse"}
                 THEN [run[q] EXCEPT !.draft.odd = TRUE] ELSE run[q]]
    /\ UNCHANGED brackets

CreateBracket(b) ==
    /\ b \notin brackets
    /\ Edit
    /\ brackets' = brackets \cup {b}
    /\ UNCHANGED <<latest, run>>

DeleteBracket(b) ==
    /\ b \in brackets
    /\ Edit
    /\ brackets' = brackets \ {b}
    /\ UNCHANGED <<latest, run>>

RunNext(q) ==
    \/ \E e \in Employees : Take(q, e)
    \/ Fail(q)
    \/ CheckDraft(q)
    \/ \E b \in Brackets : ReadDirect(q, b) \/ RateUnread(q, b)
    \/ ReadInverse(q)
    \/ Store(q)
    \/ ReadBack(q)

Next ==
    \/ \E q \in Runs : Start(q) \/ RunNext(q)
    \/ \E d \in Directions, x \in Rates : SaveRate(d, x)
    \/ \E b \in Brackets : CreateBracket(b) \/ DeleteBracket(b)

\* Every query is answered, with a result or an error.
Spec == Init /\ [][Next]_vars /\ \A q \in Runs : WF_vars(RunNext(q))

-----------------------------------------------------------------------------
(* Properties *)

StoredBy(q) == {p.emp : p \in {r \in payrolls : r.by = q}}

\* What a run reports is what it stored: who counts as generated has a payroll of
\* this run, who was skipped has one that is not, and nobody else has one but those
\* whose draft failed (after it was stored) or is in hand.
ReportIsStored ==
    \A q \in Runs : run[q] # Idle =>
        LET c == run[q].count
        IN  /\ c.generated \subseteq StoredBy(q)
            /\ c.skipped \cap StoredBy(q) = {}
            /\ \A e \in c.skipped : HasPayroll(e)
            /\ StoredBy(q) \subseteq
                  c.generated \cup c.failed
                  \cup (IF run[q].pc = "stored" THEN {run[q].emp} ELSE {})

\* A run that is repeated generates nothing twice: two payrolls of an employee come
\* from runs that were at work at once.
RerunIsSafe ==
    \A p, r \in payrolls :
        p # r /\ p.emp = r.emp => {p.by, r.by} \in together

\* The rate a conversion uses, or {} when there is none either way.
Quoted(quoted) ==
    CASE quoted["direct"] # None -> {[num |-> quoted["direct"], den |-> 1]}
      [] quoted["direct"] = None /\ quoted["inverse"] # None ->
            {[num |-> 1, den |-> quoted["inverse"]]}
      [] OTHER -> {}

\* Unless a rate is saved or cannot be read during the calculation, an income is
\* taxed by every bracket of one table that it falls into, and by no other, at the
\* one rate that was the latest.
TaxedAtOneRate ==
    \A p \in payrolls : ~p.odd =>
        p.lines = (UNION {LinesOf(b, p.gross, x) :
                             b \in {c \in p.table : Bracket[c].foreign},
                             x \in Quoted(p.quoted)})
                  \cup (UNION {LinesOf(b, p.gross, NoRate) :
                                  b \in {c \in p.table : ~Bracket[c].foreign}})

NetOf(p) == 100 * p.gross - SumFunction([l \in p.lines |-> l.amount])

Ranges == {b \in Brackets : Bracket[b].min # 0 \/ Bracket[b].max # 0}

Below(b, c) == Bracket[b].max # 0 /\ Bracket[b].max <= Bracket[c].min

\* The tax of bracket b on an income in its own currency.
Levy(b, income) == Amount(Bracket[b], income, NoRate)

\* What everybody pays is a fee.  The other brackets are ranges of one currency, which
\* begin at 0 and follow on each other without gaps; none takes more than the income,
\* and from one to a higher one the tax rises by no more than the income does.
Progressive ==
    /\ \A b \in Brackets \ Ranges : Bracket[b].pct = 0
    /\ \A b \in Ranges :
          /\ Bracket[b].pct <= 100
          /\ Bracket[b].max # 0 => /\ Bracket[b].min < Bracket[b].max
                                   /\ \E c \in Ranges : Bracket[c].min = Bracket[b].max
          /\ \E c \in Ranges : Bracket[c].min = 0
    /\ \A b, c \in Ranges :
          /\ Bracket[b].foreign = Bracket[c].foreign
          /\ b # c => Below(b, c) \/ Below(c, b)
          /\ Below(b, c) => Levy(c, Bracket[c].min) - Levy(b, Bracket[b].max)
                               <= 100 * (Bracket[c].min - Bracket[b].max)

\* Under the same progressive table and rates, who earns more keeps more: no income
\* falls into two brackets or between them.
MoreGrossMoreNet ==
    Progressive => \A p, r \in payrolls :
        /\ ~p.odd /\ ~r.odd
        /\ p.table = Brackets /\ r.table = Brackets
        /\ p.quoted = r.quoted
        /\ p.gross <= r.gross
        => NetOf(p) <= NetOf(r)

\* A run ends, whatever fails on the way.
RunsEnd == \A q \in Runs : AtWork(q) ~> Done(q)

\* "Calculate unpaid leave deduction for an employee in a period": whoever has unpaid
\* leave in the period has its days deducted.
UnpaidLeaveIsDeducted ==
    AutoCalculate => \A p \in payrolls :
        (\E l \in Approved : /\ l.emp = p.emp /\ l.type = "UNPAID_LEAVE"
                             /\ l.from <= Period.to /\ Period.from <= l.to)
        => p.days > 0
=============================================================================
