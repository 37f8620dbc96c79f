--------------------------- MODULE PayrollsProofs ---------------------------
(***************************************************************************)
(* Theorems of Payrolls and PayrollReports, for any number of employees,   *)
(* periods, payrolls and handlers and any tax tables.                      *)
(***************************************************************************)
EXTENDS PayrollReports, SumTheorems

LEMMA NetType == ASSUME NEW s \in Sheets PROVE Net(s) \in Int
  BY DEF Sheets, Net

(* A draft or an edit arrives at a sheet. *)
LEMMA SheetType ==
  ASSUME NEW g \in Amounts, NEW x \in Amounts, NEW t \in TaxTables
  PROVE  [gross |-> g, tax |-> TaxDue(t, g), ded |-> x] \in Sheets
  BY PayrollsAssumption DEF Sheets

LEMMA PayrollExists ==
  ASSUME TypeOK, NEW i \in Payrolls
  PROVE  /\ Exists(i) <=> payrolls[i] \in Payroll
         /\ Visible(i) => Exists(i)
  BY DEF TypeOK, Exists, Visible, Payroll, NoPayroll

LEMMA HandlerFields ==
  ASSUME TypeOK, NEW p \in Procs, handler[p] # Idle
  PROVE  /\ handler[p].pc \in {"drafting", "editing"} =>
               handler[p].period \in Periods /\ handler[p].sheet \in Sheets
         /\ handler[p].pc = "drafting" => handler[p].emp \in Employees
         /\ handler[p].pc # "drafting" => handler[p].id \in Payrolls
         /\ handler[p].pc \in {"drafting", "editing", "finalizing", "paying", "deleting"}
<1>1. handler[p] \in Handler
  BY DEF TypeOK
<1> QED BY <1>1 DEF Handler

LEMMA GotoType ==
  ASSUME TypeOK, NEW p \in Procs, NEW h \in Handler \cup {Idle}, Goto(p, h)
  PROVE  handler' \in [Procs -> Handler \cup {Idle}]
  BY DEF TypeOK, Goto

LEMMA TaxCalcOfType ==
  ASSUME NEW s \in Sheets
  PROVE  TaxCalcOf(s) \in TaxCalc
  BY DEF Sheets, TaxCalcOf, TaxCalc, NoTaxCalc

LEMMA TaxCalcUpdatesType ==
  ASSUME NEW c \in TaxCalc, NEW b \in BOOLEAN, NEW s \in Sheets
  PROVE  TaxCalcUpdates(c, b, s) \subseteq TaxCalc
<1>1. \A m \in DeleteModes : c.row # "none" => TaxCalcDeleted(c, m) \in TaxCalc
  BY DEF TaxCalcDeleted, TaxCalc, NoTaxCalc
<1> QED BY <1>1, TaxCalcOfType DEF TaxCalcUpdates

LEMMA EditedType ==
  ASSUME NEW row \in Payroll, NEW d \in Periods, NEW s \in Sheets
  PROVE  Edited(row, d, s) \in Payroll
  BY NetType DEF Edited, Payroll, Sheets

-----------------------------------------------------------------------------
(* What each handler holds exists, and a payment follows a finalization.     *)

Knows(h) ==
    h # Idle /\ h.pc # "drafting" =>
        /\ Exists(h.id)
        /\ h.pc = "paying" => payrolls[h.id].processed

HandlersKnow == \A p \in Procs : Knows(handler[p])

RowAgrees(i) ==
    Exists(i) =>
        /\ payrolls[i].gross = items[i].gross
        /\ payrolls[i].ded = items[i].ded
        /\ payrolls[i].net = Net(items[i])

FinalizedWasProcessed ==
    \A i \in Payrolls :
        Exists(i) /\ payrolls[i].status # "PENDING" => payrolls[i].processed

IInv == TypeOK /\ ItemsMatchRow /\ FinalizedWasProcessed /\ HandlersKnow

(* What a step may do to the rows: a payroll stays, processed stays set. *)
RowsStay ==
    \A i \in Payrolls : Exists(i) =>
        /\ Exists(i)'
        /\ payrolls[i].processed => payrolls'[i].processed

LEMMA StillKnows ==
  ASSUME TypeOK, RowsStay, NEW p \in Procs, Knows(handler[p]), handler'[p] = handler[p]
  PROVE  Knows(handler[p])'
<1>1. handler[p] # Idle /\ handler[p].pc # "drafting" => handler[p].id \in Payrolls
  BY HandlerFields
<1> QED BY <1>1 DEF Knows, RowsStay

LEMMA GotoKnows ==
  ASSUME TypeOK, HandlersKnow, RowsStay, NEW p \in Procs, NEW h, Goto(p, h),
         Knows(h)'
  PROVE  HandlersKnow'
<1>1. SUFFICES ASSUME NEW q \in Procs PROVE Knows(handler[q])'
  BY DEF HandlersKnow
<1>2. CASE q = p
  <2>1. handler'[q] = h
    BY <1>2 DEF Goto, TypeOK
  <2> QED BY <2>1 DEF Knows
<1>3. CASE q # p
  <2>1. handler'[q] = handler[q]
    BY <1>3 DEF Goto, TypeOK
  <2> QED BY <2>1, StillKnows DEF HandlersKnow
<1> QED BY <1>2, <1>3

LEMMA IdleKnows == Knows(Idle)'
  BY DEF Knows

-----------------------------------------------------------------------------
(* One lemma per kind of step                                                *)

LEMMA CheckPeriodInv ==
  ASSUME IInv, NEW p \in Procs, NEW e \in Employees, NEW d \in Periods,
         NEW g \in Amounts, NEW x \in Amounts, NEW t \in TaxTables,
         CheckPeriod(p, e, d, g, x, t)
  PROVE  IInv'
<1> DEFINE s == [gross |-> g, tax |-> TaxDue(t, g), ded |-> x]
           h == [pc |-> "drafting", emp |-> e, period |-> d, sheet |-> s]
<1>1. s \in Sheets
  BY SheetType
<1>2. h \in Handler
  <2> HIDE DEF s
  <2> QED BY <1>1 DEF Handler
<1>3. Goto(p, h) /\ UNCHANGED <<payrolls, items, taxCalc, contentions>>
  BY DEF CheckPeriod
<1> HIDE DEF s
<1>4. RowsStay /\ Knows(h)'
  BY <1>3 DEF RowsStay, Exists, Knows
<1> HIDE DEF h
<1>5. doubled' \in BOOLEAN
  BY DEF CheckPeriod, IInv, TypeOK, Drafting
<1>6. TypeOK'
  BY <1>2, <1>3, <1>5, GotoType DEF IInv, TypeOK
<1>7. HandlersKnow'
  BY <1>3, <1>4, GotoKnows DEF IInv
<1> QED BY <1>3, <1>6, <1>7 DEF IInv, ItemsMatchRow, FinalizedWasProcessed, Exists

LEMMA CommitDraftInv ==
  ASSUME IInv, NEW p \in Procs, CommitDraft(p) PROVE IInv'
<1>1. PICK h : h = handler[p]
  OBVIOUS
<1>2. /\ h.emp \in Employees /\ h.period \in Periods /\ h.sheet \in Sheets
      /\ h.sheet.gross \in Nat /\ h.sheet.ded \in Nat
  BY <1>1, HandlerFields DEF CommitDraft, IInv, Idle, Sheets
<1>3. PICK row : row = [row |-> "live", emp |-> h.emp, period |-> h.period,
                        gross |-> h.sheet.gross, ded |-> h.sheet.ded,
                        net |-> Net(h.sheet), status |-> "PENDING",
                        processed |-> FALSE]
  OBVIOUS
<1>4. row \in Payroll
  BY <1>2, <1>3, NetType DEF Payroll, Statuses
<1>5. PICK i \in Payrolls :
         /\ ~Exists(i)
         /\ payrolls' = [payrolls EXCEPT ![i] = row]
         /\ items' = [items EXCEPT ![i] = h.sheet]
         /\ taxCalc' = [taxCalc EXCEPT ![i] = TaxCalcOf(h.sheet)]
  BY <1>1, <1>3 DEF CommitDraft
<1>6. Goto(p, Idle) /\ UNCHANGED <<contentions, doubled>>
  BY DEF CommitDraft
<1>7. TypeOK'
  <2>1. handler' \in [Procs -> Handler \cup {Idle}]
    BY <1>6, GotoType DEF IInv
  <2> QED BY <1>2, <1>4, <1>5, <1>6, <2>1, TaxCalcOfType DEF IInv, TypeOK
<1>8. /\ payrolls'[i] = row /\ items'[i] = h.sheet
      /\ \A j \in Payrolls : j # i => payrolls'[j] = payrolls[j] /\ items'[j] = items[j]
  BY <1>5 DEF IInv, TypeOK
<1>9. HandlersKnow'
  <2>1. RowsStay
    BY <1>5, <1>8 DEF RowsStay, Exists
  <2> QED BY <1>6, <2>1, IdleKnows, GotoKnows DEF IInv
<1>10. ItemsMatchRow'
  BY <1>3, <1>8 DEF IInv, ItemsMatchRow, Exists
<1>11. FinalizedWasProcessed'
  BY <1>3, <1>8 DEF IInv, FinalizedWasProcessed, Exists
<1> QED BY <1>7, <1>9, <1>10, <1>11 DEF IInv

LEMMA ClaimInv ==
  ASSUME IInv, NEW p \in Procs, NEW i \in Payrolls, NEW s, NEW h \in Handler,
         h.pc # "drafting", h.id = i, h.pc = "paying" => s # "PENDING",
         Claim(p, i, s, h)
  PROVE  IInv'
<1>1. Goto(p, h) /\ UNCHANGED <<payrolls, items, taxCalc, doubled>>
  BY DEF Claim
<1>2. contentions' \in Nat
  BY DEF Claim, IInv, TypeOK
<1>3. TypeOK'
  BY <1>1, <1>2, GotoType DEF IInv, TypeOK
<1>4. RowsStay
  BY <1>1 DEF RowsStay, Exists
<1>5. Exists(i) /\ (h.pc = "paying" => payrolls[i].processed)
  <2>1. Exists(i)
    BY PayrollExists DEF Claim, IInv
  <2> QED BY <2>1 DEF Claim, IInv, FinalizedWasProcessed
<1>6. Knows(h)'
  BY <1>1, <1>5 DEF Knows, Exists
<1>7. HandlersKnow'
  BY <1>1, <1>4, <1>6, GotoKnows DEF IInv
<1> QED BY <1>1, <1>3, <1>7 DEF IInv, ItemsMatchRow, FinalizedWasProcessed, Exists

LEMMA ReadInv ==
  ASSUME IInv, NEW p \in Procs, NEW i \in Payrolls
  PROVE  /\ ReadForFinalize(p, i) => IInv'
         /\ ReadForPayment(p, i) => IInv'
         /\ ReadForDeletion(p, i) => IInv'
         /\ \A d \in Periods, g, x \in Amounts, t \in TaxTables :
               ReadForUpdate(p, i, d, g, x, t) => IInv'
<1>1. ASSUME NEW at \in {"finalizing", "paying", "deleting"}
      PROVE  [pc |-> at, id |-> i] \in Handler
  BY DEF Handler
<1>2. ASSUME ReadForFinalize(p, i) PROVE IInv'
  BY <1>1, <1>2, ClaimInv DEF ReadForFinalize
<1>3. ASSUME ReadForPayment(p, i) PROVE IInv'
  BY <1>1, <1>3, ClaimInv DEF ReadForPayment
<1>4. ASSUME ReadForDeletion(p, i) PROVE IInv'
  BY <1>1, <1>4, ClaimInv DEF ReadForDeletion
<1>5. ASSUME NEW d \in Periods, NEW g \in Amounts, NEW x \in Amounts,
             NEW t \in TaxTables, ReadForUpdate(p, i, d, g, x, t)
      PROVE  IInv'
  <2>1. PICK s : s = [gross |-> g, tax |-> TaxDue(t, g), ded |-> x]
    OBVIOUS
  <2>2. PICK b : b = (taxCalc[i].row # "none")
    OBVIOUS
  <2>3. PICK h : h = [pc |-> "editing", id |-> i, period |-> d, sheet |-> s, hadTax |-> b]
    OBVIOUS
  <2>4. s \in Sheets /\ b \in BOOLEAN
    BY <2>1, <2>2, SheetType
  <2>5. h \in Handler
    BY <2>3, <2>4 DEF Handler
  <2>6. Claim(p, i, "PENDING", h)
    BY <1>5, <2>1, <2>2, <2>3 DEF ReadForUpdate
  <2> QED BY <2>3, <2>5, <2>6, ClaimInv
<1> QED BY <1>2, <1>3, <1>4, <1>5

(* A write over an existing payroll that keeps its sums and what was finalized. *)
LEMMA RowWritten ==
  ASSUME IInv, NEW p \in Procs, NEW i \in Payrolls, NEW row \in Payroll,
         Exists(i), Goto(p, Idle),
         payrolls' = [payrolls EXCEPT ![i] = row],
         items' \in [Payrolls -> Sheets],
         \A j \in Payrolls : j # i => items'[j] = items[j],
         row.gross = items'[i].gross, row.ded = items'[i].ded,
         row.net = Net(items'[i]),
         row.status # "PENDING" => row.processed,
         payrolls[i].processed => row.processed,
         taxCalc' \in [Payrolls -> TaxCalc], contentions' = contentions,
         doubled' \in BOOLEAN
  PROVE  IInv'
<1>1. /\ payrolls'[i] = row
      /\ \A j \in Payrolls : j # i => payrolls'[j] = payrolls[j]
  BY DEF IInv, TypeOK
<1>2. TypeOK'
  <2>1. handler' \in [Procs -> Handler \cup {Idle}]
    BY GotoType DEF IInv
  <2> QED BY <2>1 DEF IInv, TypeOK
<1>3. row # NoPayroll
  BY PayrollExists, row \in Payroll DEF Payroll, NoPayroll
<1>4. RowsStay
  BY <1>1, <1>3 DEF RowsStay, Exists
<1>5. HandlersKnow'
  BY <1>4, IdleKnows, GotoKnows DEF IInv
<1>6. ItemsMatchRow'
  BY <1>1 DEF IInv, ItemsMatchRow, Exists
<1>7. FinalizedWasProcessed'
  BY <1>1 DEF IInv, FinalizedWasProcessed, Exists
<1> QED BY <1>2, <1>5, <1>6, <1>7 DEF IInv

LEMMA HeldExists ==
  ASSUME IInv, NEW p \in Procs, handler[p].pc \in {"editing", "finalizing", "paying", "deleting"}
  PROVE  /\ handler[p].id \in Payrolls
         /\ Exists(handler[p].id)
         /\ payrolls[handler[p].id] \in Payroll
         /\ handler[p].pc = "paying" => payrolls[handler[p].id].processed
<1>1. handler[p] # Idle
  BY DEF Idle
<1>2. handler[p].id \in Payrolls
  BY <1>1, HandlerFields DEF IInv
<1> QED BY <1>1, <1>2, PayrollExists DEF IInv, HandlersKnow, Knows

LEMMA WriteRowInv ==
  ASSUME IInv, NEW p \in Procs, NEW at \in {"finalizing", "paying", "deleting"},
         NEW row \in Payroll, WriteRow(p, at, row),
         row.gross = payrolls[handler[p].id].gross,
         row.ded = payrolls[handler[p].id].ded,
         row.net = payrolls[handler[p].id].net,
         row.status # "PENDING" => row.processed,
         payrolls[handler[p].id].processed => row.processed
  PROVE  IInv'
<1>1. PICK i \in Payrolls : i = handler[p].id /\ Exists(i)
  BY HeldExists DEF WriteRow
<1>2. items' = items /\ taxCalc' = taxCalc /\ contentions' = contentions /\ doubled' = doubled
  BY DEF WriteRow
<1>3. payrolls' = [payrolls EXCEPT ![i] = row] /\ Goto(p, Idle)
  BY <1>1 DEF WriteRow
<1>4. /\ row.gross = items'[i].gross /\ row.ded = items'[i].ded
      /\ row.net = Net(items'[i])
  BY <1>1, <1>2 DEF IInv, ItemsMatchRow
<1>5. /\ items' \in [Payrolls -> Sheets] /\ taxCalc' \in [Payrolls -> TaxCalc]
      /\ doubled' \in BOOLEAN
  BY <1>2 DEF IInv, TypeOK
<1> QED BY <1>1, <1>2, <1>3, <1>4, <1>5, RowWritten

LEMMA WritesInv ==
  ASSUME IInv, NEW p \in Procs,
         CommitFinalize(p) \/ CommitPayment(p) \/ CommitDeletion(p)
  PROVE  IInv'
<1>1. PICK old \in Payroll : old = payrolls[handler[p].id]
  BY HeldExists DEF CommitFinalize, CommitPayment, CommitDeletion, WriteRow
<1>2. CASE CommitFinalize(p)
  <2>1. PICK row : row = [old EXCEPT !.status = "PROCESSED", !.processed = TRUE]
    OBVIOUS
  <2>2. row \in Payroll
    BY <2>1 DEF Payroll, Statuses
  <2>3. row.gross = old.gross /\ row.ded = old.ded /\ row.net = old.net /\ row.processed
    BY <2>1 DEF Payroll
  <2>4. WriteRow(p, "finalizing", row)
    BY <1>1, <1>2, <2>1 DEF CommitFinalize
  <2> QED BY <1>1, <2>2, <2>3, <2>4, WriteRowInv
<1>3. CASE CommitPayment(p)
  <2>1. PICK row : row = [old EXCEPT !.status = "PAID"]
    OBVIOUS
  <2>2. row \in Payroll
    BY <2>1 DEF Payroll, Statuses
  <2>3. row.gross = old.gross /\ row.ded = old.ded /\ row.net = old.net
    BY <2>1 DEF Payroll
  <2>4. WriteRow(p, "paying", row)
    BY <1>1, <1>3, <2>1 DEF CommitPayment
  <2>5. old.processed
    BY <1>1, <2>4, HeldExists DEF WriteRow
  <2>6. row.processed
    BY <2>1, <2>5 DEF Payroll
  <2> QED BY <1>1, <2>2, <2>3, <2>4, <2>6, WriteRowInv
<1>4. CASE CommitDeletion(p)
  <2>1. PICK row : row = [old EXCEPT !.row = "deleted"]
    OBVIOUS
  <2>2. row \in Payroll
    BY <2>1 DEF Payroll
  <2>3. /\ row.gross = old.gross /\ row.ded = old.ded /\ row.net = old.net
        /\ row.status = old.status /\ row.processed = old.processed
    BY <2>1 DEF Payroll
  <2>4. WriteRow(p, "deleting", row)
    BY <1>1, <1>4, <2>1 DEF CommitDeletion
  <2>5. old.status # "PENDING" => old.processed
    BY <1>1, <2>4, HeldExists DEF WriteRow, IInv, FinalizedWasProcessed
  <2> QED BY <1>1, <2>2, <2>3, <2>4, <2>5, WriteRowInv
<1> QED BY <1>2, <1>3, <1>4

LEMMA CommitUpdateInv ==
  ASSUME IInv, NEW p \in Procs, CommitUpdate(p) PROVE IInv'
<1>1. PICK h : h = handler[p]
  OBVIOUS
<1>2. h.pc = "editing" /\ Goto(p, Idle) /\ contentions' = contentions
  BY <1>1 DEF CommitUpdate
<1>3. PICK i \in Payrolls : i = h.id /\ Exists(i) /\ payrolls[i] \in Payroll
  BY <1>1, <1>2, HeldExists
<1>4. h.period \in Periods /\ h.sheet \in Sheets
  BY <1>1, <1>2, HandlerFields DEF IInv, Idle
<1>5. h.hadTax \in BOOLEAN
  BY <1>1, <1>2 DEF IInv, TypeOK, Handler, Idle
<1>6. CASE UNCHANGED <<payrolls, items, taxCalc, doubled>>
  <2>1. PICK row : row = payrolls[i]
    OBVIOUS
  <2>2. payrolls' = [payrolls EXCEPT ![i] = row]
    BY <1>6, <2>1 DEF IInv, TypeOK
  <2>3. /\ row.gross = items'[i].gross /\ row.ded = items'[i].ded
        /\ row.net = Net(items'[i])
    BY <1>3, <1>6, <2>1 DEF IInv, ItemsMatchRow
  <2>4. row.status # "PENDING" => row.processed
    BY <1>3, <2>1 DEF IInv, FinalizedWasProcessed
  <2>5. /\ items' \in [Payrolls -> Sheets] /\ taxCalc' \in [Payrolls -> TaxCalc]
        /\ doubled' \in BOOLEAN /\ \A j \in Payrolls : items'[j] = items[j]
    BY <1>6 DEF IInv, TypeOK
  <2> QED BY <1>2, <1>3, <2>1, <2>2, <2>3, <2>4, <2>5, RowWritten
<1>7. ASSUME NEW c \in TaxCalcUpdates(taxCalc[i], h.hadTax, h.sheet),
             payrolls' = [payrolls EXCEPT ![i] = Edited(@, h.period, h.sheet)],
             items' = [items EXCEPT ![i] = h.sheet],
             taxCalc' = [taxCalc EXCEPT ![i] = c],
             doubled' = (doubled \/ h.period # payrolls[i].period)
      PROVE  IInv'
  <2>1. PICK row : row = Edited(payrolls[i], h.period, h.sheet)
    OBVIOUS
  <2>2. row \in Payroll
    BY <1>3, <1>4, <2>1, EditedType
  <2>3. payrolls' = [payrolls EXCEPT ![i] = row]
    BY <1>7, <2>1
  <2>4. /\ row.gross = h.sheet.gross /\ row.ded = h.sheet.ded
        /\ row.net = Net(h.sheet) /\ row.status = payrolls[i].status
        /\ row.processed = payrolls[i].processed
    BY <1>3, <2>1 DEF Edited, Payroll
  <2>5. items'[i] = h.sheet /\ \A j \in Payrolls : j # i => items'[j] = items[j]
    BY <1>7 DEF IInv, TypeOK
  <2>6. taxCalc' \in [Payrolls -> TaxCalc]
    <3>1. taxCalc[i] \in TaxCalc
      BY DEF IInv, TypeOK
    <3>2. c \in TaxCalc
      BY <1>4, <1>5, <3>1, TaxCalcUpdatesType
    <3> QED BY <1>7, <3>2 DEF IInv, TypeOK
  <2>7. items' \in [Payrolls -> Sheets] /\ doubled' \in BOOLEAN
    <3>1. items' \in [Payrolls -> Sheets]
      BY <1>4, <1>7 DEF IInv, TypeOK
    <3>2. doubled' \in BOOLEAN
      BY <1>7
    <3> QED BY <3>1, <3>2
  <2>8. row.status # "PENDING" => row.processed
    BY <1>3, <2>4 DEF IInv, FinalizedWasProcessed
  <2> QED BY <1>2, <1>3, <2>2, <2>3, <2>4, <2>5, <2>6, <2>7, <2>8, RowWritten
<1> QED BY <1>1, <1>3, <1>6, <1>7 DEF CommitUpdate

LEMMA StepInv == ASSUME IInv, [Next]_vars PROVE IInv'
<1>1. CASE UNCHANGED vars
  BY <1>1 DEF vars, IInv, TypeOK, ItemsMatchRow, FinalizedWasProcessed, HandlersKnow,
              Knows, Exists
<1>2. CASE Next
  BY <1>2, CheckPeriodInv, CommitDraftInv, ReadInv, CommitUpdateInv, WritesInv DEF Next
<1> QED BY <1>1, <1>2

LEMMA InitInv == Init => IInv
<1>1. NoTaxCalc \in TaxCalc /\ NoItems \in Sheets
  BY DEF NoTaxCalc, TaxCalc, NoItems, Sheets
<1>2. Init => TypeOK
  <2>1. SUFFICES ASSUME Init PROVE TypeOK
    OBVIOUS
  <2>2. doubled \in BOOLEAN
    BY <2>1 DEF Init
  <2>3. contentions \in Nat
    BY <2>1 DEF Init
  <2> QED BY <1>1, <2>1, <2>2, <2>3 DEF Init, TypeOK
<1>3. Init => ItemsMatchRow /\ FinalizedWasProcessed /\ HandlersKnow
  BY DEF Init, ItemsMatchRow, FinalizedWasProcessed, HandlersKnow, Knows, Exists
<1> QED BY <1>2, <1>3 DEF IInv

LEMMA AlwaysIInv == Spec => []IInv
  BY InitInv, StepInv, PTL DEF Spec

(* Every reachable state of the payroll tables and handlers is well typed; in   *)
(* particular no tax calculation over nothing is ever stored.                   *)
THEOREM TypeCorrect == Spec => []TypeOK
<1>1. IInv => TypeOK
  BY DEF IInv
<1> QED BY <1>1, AlwaysIInv, PTL

(* However handlers interleave, the items of a payroll add up to its row: the   *)
(* two transactions that write items write the sums of the same calculation.    *)
THEOREM ItemsAddUp == Spec => []ItemsMatchRow
<1>1. IInv => ItemsMatchRow
  BY DEF IInv
<1> QED BY <1>1, AlwaysIInv, PTL

(* No payroll is paid that finalizeAsync has not processed: a payment in flight *)
(* knows it is processed, and nothing clears processed_at.                      *)
THEOREM PaymentFollowsProcessing == Spec => []PaidWasProcessed
<1>1. IInv => PaidWasProcessed
  BY DEF IInv, FinalizedWasProcessed, PaidWasProcessed
<1> QED BY <1>1, AlwaysIInv, PTL

-----------------------------------------------------------------------------
(* The status never returns to PENDING                                       *)

LEMMA StatusKept ==
  ASSUME IInv, Next, NEW i \in Payrolls, Exists(i), payrolls[i].status # "PENDING"
  PROVE  payrolls'[i].status # "PENDING"
<1>1. payrolls[i] \in Payroll
  BY PayrollExists DEF IInv
<1>3. ASSUME NEW p \in Procs, CommitDraft(p) PROVE payrolls'[i] = payrolls[i]
  BY <1>3 DEF CommitDraft, IInv, TypeOK
<1>4. ASSUME NEW p \in Procs, CommitUpdate(p), ~UNCHANGED payrolls
      PROVE payrolls'[i].status = payrolls[i].status
  <2>1. PICK h : h = handler[p]
    OBVIOUS
  <2>2. payrolls' = [payrolls EXCEPT ![h.id] = Edited(@, h.period, h.sheet)]
    BY <1>4, <2>1 DEF CommitUpdate
  <2>3. payrolls'[i] \in {payrolls[i], Edited(payrolls[i], h.period, h.sheet)}
    BY <2>2 DEF IInv, TypeOK
  <2> QED BY <1>1, <2>3 DEF Edited, Payroll
<1>5. ASSUME NEW p \in Procs, CommitFinalize(p) \/ CommitPayment(p) \/ CommitDeletion(p)
      PROVE payrolls'[i].status # "PENDING"
  <2>1. payrolls'[i] \in {payrolls[i],
                          [payrolls[i] EXCEPT !.status = "PROCESSED", !.processed = TRUE],
                          [payrolls[i] EXCEPT !.status = "PAID"],
                          [payrolls[i] EXCEPT !.row = "deleted"]}
    BY <1>5 DEF CommitFinalize, CommitPayment, CommitDeletion, WriteRow, IInv, TypeOK
  <2> QED BY <1>1, <2>1 DEF Payroll
<1>6. ASSUME NEW p \in Procs, NEW e, NEW d, NEW g, NEW x, NEW tt, CheckPeriod(p, e, d, g, x, tt)
      PROVE payrolls' = payrolls
  BY <1>6 DEF CheckPeriod
<1>7. ASSUME NEW p \in Procs, NEW j, NEW d, NEW g, NEW x, NEW tt,
             \/ ReadForUpdate(p, j, d, g, x, tt)
             \/ ReadForFinalize(p, j) \/ ReadForPayment(p, j) \/ ReadForDeletion(p, j)
      PROVE payrolls' = payrolls
  BY <1>7 DEF ReadForUpdate, ReadForFinalize, ReadForPayment, ReadForDeletion, Claim
<1>8. payrolls'[i] = payrolls[i] \/ payrolls'[i].status # "PENDING"
  BY <1>3, <1>4, <1>5, <1>6, <1>7 DEF Next
<1> QED BY <1>8

(* A payroll that was finalized is never PENDING again, even when an update or *)
(* a deletion that read it as PENDING writes late.                             *)
THEOREM StaysFinalized == Spec => NeverReopened
<1>1. IInv /\ [Next]_vars =>
        [\A i \in Payrolls :
           Exists(i) /\ payrolls[i].status # "PENDING"
           => payrolls'[i].status # "PENDING"]_vars
  BY StatusKept
<1> QED BY <1>1, AlwaysIInv, PTL DEF Spec, NeverReopened

-----------------------------------------------------------------------------
(* One payroll per employee and period                                       *)

Drafts(p) == handler[p].pc = "drafting"

\* What createDraftAsync found still holds when it writes, unless two drafts
\* were in flight at once or a payroll was moved.
DraftsAreNew ==
    ~doubled =>
        \A p \in Procs : Drafts(p) =>
            /\ ~HasPayroll(handler[p].emp, handler[p].period)
            /\ \A q \in Procs : Drafts(q) /\ handler[q].emp = handler[p].emp => q = p

PeriodsInv == IInv /\ OnePayrollPerPeriod /\ DraftsAreNew

\* Every payroll in sight was in sight before, of the same employee and period.
NothingNew ==
    \A i \in Payrolls : Visible(i)' =>
        /\ Visible(i)
        /\ payrolls'[i].emp = payrolls[i].emp
        /\ payrolls'[i].period = payrolls[i].period

LEMMA NothingNewInv ==
  ASSUME PeriodsInv, NothingNew, doubled' = FALSE => doubled = FALSE,
         \A q \in Procs : Drafts(q)' => handler'[q] = handler[q]
  PROVE  OnePayrollPerPeriod' /\ DraftsAreNew'
<1>1. OnePayrollPerPeriod'
  BY DEF PeriodsInv, OnePayrollPerPeriod, NothingNew, IInv, TypeOK
<1>2. DraftsAreNew'
  BY DEF PeriodsInv, DraftsAreNew, NothingNew, Drafts, HasPayroll, IInv, TypeOK
<1> QED BY <1>1, <1>2

LEMMA GotoDrafts ==
  ASSUME IInv, NEW p \in Procs, NEW h, Goto(p, h), NEW q \in Procs, q # p
  PROVE  handler'[q] = handler[q] /\ handler'[p] = h
  BY DEF Goto, IInv, TypeOK

LEMMA CheckPeriodPeriods ==
  ASSUME PeriodsInv, NEW p \in Procs, NEW e \in Employees, NEW d \in Periods,
         NEW g \in Amounts, NEW x \in Amounts, NEW t \in TaxTables,
         CheckPeriod(p, e, d, g, x, t)
  PROVE  OnePayrollPerPeriod' /\ DraftsAreNew'
<1>1. payrolls' = payrolls /\ doubled' = (doubled \/ Drafting(e)) /\ ~HasPayroll(e, d)
  BY DEF CheckPeriod
<1>2. OnePayrollPerPeriod'
  BY <1>1 DEF PeriodsInv, OnePayrollPerPeriod, Visible
<1>3. PICK h : h = handler'[p] /\ h.emp = e /\ h.period = d
  BY DEF CheckPeriod, Goto, PeriodsInv, IInv, TypeOK
<1>4. \A q \in Procs : q # p => handler'[q] = handler[q]
  BY DEF CheckPeriod, Goto, PeriodsInv, IInv, TypeOK
<1>5. ASSUME ~doubled',
             NEW q \in Procs, Drafts(q)'
      PROVE  /\ ~HasPayroll(handler[q].emp, handler[q].period)'
             /\ \A r \in Procs : Drafts(r)' /\ handler'[r].emp = handler'[q].emp => r = q
  <2>1. ~doubled /\ ~Drafting(e)
    BY <1>1, <1>5
  <2>2. \A r \in Procs : r # p /\ Drafts(r)' => handler'[r].emp # e
    BY <1>4, <2>1 DEF Drafting, Drafts
  <2>3. \A r, s \in Procs : /\ r # p /\ s # p /\ Drafts(r)' /\ Drafts(s)'
                            /\ handler'[r].emp = handler'[s].emp
                            => r = s
    BY <1>4, <2>1 DEF PeriodsInv, DraftsAreNew, Drafts
  <2>4. \A r \in Procs : r # p /\ Drafts(r)' =>
                            ~HasPayroll(handler[r].emp, handler[r].period)
    BY <1>4, <2>1 DEF PeriodsInv, DraftsAreNew, Drafts
  <2>5. ~HasPayroll(handler[q].emp, handler[q].period)'
    BY <1>1, <1>3, <1>4, <1>5, <2>4 DEF HasPayroll, Visible
  <2> QED BY <1>3, <2>2, <2>3, <2>5, <1>5
<1> QED BY <1>2, <1>5 DEF DraftsAreNew

LEMMA CommitDraftPeriods ==
  ASSUME PeriodsInv, NEW p \in Procs, CommitDraft(p)
  PROVE  OnePayrollPerPeriod' /\ DraftsAreNew'
<1>1. PICK h : h = handler[p]
  OBVIOUS
<1>2. h.pc = "drafting" /\ doubled' = doubled
  BY <1>1 DEF CommitDraft
<1>3. PICK i \in Payrolls : \E row :
         /\ ~Exists(i)
         /\ payrolls' = [payrolls EXCEPT ![i] = row]
         /\ row.emp = h.emp /\ row.period = h.period
  BY <1>1 DEF CommitDraft
<1>9. PICK row :
         /\ ~Exists(i)
         /\ payrolls' = [payrolls EXCEPT ![i] = row]
         /\ row.emp = h.emp /\ row.period = h.period
  BY <1>3
<1>4. /\ payrolls'[i] = row
      /\ \A j \in Payrolls : j # i => payrolls'[j] = payrolls[j]
  BY <1>9 DEF PeriodsInv, IInv, TypeOK
<1>5. \A q \in Procs : q # p => handler'[q] = handler[q]
  BY DEF CommitDraft, Goto, PeriodsInv, IInv, TypeOK
<1>6. handler'[p] = Idle
  BY DEF CommitDraft, Goto, PeriodsInv, IInv, TypeOK
<1>7. CASE doubled
  BY <1>2, <1>7 DEF OnePayrollPerPeriod, DraftsAreNew
<1>8. CASE ~doubled
  <2>1. ~HasPayroll(h.emp, h.period)
    BY <1>1, <1>2, <1>8 DEF PeriodsInv, DraftsAreNew, Drafts
  <2>2. OnePayrollPerPeriod'
    BY <1>9, <1>4, <1>8, <2>1 DEF PeriodsInv, OnePayrollPerPeriod, HasPayroll, Visible
  <2>3. \A q \in Procs : Drafts(q)' =>
           /\ q # p /\ Drafts(q) /\ handler'[q] = handler[q]
           /\ handler[q].emp # h.emp
    BY <1>1, <1>2, <1>5, <1>6, <1>8 DEF PeriodsInv, DraftsAreNew, Drafts, Idle
  <2>4. DraftsAreNew'
    BY <1>9, <1>4, <1>8, <2>3 DEF PeriodsInv, DraftsAreNew, HasPayroll, Visible
  <2> QED BY <2>2, <2>4
<1> QED BY <1>7, <1>8

LEMMA ClaimPeriods ==
  ASSUME PeriodsInv, NEW p \in Procs, NEW i, NEW s, NEW h, h.pc # "drafting",
         Claim(p, i, s, h)
  PROVE  OnePayrollPerPeriod' /\ DraftsAreNew'
<1>1. NothingNew /\ doubled' = doubled
  BY DEF Claim, NothingNew, Visible
<1>2. \A q \in Procs : Drafts(q)' => handler'[q] = handler[q]
  BY DEF Claim, Goto, Drafts, PeriodsInv, IInv, TypeOK
<1> QED BY <1>1, <1>2, NothingNewInv

LEMMA CommitUpdatePeriods ==
  ASSUME PeriodsInv, NEW p \in Procs, CommitUpdate(p)
  PROVE  OnePayrollPerPeriod' /\ DraftsAreNew'
<1>1. PICK h : h = handler[p]
  OBVIOUS
<1>2. h.pc = "editing" /\ Goto(p, Idle)
  BY <1>1 DEF CommitUpdate
<1>3. PICK i \in Payrolls : i = h.id /\ payrolls[i] \in Payroll
  BY <1>1, <1>2, HeldExists DEF PeriodsInv
<1>4. \A q \in Procs : Drafts(q)' => handler'[q] = handler[q]
  BY <1>2 DEF Goto, Drafts, Idle, PeriodsInv, IInv, TypeOK
<1>5. CASE doubled'
  BY <1>5 DEF OnePayrollPerPeriod, DraftsAreNew
<1>6. CASE UNCHANGED <<payrolls, doubled>>
  <2>1. NothingNew
    BY <1>6 DEF NothingNew, Visible
  <2> QED BY <1>4, <1>6, <2>1, NothingNewInv
<1>7. CASE /\ ~doubled'
           /\ payrolls' = [payrolls EXCEPT ![i] = Edited(@, h.period, h.sheet)]
           /\ doubled' = (doubled \/ h.period # payrolls[i].period)
  <2>1. PICK row : row = Edited(payrolls[i], h.period, h.sheet)
    OBVIOUS
  <2>2. /\ row.row = payrolls[i].row /\ row.emp = payrolls[i].emp
        /\ row.period = payrolls[i].period
    BY <1>3, <1>7, <2>1 DEF Edited, Payroll
  <2>3. /\ payrolls'[i] = row
        /\ \A j \in Payrolls : j # i => payrolls'[j] = payrolls[j]
    BY <1>7, <2>1 DEF PeriodsInv, IInv, TypeOK
  <2>4. NothingNew
    BY <2>2, <2>3 DEF NothingNew, Visible
  <2>5. doubled \in BOOLEAN /\ ~doubled
    BY <1>7 DEF PeriodsInv, IInv, TypeOK
  <2>6. doubled = FALSE
    BY <2>5
  <2> QED BY <1>4, <2>4, <2>6, NothingNewInv
<1> QED BY <1>1, <1>3, <1>5, <1>6, <1>7 DEF CommitUpdate

LEMMA WritePeriods ==
  ASSUME PeriodsInv, NEW p \in Procs,
         CommitFinalize(p) \/ CommitPayment(p) \/ CommitDeletion(p)
  PROVE  OnePayrollPerPeriod' /\ DraftsAreNew'
<1>1. PICK old \in Payroll : old = payrolls[handler[p].id]
  BY HeldExists DEF CommitFinalize, CommitPayment, CommitDeletion, WriteRow, PeriodsInv
<1>2. PICK i \in Payrolls : i = handler[p].id
  BY HeldExists DEF CommitFinalize, CommitPayment, CommitDeletion, WriteRow, PeriodsInv
<1>3. /\ doubled' = doubled
      /\ \A q \in Procs : Drafts(q)' => handler'[q] = handler[q]
  BY DEF CommitFinalize, CommitPayment, CommitDeletion, WriteRow, Goto, Drafts, Idle,
         PeriodsInv, IInv, TypeOK
<1>4. PICK row : /\ payrolls' = [payrolls EXCEPT ![i] = row]
                 /\ row \in {[old EXCEPT !.status = "PROCESSED", !.processed = TRUE],
                             [old EXCEPT !.status = "PAID"],
                             [old EXCEPT !.row = "deleted"]}
  BY <1>1, <1>2 DEF CommitFinalize, CommitPayment, CommitDeletion, WriteRow
<1>5. /\ row.emp = old.emp /\ row.period = old.period
      /\ row.row = "live" => old.row = "live"
  BY <1>4 DEF Payroll
<1>6. /\ payrolls'[i] = row
      /\ \A j \in Payrolls : j # i => payrolls'[j] = payrolls[j]
  BY <1>4 DEF PeriodsInv, IInv, TypeOK
<1>7. NothingNew
  BY <1>1, <1>2, <1>5, <1>6 DEF NothingNew, Visible
<1> QED BY <1>3, <1>7, NothingNewInv

LEMMA PeriodsStep == ASSUME PeriodsInv, [Next]_vars PROVE PeriodsInv'
<1>1. IInv'
  BY StepInv DEF PeriodsInv
<1>2. CASE UNCHANGED vars
  <2>1. NothingNew /\ doubled' = doubled /\ \A q \in Procs : handler'[q] = handler[q]
    BY <1>2 DEF vars, NothingNew, Visible
  <2> QED BY <1>1, <2>1, NothingNewInv DEF PeriodsInv
<1>3. ASSUME NEW p \in Procs, NEW i \in Payrolls,
             \/ ReadForFinalize(p, i) \/ ReadForPayment(p, i) \/ ReadForDeletion(p, i)
             \/ \E d \in Periods, g, x \in Amounts, t \in TaxTables :
                   ReadForUpdate(p, i, d, g, x, t)
      PROVE  OnePayrollPerPeriod' /\ DraftsAreNew'
  BY <1>3, ClaimPeriods DEF ReadForFinalize, ReadForPayment, ReadForDeletion, ReadForUpdate
<1> QED BY <1>1, <1>2, <1>3, CheckPeriodPeriods, CommitDraftPeriods, CommitUpdatePeriods,
           WritePeriods DEF Next, PeriodsInv

(* Absent two drafts of an employee at once and a payroll moved by updateAsync, *)
(* an employee has one payroll per period: the period that createDraftAsync     *)
(* found free stays free until it writes.                                       *)
THEOREM PeriodsAreUnique == Spec => []OnePayrollPerPeriod
<1>1. Init => PeriodsInv
  BY InitInv DEF Init, PeriodsInv, OnePayrollPerPeriod, DraftsAreNew, Drafts, Visible,
                 NoPayroll, Idle
<1>2. PeriodsInv /\ [Next]_vars => PeriodsInv'
  BY PeriodsStep
<1>3. PeriodsInv => OnePayrollPerPeriod
  BY DEF PeriodsInv
<1> QED BY <1>1, <1>2, <1>3, PTL DEF Spec

-----------------------------------------------------------------------------
(* A payroll that one handler holds at a time                                *)

Holding(p) == handler[p].pc \in {"editing", "finalizing", "paying", "deleting"}

\* What handler p has read of the payroll that it holds, and alone.
ReadIsTrue(p) ==
    LET h == handler[p]
    IN  /\ \A q \in Procs : Holds(q, h.id) => q = p
        /\ Visible(h.id)
        /\ payrolls[h.id].status = IF h.pc = "paying" THEN "PROCESSED" ELSE "PENDING"
        /\ h.pc = "editing" => (h.hadTax <=> taxCalc[h.id].row # "none")

\* The tax calculation of payroll i.
TaxOnFile(i) ==
    Exists(i) =>
        IF items[i].tax = 0 THEN taxCalc[i].row # "live"
        ELSE taxCalc[i] = [row |-> "live", amount |-> items[i].tax]

Uncontended ==
    contentions = 0 =>
        /\ \A p \in Procs : Holding(p) => ReadIsTrue(p)
        /\ \A i \in Payrolls : TaxOnFile(i)

\* Nothing but its payment happens to payroll i, once it is finalized.
Frozen(i) ==
    Exists(i) /\ payrolls[i].status # "PENDING" =>
        /\ items'[i] = items[i]
        /\ payrolls'[i] \in {payrolls[i], [payrolls[i] EXCEPT !.status = "PAID"]}

\* Payroll i is as it was.
Untouched(i) ==
    payrolls'[i] = payrolls[i] /\ items'[i] = items[i] /\ taxCalc'[i] = taxCalc[i]

LEMMA HoldingHolds ==
  ASSUME IInv, NEW p \in Procs
  PROVE  /\ Holding(p) => /\ handler[p].id \in Payrolls
                          /\ Exists(handler[p].id)
                          /\ Holds(p, handler[p].id)
         /\ \A i : Holds(p, i) => Holding(p) /\ handler[p].id = i
  BY HeldExists DEF Holding, Holds

LEMMA UntouchedTax ==
  ASSUME NEW i \in Payrolls, Untouched(i)
  PROVE  (TaxOnFile(i) => TaxOnFile(i)') /\ Frozen(i)
  BY DEF Untouched, TaxOnFile, Frozen, Exists

(* Handler p stays as it is, and so does the payroll that it holds. *)
LEMMA StillTrue ==
  ASSUME NEW p \in Procs, ReadIsTrue(p), handler'[p] = handler[p],
         Untouched(handler[p].id),
         \A q \in Procs : Holds(q, handler[p].id)' => Holds(q, handler[p].id)
  PROVE  ReadIsTrue(p)'
  BY DEF ReadIsTrue, Untouched, Holds, Visible

(* Steps that touch no payroll: handler p takes one up, or starts a draft. *)
LEMMA TakeUp ==
  ASSUME IInv, Uncontended, NEW p \in Procs, NEW h, Goto(p, h), ~Holding(p),
         UNCHANGED <<payrolls, items, taxCalc>>, contentions' = 0 => contentions = 0,
         contentions' = 0 =>
            (Holding(p)' =>
                /\ \A q \in Procs : ~Holds(q, h.id)
                /\ Visible(h.id)
                /\ payrolls[h.id].status = IF h.pc = "paying" THEN "PROCESSED" ELSE "PENDING"
                /\ h.pc = "editing" => (h.hadTax <=> taxCalc[h.id].row # "none"))
  PROVE  Uncontended' /\ \A i \in Payrolls : Frozen(i)
<1>1. handler'[p] = h /\ \A q \in Procs : q # p => handler'[q] = handler[q]
  BY DEF Goto, IInv, TypeOK
<1>2. \A i : Untouched(i)
  BY DEF Untouched
<1>3. \A i \in Payrolls : Frozen(i)
  BY <1>2, UntouchedTax
<1>4. ASSUME contentions' = 0 PROVE \A i \in Payrolls : TaxOnFile(i)'
  BY <1>2, <1>4, UntouchedTax DEF Uncontended
<1>5. ASSUME contentions' = 0, NEW q \in Procs, Holding(q)' PROVE ReadIsTrue(q)'
  <2>1. CASE q = p
    <3>1. /\ \A r \in Procs : ~Holds(r, h.id)
          /\ Visible(h.id)
          /\ payrolls[h.id].status = IF h.pc = "paying" THEN "PROCESSED" ELSE "PENDING"
          /\ h.pc = "editing" => (h.hadTax <=> taxCalc[h.id].row # "none")
      BY <1>5, <2>1
    <3>2. \A r \in Procs : Holds(r, h.id)' => r = p
      BY <1>1, <3>1 DEF Holds
    <3> QED BY <1>1, <2>1, <3>1, <3>2 DEF ReadIsTrue, Holds, Visible
  <2>2. CASE q # p
    <3>1. handler'[q] = handler[q] /\ Holding(q)
      BY <1>1, <1>5, <2>2 DEF Holding
    <3>2. ReadIsTrue(q)
      BY <1>5, <3>1 DEF Uncontended
    <3>3. ASSUME NEW r \in Procs, Holds(r, handler[q].id)' PROVE Holds(r, handler[q].id)
      <4>1. CASE r # p
        BY <1>1, <3>1, <3>3, <4>1 DEF Holds
      <4>2. CASE r = p
        <5>1. h.id = handler[q].id /\ Holding(p)'
          BY <1>1, <3>1, <3>3, <4>2 DEF Holds, Holding
        <5>2. ~Holds(q, h.id)
          BY <1>5, <5>1
        <5> QED BY <3>1, <5>1, <5>2, HoldingHolds
      <4> QED BY <4>1, <4>2
    <3> QED BY <1>2, <3>1, <3>2, <3>3, StillTrue
  <2> QED BY <2>1, <2>2
<1> QED BY <1>3, <1>4, <1>5 DEF Uncontended

(* Handler p writes payroll i, which no other holds, and is done. *)
LEMMA LetGo ==
  ASSUME IInv, Uncontended, NEW p \in Procs, NEW i \in Payrolls, Goto(p, Idle),
         contentions' = contentions,
         \A j \in Payrolls : j # i => Untouched(j),
         contentions = 0 =>
            /\ \A q \in Procs : Holds(q, i) => q = p
            /\ TaxOnFile(i)'
            /\ Frozen(i)
  PROVE  Uncontended' /\ (contentions' = 0 => \A j \in Payrolls : Frozen(j))
<1> SUFFICES ASSUME contentions = 0
             PROVE  Uncontended' /\ \A j \in Payrolls : Frozen(j)
  BY DEF Uncontended
<1>1. handler'[p] = Idle /\ \A q \in Procs : q # p => handler'[q] = handler[q]
  BY DEF Goto, IInv, TypeOK
<1>2. \A j \in Payrolls : Frozen(j) /\ TaxOnFile(j)'
  BY UntouchedTax DEF Uncontended
<1>3. ASSUME NEW q \in Procs, Holding(q)' PROVE ReadIsTrue(q)'
  <2>1. q # p /\ handler'[q] = handler[q] /\ Holding(q)
    BY <1>1, <1>3 DEF Holding, Idle
  <2>2. handler[q].id \in Payrolls /\ handler[q].id # i
    BY <2>1, HoldingHolds
  <2>3. Untouched(handler[q].id)
    BY <2>2
  <2>4. \A r \in Procs : Holds(r, handler[q].id)' => Holds(r, handler[q].id)
    BY <1>1, <2>1 DEF Holds, Idle
  <2> QED BY <2>1, <2>3, <2>4, StillTrue DEF Uncontended
<1> QED BY <1>2, <1>3 DEF Uncontended

LEMMA ClaimUncontended ==
  ASSUME IInv, Uncontended, NEW p \in Procs, NEW i \in Payrolls, NEW s, NEW h,
         Claim(p, i, s, h), h.id = i,
         s = IF h.pc = "paying" THEN "PROCESSED" ELSE "PENDING",
         h.pc = "editing" => (h.hadTax <=> taxCalc[i].row # "none")
  PROVE  Uncontended' /\ \A j \in Payrolls : Frozen(j)
<1>1. contentions \in Nat
  BY DEF IInv, TypeOK
<1>2. contentions' = 0 => contentions = 0 /\ \A q \in Procs : ~Holds(q, i)
  BY <1>1 DEF Claim
<1>3. /\ Goto(p, h) /\ ~Holding(p) /\ UNCHANGED <<payrolls, items, taxCalc>>
      /\ payrolls[i].status = s /\ Visible(i)
  BY DEF Claim, Holding
<1> QED BY <1>2, <1>3, TakeUp

LEMMA CheckPeriodUncontended ==
  ASSUME IInv, Uncontended, NEW p \in Procs, NEW e, NEW d, NEW g, NEW x, NEW t,
         CheckPeriod(p, e, d, g, x, t)
  PROVE  Uncontended' /\ \A j \in Payrolls : Frozen(j)
<1>1. PICK h : h = [pc |-> "drafting", emp |-> e, period |-> d,
                    sheet |-> [gross |-> g, tax |-> TaxDue(t, g), ded |-> x]]
  OBVIOUS
<1>2. Goto(p, h) /\ ~Holding(p) /\ UNCHANGED <<payrolls, items, taxCalc, contentions>>
  BY <1>1 DEF CheckPeriod, Holding
<1>3. ~Holding(p)'
  BY <1>1, <1>2 DEF Goto, Holding, IInv, TypeOK
<1> QED BY <1>2, <1>3, TakeUp

(* A sheet and the tax calculation that is stored with it. *)
LEMMA TaxCalcMatches ==
  ASSUME NEW s \in Sheets, NEW c, c \in {TaxCalcOf(s)} \/ (s.tax = 0 /\ c.row # "live")
  PROVE  IF s.tax = 0 THEN c.row # "live" ELSE c = [row |-> "live", amount |-> s.tax]
  BY DEF Sheets, TaxCalcOf, NoTaxCalc

LEMMA UpdatesMatch ==
  ASSUME NEW s \in Sheets, NEW old \in TaxCalc, NEW had, had <=> old.row # "none",
         NEW c \in TaxCalcUpdates(old, had, s)
  PROVE  IF s.tax = 0 THEN c.row # "live" ELSE c = [row |-> "live", amount |-> s.tax]
<1>1. CASE s.tax = 0
  <2>1. CASE had
    <3>1. PICK m \in DeleteModes : c = TaxCalcDeleted(old, m)
      BY <1>1, <2>1 DEF TaxCalcUpdates
    <3>2. c.row # "live"
      BY <3>1 DEF TaxCalcDeleted, TaxCalc, NoTaxCalc
    <3> QED BY <1>1, <3>2
  <2>2. CASE ~had
    BY <1>1, <2>2 DEF TaxCalcUpdates
  <2> QED BY <2>1, <2>2
<1>2. CASE s.tax # 0
  <2>1. c = TaxCalcOf(s)
    BY <1>2 DEF TaxCalcUpdates
  <2> QED BY <2>1, TaxCalcMatches
<1> QED BY <1>1, <1>2

LEMMA CommitDraftUncontended ==
  ASSUME IInv, Uncontended, NEW p \in Procs, CommitDraft(p)
  PROVE  Uncontended' /\ (contentions' = 0 => \A j \in Payrolls : Frozen(j))
<1>1. PICK h : h = handler[p]
  OBVIOUS
<1>2. h.sheet \in Sheets /\ h.pc = "drafting"
  BY <1>1, HandlerFields DEF CommitDraft, IInv, Idle
<1>3. PICK i \in Payrolls :
         /\ ~Exists(i)
         /\ \E row : payrolls' = [payrolls EXCEPT ![i] = row]
         /\ items' = [items EXCEPT ![i] = h.sheet]
         /\ taxCalc' = [taxCalc EXCEPT ![i] = TaxCalcOf(h.sheet)]
  BY <1>1 DEF CommitDraft
<1>4. Goto(p, Idle) /\ contentions' = contentions
  BY DEF CommitDraft
<1>5. \A j \in Payrolls : j # i => Untouched(j)
  BY <1>3 DEF Untouched, IInv, TypeOK
<1>6. items'[i] = h.sheet /\ taxCalc'[i] = TaxCalcOf(h.sheet)
  BY <1>3 DEF IInv, TypeOK
<1>7. TaxOnFile(i)'
  BY <1>2, <1>6, TaxCalcMatches DEF TaxOnFile
<1>8. Frozen(i) /\ \A q \in Procs : ~Holds(q, i)
  BY <1>3, HoldingHolds DEF Frozen
<1> QED BY <1>4, <1>5, <1>7, <1>8, LetGo

LEMMA CommitUpdateUncontended ==
  ASSUME IInv, Uncontended, NEW p \in Procs, CommitUpdate(p)
  PROVE  Uncontended' /\ (contentions' = 0 => \A j \in Payrolls : Frozen(j))
<1>1. PICK h : h = handler[p]
  OBVIOUS
<1>2. h.pc = "editing" /\ Holding(p) /\ Goto(p, Idle) /\ contentions' = contentions
  BY <1>1 DEF CommitUpdate, Holding
<1>3. PICK i \in Payrolls : i = h.id /\ Exists(i)
  BY <1>1, <1>2, HoldingHolds
<1>4. h.sheet \in Sheets
  BY <1>1, <1>2, HandlerFields DEF IInv, Idle
<1>5. CASE UNCHANGED <<payrolls, items, taxCalc>>
  <2>1. ~Holding(p)'
    BY <1>2 DEF Goto, Holding, Idle, IInv, TypeOK
  <2>2. \A j \in Payrolls : Untouched(j) /\ Frozen(j)
    BY <1>5, UntouchedTax DEF Untouched
  <2>3. contentions = 0 => ReadIsTrue(p) /\ TaxOnFile(i)
    BY <1>2 DEF Uncontended
  <2>4. contentions = 0 => TaxOnFile(i)' /\ \A q \in Procs : Holds(q, i) => q = p
    BY <1>1, <1>3, <2>2, <2>3, UntouchedTax DEF ReadIsTrue
  <2> QED BY <1>2, <2>2, <2>4, LetGo
<1>6. ASSUME NEW c \in TaxCalcUpdates(taxCalc[i], h.hadTax, h.sheet),
             payrolls' = [payrolls EXCEPT ![i] = Edited(@, h.period, h.sheet)],
             items' = [items EXCEPT ![i] = h.sheet],
             taxCalc' = [taxCalc EXCEPT ![i] = c]
      PROVE  Uncontended' /\ (contentions' = 0 => \A j \in Payrolls : Frozen(j))
  <2>1. \A j \in Payrolls : j # i => Untouched(j)
    BY <1>6 DEF Untouched, IInv, TypeOK
  <2>2. items'[i] = h.sheet /\ taxCalc'[i] = c
    BY <1>6 DEF IInv, TypeOK
  <2>3. ASSUME contentions = 0
        PROVE  (\A q \in Procs : Holds(q, i) => q = p) /\ TaxOnFile(i)' /\ Frozen(i)
    <3>1. /\ \A q \in Procs : Holds(q, i) => q = p
          /\ payrolls[i].status = "PENDING"
          /\ h.hadTax <=> taxCalc[i].row # "none"
      BY <1>1, <1>2, <1>3, <2>3 DEF Uncontended, ReadIsTrue
    <3>2. taxCalc[i] \in TaxCalc
      BY DEF IInv, TypeOK
    <3>3. TaxOnFile(i)'
      BY <1>4, <1>6, <2>2, <3>1, <3>2, UpdatesMatch DEF TaxOnFile
    <3> QED BY <3>1, <3>3 DEF Frozen
  <2> QED BY <1>2, <2>1, <2>3, LetGo
<1> QED BY <1>1, <1>3, <1>5, <1>6 DEF CommitUpdate

LEMMA WriteRowUncontended ==
  ASSUME IInv, Uncontended, NEW p \in Procs,
         NEW at \in {"finalizing", "paying", "deleting"}, NEW row, WriteRow(p, at, row),
         at = "paying" => row = [payrolls[handler[p].id] EXCEPT !.status = "PAID"]
  PROVE  Uncontended' /\ (contentions' = 0 => \A j \in Payrolls : Frozen(j))
<1>1. Holding(p) /\ handler[p].pc = at /\ Goto(p, Idle) /\ contentions' = contentions
  BY DEF WriteRow, Holding
<1>2. PICK i \in Payrolls : i = handler[p].id /\ Exists(i)
  BY <1>1, HoldingHolds
<1>3. /\ payrolls'[i] = row /\ items'[i] = items[i] /\ taxCalc'[i] = taxCalc[i]
      /\ \A j \in Payrolls : j # i => Untouched(j)
  BY <1>2 DEF WriteRow, Untouched, IInv, TypeOK
<1>4. ASSUME contentions = 0
      PROVE  (\A q \in Procs : Holds(q, i) => q = p) /\ TaxOnFile(i)' /\ Frozen(i)
  <2>1. /\ \A q \in Procs : Holds(q, i) => q = p
        /\ at # "paying" => payrolls[i].status = "PENDING"
        /\ TaxOnFile(i)
    BY <1>1, <1>2, <1>4 DEF Uncontended, ReadIsTrue
  <2>2. TaxOnFile(i)'
    BY <1>2, <1>3, <2>1 DEF TaxOnFile
  <2>3. Frozen(i)
    BY <1>2, <1>3, <2>1 DEF Frozen
  <2> QED BY <2>1, <2>2, <2>3
<1> QED BY <1>1, <1>3, <1>4, LetGo

LEMMA UncontendedStep ==
  ASSUME IInv, Uncontended, [Next]_vars
  PROVE  Uncontended' /\ (contentions' = 0 => \A j \in Payrolls : Frozen(j))
<1>1. CASE UNCHANGED vars
  <2>1. \A i : Untouched(i)
    BY <1>1 DEF vars, Untouched
  <2>2. \A p \in Procs : handler'[p] = handler[p] /\ contentions' = contentions
    BY <1>1 DEF vars
  <2>3. ASSUME contentions' = 0, NEW p \in Procs, Holding(p)' PROVE ReadIsTrue(p)'
    <3>1. Holding(p) /\ contentions = 0
      BY <2>2, <2>3 DEF Holding
    <3> QED BY <2>1, <2>2, <3>1, StillTrue DEF Uncontended, Holds
  <2>4. ASSUME contentions' = 0, NEW i \in Payrolls PROVE TaxOnFile(i)'
    BY <2>1, <1>1, <2>4, UntouchedTax DEF Uncontended, vars
  <2> QED BY <2>1, <2>3, <2>4, UntouchedTax DEF Uncontended
<1>2. ASSUME NEW p \in Procs, NEW i \in Payrolls,
             \/ ReadForFinalize(p, i) \/ ReadForPayment(p, i) \/ ReadForDeletion(p, i)
             \/ \E d \in Periods, g, x \in Amounts, t \in TaxTables :
                   ReadForUpdate(p, i, d, g, x, t)
      PROVE  Uncontended' /\ \A j \in Payrolls : Frozen(j)
  <2>1. CASE ReadForFinalize(p, i)
    BY <2>1, ClaimUncontended DEF ReadForFinalize
  <2>2. CASE ReadForPayment(p, i)
    BY <2>2, ClaimUncontended DEF ReadForPayment
  <2>3. CASE ReadForDeletion(p, i)
    BY <2>3, ClaimUncontended DEF ReadForDeletion
  <2>4. ASSUME NEW d, NEW g, NEW x, NEW t, ReadForUpdate(p, i, d, g, x, t)
        PROVE  Uncontended' /\ \A j \in Payrolls : Frozen(j)
    <3>1. PICK s : s = [gross |-> g, tax |-> TaxDue(t, g), ded |-> x]
      OBVIOUS
    <3>2. PICK h : h = [pc |-> "editing", id |-> i, period |-> d, sheet |-> s,
                        hadTax |-> taxCalc[i].row # "none"]
      OBVIOUS
    <3>3. Claim(p, i, "PENDING", h)
      BY <2>4, <3>1, <3>2 DEF ReadForUpdate
    <3>4. h.id = i /\ h.pc = "editing" /\ (h.hadTax <=> taxCalc[i].row # "none")
      BY <3>2
    <3> QED BY <3>3, <3>4, ClaimUncontended
  <2> QED BY <1>2, <2>1, <2>2, <2>3, <2>4
<1>3. ASSUME NEW p \in Procs, CommitFinalize(p) \/ CommitPayment(p) \/ CommitDeletion(p)
      PROVE  Uncontended' /\ (contentions' = 0 => \A j \in Payrolls : Frozen(j))
  BY <1>3, WriteRowUncontended DEF CommitFinalize, CommitPayment, CommitDeletion
<1>4. ASSUME NEW p \in Procs, NEW e, NEW d, NEW g, NEW x, NEW t,
             CheckPeriod(p, e, d, g, x, t)
      PROVE  Uncontended' /\ \A j \in Payrolls : Frozen(j)
  BY <1>4, CheckPeriodUncontended
<1> QED BY <1>1, <1>2, <1>3, <1>4, CommitDraftUncontended, CommitUpdateUncontended DEF Next

LEMMA AlwaysUncontended == Spec => [](IInv /\ Uncontended)
<1>1. Init => IInv /\ Uncontended
  <2>1. Init => Uncontended
    BY DEF Init, Uncontended, Holding, Idle, TaxOnFile, Exists
  <2> QED BY <2>1, InitInv
<1>2. IInv /\ Uncontended /\ [Next]_vars => IInv' /\ Uncontended'
  BY StepInv, UncontendedStep
<1> QED BY <1>1, <1>2, PTL DEF Spec

(* As long as no two handlers hold the same payroll, the tax calculation on file is the *)
(* tax on the payslip: what updateAsync read of it is still so when it writes.          *)
THEOREM TaxStaysOnFile == Spec => []TaxCalcMatchesItems
<1>1. Uncontended => TaxCalcMatchesItems
  BY DEF Uncontended, TaxCalcMatchesItems, TaxOnFile
<1> QED BY <1>1, AlwaysUncontended, PTL

(* And nothing but its payment happens to a payroll that finalizeAsync has processed.   *)
THEOREM FinalizedStays == Spec => FinalizedIsFrozen
<1>1. IInv /\ Uncontended /\ [Next]_vars =>
        [contentions' = 0 =>
          \A i \in Payrolls :
              Exists(i) /\ payrolls[i].status # "PENDING" =>
                  /\ items'[i] = items[i]
                  /\ payrolls'[i] \in {payrolls[i],
                                       [payrolls[i] EXCEPT !.status = "PAID"]}]_vars
  BY UncontendedStep DEF Frozen
<1> QED BY <1>1, AlwaysUncontended, PTL DEF Spec, FinalizedIsFrozen

-----------------------------------------------------------------------------
(* PayrollLife: what becomes of the payrolls is what operations in one step make of them *)

\* A payroll that a handler is about to mark as paid is not PENDING any more.
PaymentsWait ==
    \A p \in Procs : handler[p].pc = "paying" => payrolls[handler[p].id].status # "PENDING"

LifeInv == PeriodsInv /\ Uncontended /\ PaymentsWait

LEMMA PaymentsWaitStep ==
  ASSUME IInv, PaymentsWait, [Next]_vars
  PROVE  PaymentsWait'
<1>1. CASE UNCHANGED vars
  BY <1>1 DEF vars, PaymentsWait
<1>2. ASSUME NEW q \in Procs, NEW h, Goto(q, h), h.pc # "paying", Next
      PROVE  PaymentsWait'
  <2> SUFFICES ASSUME NEW p \in Procs, handler'[p].pc = "paying"
               PROVE  payrolls'[handler'[p].id].status # "PENDING"
    BY DEF PaymentsWait
  <2>1. handler'[p] = handler[p]
    BY <1>2 DEF Goto, IInv, TypeOK
  <2>2. PICK i \in Payrolls : i = handler[p].id /\ Exists(i) /\ payrolls[i].status # "PENDING"
    BY <2>1, HeldExists DEF PaymentsWait
  <2> QED BY <1>2, <2>1, <2>2, StatusKept
<1>3. ASSUME NEW q \in Procs, NEW i \in Payrolls, ReadForPayment(q, i)
      PROVE  PaymentsWait'
  <2>1. PICK h : h = [pc |-> "paying", id |-> i]
    OBVIOUS
  <2>2. Goto(q, h) /\ payrolls' = payrolls /\ payrolls[i].status = "PROCESSED"
    BY <1>3, <2>1 DEF ReadForPayment, Claim
  <2>3. handler'[q] = h /\ \A p \in Procs : p # q => handler'[p] = handler[p]
    BY <2>2 DEF Goto, IInv, TypeOK
  <2> QED BY <2>1, <2>2, <2>3 DEF PaymentsWait
<1>4. ASSUME NEW q \in Procs, NEW e, NEW d, NEW g, NEW x, NEW t, CheckPeriod(q, e, d, g, x, t)
      PROVE  \E h : Goto(q, h) /\ h.pc # "paying"
  BY <1>4 DEF CheckPeriod
<1>5. ASSUME NEW q \in Procs, NEW i, NEW d, NEW g, NEW x, NEW t,
             ReadForUpdate(q, i, d, g, x, t) \/ ReadForFinalize(q, i) \/ ReadForDeletion(q, i)
      PROVE  \E h : Goto(q, h) /\ h.pc # "paying"
  <2>1. CASE ReadForUpdate(q, i, d, g, x, t)
    <3>1. PICK h : h = [pc |-> "editing", id |-> i, period |-> d,
                        sheet |-> [gross |-> g, tax |-> TaxDue(t, g), ded |-> x],
                        hadTax |-> taxCalc[i].row # "none"]
      OBVIOUS
    <3>2. Goto(q, h) /\ h.pc # "paying"
      BY <2>1, <3>1 DEF ReadForUpdate, Claim
    <3> QED BY <3>2
  <2>2. CASE ReadForFinalize(q, i)
    BY <2>2 DEF ReadForFinalize, Claim
  <2>3. CASE ReadForDeletion(q, i)
    BY <2>3 DEF ReadForDeletion, Claim
  <2> QED BY <1>5, <2>1, <2>2, <2>3
<1>6. ASSUME NEW q \in Procs, \/ CommitDraft(q) \/ CommitUpdate(q) \/ CommitFinalize(q)
                              \/ CommitPayment(q) \/ CommitDeletion(q)
      PROVE  Goto(q, Idle) /\ Idle.pc # "paying"
  BY <1>6 DEF CommitDraft, CommitUpdate, CommitFinalize, CommitPayment, CommitDeletion,
              WriteRow, Idle
<1>7. CASE Next
  <2>1. PICK q \in Procs :
          \/ \E h : Goto(q, h) /\ h.pc # "paying"
          \/ \E i \in Payrolls : ReadForPayment(q, i)
    BY <1>4, <1>5, <1>6, <1>7 DEF Next
  <2> QED BY <1>2, <1>3, <1>7, <2>1
<1> QED BY <1>1, <1>7

LEMMA LifeInvStep == LifeInv /\ [Next]_vars => LifeInv'
  BY PeriodsStep, UncontendedStep, PaymentsWaitStep DEF LifeInv, PeriodsInv

LEMMA LifeInvInit == Init => LifeInv
  BY InitInv DEF Init, LifeInv, PeriodsInv, OnePayrollPerPeriod, DraftsAreNew, Drafts, Visible,
                 NoPayroll, Idle, Uncontended, Holding, TaxOnFile, Exists, PaymentsWait

(* What PayrollLife sees of a payroll *)
LEMMA Seen ==
  ASSUME IInv, NEW i \in Payrolls
  PROVE  /\ ~Exists(i) => Stage[i] = "none" /\ Payslips[i] = NoPayroll
         /\ Exists(i) =>
              /\ Stage[i] = IF Visible(i) THEN payrolls[i].status ELSE "deleted"
              /\ Stage[i] \in {"PENDING", "PROCESSED", "PAID", "deleted"}
              /\ Life!Current(i) <=> Visible(i)
              /\ Payslips[i] \in Life!Payslip
              /\ Payslips[i].emp = payrolls[i].emp /\ Payslips[i].period = payrolls[i].period
              /\ Payslips[i].gross = items[i].gross /\ Payslips[i].tax = items[i].tax
              /\ Payslips[i].ded = items[i].ded /\ Payslips[i].net = payrolls[i].net
              /\ payrolls[i].net = items[i].gross - (items[i].tax + items[i].ded)
         /\ Filed[i] = IF taxCalc[i].row = "live" THEN taxCalc[i].amount ELSE 0
         /\ Filed[i] \in Nat
<1>1. taxCalc[i] \in TaxCalc /\ items[i] \in Sheets
  BY DEF IInv, TypeOK
<1>2. /\ Filed[i] = IF taxCalc[i].row = "live" THEN taxCalc[i].amount ELSE 0
      /\ Filed[i] \in Nat
  BY <1>1 DEF Filed, TaxCalc
<1>3. CASE ~Exists(i)
  BY <1>2, <1>3 DEF Stage, Payslips
<1>4. CASE Exists(i)
  <2>1. payrolls[i] \in Payroll
    BY <1>4, PayrollExists DEF IInv
  <2>2. Stage[i] = IF Visible(i) THEN payrolls[i].status ELSE "deleted"
    BY <1>4 DEF Stage
  <2>3. payrolls[i].status \in Statuses /\ payrolls[i].net = Net(items[i])
    BY <1>4, <2>1 DEF Payroll, IInv, ItemsMatchRow
  <2>4. Payslips[i] = Slip(i)
    BY <1>4 DEF Payslips
  <2>5. Slip(i) \in Life!Payslip
    BY <1>1, <2>1 DEF Slip, Life!Payslip, Payroll, Sheets
  <2>6. Life!Current(i) <=> Visible(i)
    BY <2>2, <2>3 DEF Life!Current, Statuses
  <2> QED BY <1>2, <1>4, <2>2, <2>3, <2>4, <2>5, <2>6 DEF Slip, Statuses, Net
<1> QED BY <1>3, <1>4

LEMMA NextSlip == ASSUME NEW i \in Payrolls, Exists(i)' PROVE Payslips'[i] = Slip(i)'
  BY DEF Payslips, Slip, Exists

(* A step that touches payroll i only *)
LEMMA Remapped ==
  ASSUME NEW i \in Payrolls, \A j \in Payrolls : j # i => Untouched(j)
  PROVE  /\ Stage' = [Stage EXCEPT ![i] = Stage'[i]]
         /\ Payslips' = [Payslips EXCEPT ![i] = Payslips'[i]]
         /\ Filed' = [Filed EXCEPT ![i] = Filed'[i]]
<1>1. \A j \in Payrolls : j # i => (Exists(j)' <=> Exists(j)) /\ (Visible(j)' <=> Visible(j))
  BY DEF Untouched, Exists, Visible
<1>2. \A j \in Payrolls : j # i => Slip(j)' = Slip(j)
  BY DEF Untouched, Slip
<1>3. Stage' = [Stage EXCEPT ![i] = Stage'[i]]
  BY <1>1 DEF Stage, Untouched
<1>4. Payslips' = [Payslips EXCEPT ![i] = Payslips'[i]]
  BY <1>1, <1>2 DEF Payslips
<1>5. Filed' = [Filed EXCEPT ![i] = Filed'[i]]
  BY DEF Filed, Untouched
<1> QED BY <1>3, <1>4, <1>5

LEMMA Unmoved ==
  ASSUME UNCHANGED <<payrolls, items, taxCalc>>
  PROVE  UNCHANGED <<Stage, Payslips, Filed>>
  BY DEF Stage, Payslips, Filed, Slip, Exists, Visible

LEMMA StillSeen ==
  ASSUME NEW i \in Payrolls, payrolls'[i] = payrolls[i], items'[i] = items[i],
         taxCalc'[i] = taxCalc[i]
  PROVE  Stage'[i] = Stage[i] /\ Payslips'[i] = Payslips[i] /\ Filed'[i] = Filed[i]
  BY DEF Stage, Payslips, Filed, Slip, Exists, Visible

(* Reads *)
LEMMA ReadsStutter ==
  ASSUME IInv, UNCHANGED <<payrolls, items, taxCalc>>,
         \/ doubled' = doubled /\ contentions' \in {contentions, contentions + 1}
         \/ contentions' = contentions /\ doubled' \in {doubled, TRUE}
  PROVE  [Life!Next]_(Life!vars)
<1>1. UNCHANGED <<Stage, Payslips, Filed>>
  BY Unmoved
<1>2. contentions \in Nat
  BY DEF IInv, TypeOK
<1>3. CASE contentions' = contentions /\ doubled' = doubled
  BY <1>1, <1>3 DEF Life!vars, Contended
<1>4. CASE contentions' = contentions + 1 /\ doubled' = doubled
  <2>1. Contended'
    BY <1>2, <1>4 DEF Contended
  <2>2. Contended' = TRUE
    BY <2>1
  <2> QED BY <1>1, <1>4, <2>2 DEF Life!Next, Life!Contend
<1>5. CASE contentions' = contentions /\ doubled' = TRUE
  <2>1. Contended' = Contended
    BY <1>5 DEF Contended
  <2> QED BY <1>1, <1>5, <2>1 DEF Life!Next, Life!Double
<1> QED BY <1>3, <1>4, <1>5

(* Payslip i is written. *)
WellFormed ==
    \A i \in Payrolls : Exists(i) =>
        /\ Payslips[i] \in Life!Payslip
        /\ Payslips[i].net = Payslips[i].gross - (Payslips[i].tax + Payslips[i].ded)
        /\ Filed[i] \in Nat

LEMMA SeenWell == IInv => WellFormed
  BY Seen DEF WellFormed

LEMMA Written ==
  ASSUME IInv', NEW i \in Payrolls, Exists(i)', \A j \in Payrolls : j # i => Untouched(j)
  PROVE  Life!Write(i, Payslips'[i], Filed'[i])
<1>1. /\ Payslips'[i] \in Life!Payslip
      /\ Payslips'[i].net = Payslips'[i].gross - (Payslips'[i].tax + Payslips'[i].ded)
      /\ Filed'[i] \in Nat
  <2>1. WellFormed'
    BY SeenWell, PTL
  <2> QED BY <2>1 DEF WellFormed
<1>2. /\ Payslips' = [Payslips EXCEPT ![i] = Payslips'[i]]
      /\ Filed' = [Filed EXCEPT ![i] = Filed'[i]]
  BY Remapped
<1> QED BY <1>1, <1>2 DEF Life!Write

LEMMA DraftIsDrafted ==
  ASSUME LifeInv, LifeInv', NEW p \in Procs, CommitDraft(p)
  PROVE  Life!Next
<1>1. PICK h : h = handler[p]
  OBVIOUS
<1>2. h.sheet \in Sheets /\ Drafts(p)
  BY <1>1, HandlerFields DEF CommitDraft, LifeInv, PeriodsInv, IInv, Idle, Drafts
<1>3. PICK row : row = [row |-> "live", emp |-> h.emp, period |-> h.period,
                        gross |-> h.sheet.gross, ded |-> h.sheet.ded,
                        net |-> Net(h.sheet), status |-> "PENDING",
                        processed |-> FALSE]
  OBVIOUS
<1>4. PICK i \in Payrolls :
         /\ ~Exists(i)
         /\ payrolls' = [payrolls EXCEPT ![i] = row]
         /\ items' = [items EXCEPT ![i] = h.sheet]
         /\ taxCalc' = [taxCalc EXCEPT ![i] = TaxCalcOf(h.sheet)]
  BY <1>1, <1>3 DEF CommitDraft
<1>5. contentions' = contentions /\ doubled' = doubled
  BY DEF CommitDraft
<1>6. /\ payrolls'[i] = row /\ items'[i] = h.sheet /\ taxCalc'[i] = TaxCalcOf(h.sheet)
      /\ \A j \in Payrolls : j # i => Untouched(j)
  BY <1>4 DEF LifeInv, PeriodsInv, IInv, TypeOK, Untouched
<1>7. Exists(i)' /\ Visible(i)' /\ IInv /\ IInv'
  BY <1>3, <1>6 DEF Exists, Visible, NoPayroll, LifeInv, PeriodsInv
<1>8. Stage[i] = "none"
  BY <1>4, <1>7, Seen
<1>9. /\ Stage'[i] = "PENDING"
      /\ Payslips'[i].emp = h.emp /\ Payslips'[i].period = h.period
      /\ Payslips'[i].tax = h.sheet.tax
  <2>1. Stage'[i] = payrolls'[i].status
    BY <1>7 DEF Stage
  <2>2. Payslips'[i] = Slip(i)'
    BY <1>7, NextSlip
  <2> QED BY <1>3, <1>6, <2>1, <2>2 DEF Slip
<1>10. Filed'[i] = h.sheet.tax
  BY <1>2, <1>6 DEF Filed, TaxCalcOf, NoTaxCalc, Sheets
<1>11. Life!Write(i, Payslips'[i], Payslips'[i].tax)
  BY <1>6, <1>7, <1>9, <1>10, Written
<1>12. Life!Move(i, "PENDING")
  BY <1>6, <1>9, Remapped DEF Life!Move
<1>13. ASSUME ~doubled, NEW j \in Payrolls, Life!Current(j)
       PROVE  Payslips[j].emp # Payslips'[i].emp \/ Payslips[j].period # Payslips'[i].period
  <2>1. Exists(j)
    BY <1>7, <1>13, Seen DEF Life!Current
  <2>2. Visible(j) /\ Payslips[j].emp = payrolls[j].emp /\ Payslips[j].period = payrolls[j].period
    BY <1>7, <1>13, <2>1, Seen
  <2>3. ~HasPayroll(h.emp, h.period)
    BY <1>1, <1>2, <1>13 DEF LifeInv, PeriodsInv, DraftsAreNew
  <2> QED BY <1>9, <2>2, <2>3 DEF HasPayroll
<1>14. UNCHANGED <<Contended, doubled>>
  BY <1>5 DEF Contended
<1>15. Life!Draft(i)
  BY <1>8, <1>11, <1>12, <1>13, <1>14 DEF Life!Draft
<1> QED BY <1>15 DEF Life!Next

LEMMA UpdateIsEdit ==
  ASSUME LifeInv, LifeInv', NEW p \in Procs, CommitUpdate(p)
  PROVE  [Life!Next]_(Life!vars)
<1>1. PICK h : h = handler[p]
  OBVIOUS
<1>2. h.pc = "editing" /\ Holding(p) /\ contentions' = contentions
  BY <1>1 DEF CommitUpdate, Holding
<1>3. IInv /\ IInv' /\ Uncontended /\ Uncontended'
  BY DEF LifeInv, PeriodsInv
<1>4. PICK i \in Payrolls : i = h.id /\ Exists(i) /\ payrolls[i] \in Payroll
  BY <1>1, <1>2, <1>3, HoldingHolds, PayrollExists DEF IInv
<1>5. CASE UNCHANGED <<payrolls, items, taxCalc, doubled>>
  BY <1>2, <1>3, <1>5, ReadsStutter
<1>6. ASSUME NEW c,
             payrolls' = [payrolls EXCEPT ![i] = Edited(@, h.period, h.sheet)],
             items' = [items EXCEPT ![i] = h.sheet],
             taxCalc' = [taxCalc EXCEPT ![i] = c],
             doubled' = (doubled \/ h.period # payrolls[i].period)
      PROVE  Life!Next
  <2>1. /\ payrolls'[i] = Edited(payrolls[i], h.period, h.sheet)
        /\ \A j \in Payrolls : j # i => Untouched(j)
    BY <1>3, <1>6 DEF IInv, TypeOK, Untouched
  <2>2. /\ payrolls'[i].row = payrolls[i].row /\ payrolls'[i].status = payrolls[i].status
        /\ payrolls'[i].emp = payrolls[i].emp /\ payrolls'[i].period = h.period
    BY <1>4, <2>1 DEF Edited, Payroll
  <2>3. Exists(i)' /\ (Visible(i)' <=> Visible(i))
    <3>1. Edited(payrolls[i], h.period, h.sheet) # NoPayroll
      BY <1>4 DEF Edited, Payroll, NoPayroll
    <3> QED BY <2>1, <2>2, <3>1 DEF Exists, Visible
  <2>4. Stage[i] # "none" /\ (Stage[i] = "PENDING" \/ Contended)
    <3>1. Contended \/ contentions = 0
      BY <1>3 DEF Contended, IInv, TypeOK
    <3>2. ASSUME contentions = 0 PROVE Visible(i) /\ payrolls[i].status = "PENDING"
      BY <1>1, <1>2, <1>3, <1>4, <3>2 DEF Uncontended, ReadIsTrue
    <3> QED BY <1>3, <1>4, <3>1, <3>2, Seen
  <2>5. /\ Payslips'[i].emp = Payslips[i].emp
        /\ Payslips'[i].period = h.period /\ Payslips[i].period = payrolls[i].period
        /\ Payslips'[i].tax = items'[i].tax
    <3>1. Payslips'[i] = Slip(i)'
      BY <2>3, NextSlip
    <3> QED BY <1>3, <1>4, <2>2, <3>1, Seen DEF Slip
  <2>6. doubled' = (doubled \/ Payslips'[i].period # Payslips[i].period)
    BY <1>6, <2>5
  <2>7. Stage' = Stage
    <3>1. Stage'[i] = Stage[i]
      BY <1>4, <2>2, <2>3 DEF Stage
    <3>2. Stage' = [Stage EXCEPT ![i] = Stage[i]]
      BY <2>1, <3>1, Remapped
    <3>3. DOMAIN Stage = Payrolls /\ Stage = [j \in Payrolls |-> Stage[j]]
      BY DEF Stage
    <3> QED BY <3>2, <3>3
  <2>8. Contended' = Contended
    BY <1>2 DEF Contended
  <2>9. Contended \/ Filed'[i] = Payslips'[i].tax
    <3>1. Contended \/ contentions' = 0
      BY <1>2, <1>3 DEF Contended, IInv, TypeOK
    <3>2. ASSUME contentions' = 0 PROVE Filed'[i] = items'[i].tax
      <4>1. TaxOnFile(i)'
        BY <1>3, <3>2 DEF Uncontended
      <4> QED BY <2>3, <4>1 DEF TaxOnFile, Filed
    <3> QED BY <2>5, <3>1, <3>2
  <2>10. Life!Write(i, Payslips'[i], Filed'[i])
    BY <1>3, <2>1, <2>3, Written
  <2>11. Life!Edit(i)
    BY <2>4, <2>5, <2>6, <2>7, <2>8, <2>9, <2>10 DEF Life!Edit
  <2> QED BY <2>11 DEF Life!Next
<1> QED BY <1>1, <1>4, <1>5, <1>6 DEF CommitUpdate

LEMMA RowMoves ==
  ASSUME LifeInv, LifeInv', NEW p \in Procs,
         CommitFinalize(p) \/ CommitPayment(p) \/ CommitDeletion(p)
  PROVE  [Life!Next]_(Life!vars)
<1>1. IInv /\ Uncontended /\ PaymentsWait
  BY DEF LifeInv, PeriodsInv
<1>2. Holding(p)
  BY DEF CommitFinalize, CommitPayment, CommitDeletion, WriteRow, Holding
<1>3. PICK i \in Payrolls : i = handler[p].id /\ Exists(i) /\ payrolls[i] \in Payroll
  BY <1>1, <1>2, HoldingHolds, PayrollExists DEF IInv
<1>4. PICK old : old = payrolls[i]
  OBVIOUS
<1>5. PICK row :
        /\ payrolls' = [payrolls EXCEPT ![i] = row]
        /\ \/ CommitFinalize(p) /\ row = [old EXCEPT !.status = "PROCESSED", !.processed = TRUE]
           \/ CommitPayment(p) /\ row = [old EXCEPT !.status = "PAID"]
           \/ CommitDeletion(p) /\ row = [old EXCEPT !.row = "deleted"]
  BY <1>3, <1>4 DEF CommitFinalize, CommitPayment, CommitDeletion, WriteRow
<1>6. UNCHANGED <<items, taxCalc, contentions, doubled>>
  BY DEF CommitFinalize, CommitPayment, CommitDeletion, WriteRow
<1>7. payrolls'[i] = row /\ \A j \in Payrolls : j # i => Untouched(j)
  BY <1>1, <1>5, <1>6 DEF IInv, TypeOK, Untouched
<1>8. /\ row.emp = old.emp /\ row.period = old.period /\ row.net = old.net
      /\ row # NoPayroll
      /\ CommitFinalize(p) /\ ~CommitPayment(p) /\ ~CommitDeletion(p)
           => row.row = old.row /\ row.status = "PROCESSED"
      /\ CommitPayment(p) /\ ~CommitFinalize(p) /\ ~CommitDeletion(p)
           => row.row = old.row /\ row.status = "PAID"
      /\ CommitDeletion(p) /\ ~CommitPayment(p) /\ ~CommitFinalize(p) => row.row = "deleted"
  BY <1>3, <1>4, <1>5 DEF Payroll, NoPayroll
<1>9. /\ CommitFinalize(p) => handler[p].pc = "finalizing" /\ ~CommitPayment(p) /\ ~CommitDeletion(p)
      /\ CommitPayment(p) => handler[p].pc = "paying" /\ ~CommitFinalize(p) /\ ~CommitDeletion(p)
      /\ CommitDeletion(p) => handler[p].pc = "deleting" /\ ~CommitPayment(p) /\ ~CommitFinalize(p)
  BY DEF CommitFinalize, CommitPayment, CommitDeletion, WriteRow
<1>10. Exists(i)'
  BY <1>7, <1>8 DEF Exists
<1>11. Payslips' = Payslips /\ Filed' = Filed
  <2>1. Payslips'[i] = Payslips[i] /\ Filed'[i] = Filed[i]
    <3>1. Payslips[i] = Slip(i)
      BY <1>3 DEF Payslips
    <3>2. Payslips'[i] = Slip(i)'
      BY <1>10, NextSlip
    <3>3. Slip(i)' = Slip(i)
      BY <1>4, <1>6, <1>7, <1>8 DEF Slip
    <3>4. Filed'[i] = Filed[i]
      BY <1>6 DEF Filed
    <3> QED BY <3>1, <3>2, <3>3, <3>4
  <2>2. /\ Payslips' = [Payslips EXCEPT ![i] = Payslips[i]]
        /\ Filed' = [Filed EXCEPT ![i] = Filed[i]]
    BY <1>7, <2>1, Remapped
  <2>3. DOMAIN Payslips = Payrolls /\ Payslips = [j \in Payrolls |-> Payslips[j]]
    BY DEF Payslips
  <2>4. DOMAIN Filed = Payrolls /\ Filed = [j \in Payrolls |-> Filed[j]]
    BY DEF Filed
  <2>5. \A f : f = [j \in Payrolls |-> f[j]] => [f EXCEPT ![i] = f[i]] = f
    OBVIOUS
  <2>6. [Payslips EXCEPT ![i] = Payslips[i]] = Payslips
    BY <2>3, <2>5
  <2>7. [Filed EXCEPT ![i] = Filed[i]] = Filed
    BY <2>4, <2>5
  <2> QED BY <2>2, <2>6, <2>7
<1>12. Contended' = Contended /\ doubled' = doubled
  BY <1>6 DEF Contended
<1>13. ASSUME Stage'[i] = Stage[i] PROVE [Life!Next]_(Life!vars)
  <2>1. Stage' = [Stage EXCEPT ![i] = Stage[i]]
    BY <1>7, <1>13, Remapped
  <2>2. Stage' = Stage
    <3>1. DOMAIN Stage = Payrolls /\ Stage = [j \in Payrolls |-> Stage[j]]
      BY DEF Stage
    <3> QED BY <2>1, <3>1
  <2> QED BY <1>11, <1>12, <2>2 DEF Life!vars
<1>14. Stage[i] = IF Visible(i) THEN old.status ELSE "deleted"
  BY <1>1, <1>3, <1>4, Seen
<1>15. Stage'[i] = IF row.row = "live" THEN row.status ELSE "deleted"
  BY <1>7, <1>10 DEF Stage, Visible
<1>16. CASE ~Visible(i)
  <2>1. row.row # "live"
    BY <1>4, <1>5, <1>8, <1>9, <1>16 DEF Visible
  <2> QED BY <1>13, <1>14, <1>15, <1>16, <2>1
<1>17. CASE Visible(i)
  <2>1. Life!Current(i) /\ old.status \in {"PENDING", "PROCESSED", "PAID"}
    BY <1>1, <1>3, <1>4, <1>17, Seen DEF Payroll, Statuses
  <2>2. handler[p].pc # "paying" => old.status = "PENDING" \/ Contended
    <3>1. Contended \/ contentions = 0
      BY <1>1 DEF Contended, IInv, TypeOK
    <3> QED BY <1>1, <1>2, <1>3, <1>4, <3>1 DEF Uncontended, ReadIsTrue
  <2>3. CASE CommitFinalize(p)
    <3>1. Stage'[i] = "PROCESSED"
      BY <1>4, <1>8, <1>9, <1>15, <1>17, <2>3 DEF Visible
    <3>2. Life!Move(i, "PROCESSED")
      BY <1>7, <3>1, Remapped DEF Life!Move
    <3>3. Stage[i] = "PENDING" \/ (Contended /\ Life!Current(i))
      BY <1>9, <1>14, <1>17, <2>1, <2>2, <2>3
    <3>4. Life!Finalize(i)
      BY <1>11, <1>12, <3>2, <3>3 DEF Life!Finalize
    <3> QED BY <3>4 DEF Life!Next
  <2>4. CASE CommitPayment(p)
    <3>1. Stage'[i] = "PAID"
      BY <1>4, <1>8, <1>9, <1>15, <1>17, <2>4 DEF Visible
    <3>2. old.status # "PENDING"
      BY <1>1, <1>3, <1>4, <1>9, <2>4 DEF PaymentsWait
    <3>3. CASE old.status = "PAID"
      BY <1>13, <1>14, <1>17, <3>1, <3>3
    <3>4. CASE old.status = "PROCESSED"
      <4>1. Life!Move(i, "PAID")
        BY <1>7, <3>1, Remapped DEF Life!Move
      <4>2. Life!Pay(i)
        BY <1>11, <1>12, <1>14, <1>17, <3>4, <4>1 DEF Life!Pay
      <4> QED BY <4>2 DEF Life!Next
    <3> QED BY <2>1, <3>2, <3>3, <3>4
  <2>5. CASE CommitDeletion(p)
    <3>1. Stage'[i] = "deleted"
      BY <1>8, <1>9, <1>15, <2>5
    <3>2. Life!Move(i, "deleted")
      BY <1>7, <3>1, Remapped DEF Life!Move
    <3>3. Stage[i] = "PENDING" \/ (Contended /\ Life!Current(i))
      BY <1>9, <1>14, <1>17, <2>1, <2>2, <2>5
    <3>4. Life!Delete(i)
      BY <1>11, <1>12, <3>2, <3>3 DEF Life!Delete
    <3> QED BY <3>4 DEF Life!Next
  <2> QED BY <2>3, <2>4, <2>5
<1> QED BY <1>16, <1>17

LEMMA LifeStep ==
  ASSUME LifeInv, LifeInv', [Next]_vars
  PROVE  [Life!Next]_(Life!vars)
<1>1. IInv
  BY DEF LifeInv, PeriodsInv
<1>2. CASE UNCHANGED vars
  BY <1>1, <1>2, ReadsStutter DEF vars
<1>3. ASSUME NEW p \in Procs, NEW e, NEW d, NEW g, NEW x, NEW t, CheckPeriod(p, e, d, g, x, t)
      PROVE  [Life!Next]_(Life!vars)
  <2>1. UNCHANGED <<payrolls, items, taxCalc, contentions>> /\ doubled' \in {doubled, TRUE}
    BY <1>1, <1>3 DEF CheckPeriod, IInv, TypeOK
  <2> QED BY <1>1, <2>1, ReadsStutter
<1>4. ASSUME NEW p, NEW i, NEW s, NEW h, Claim(p, i, s, h)
      PROVE  [Life!Next]_(Life!vars)
  BY <1>1, <1>4, ReadsStutter DEF Claim
<1>5. ASSUME NEW p \in Procs, NEW i \in Payrolls,
             \/ ReadForFinalize(p, i) \/ ReadForPayment(p, i) \/ ReadForDeletion(p, i)
             \/ \E d \in Periods, g, x \in Amounts, t \in TaxTables :
                   ReadForUpdate(p, i, d, g, x, t)
      PROVE  [Life!Next]_(Life!vars)
  BY <1>4, <1>5 DEF ReadForFinalize, ReadForPayment, ReadForDeletion, ReadForUpdate
<1> QED BY <1>2, <1>3, <1>5, DraftIsDrafted, UpdateIsEdit, RowMoves DEF Next

LEMMA InitLife == Init => Life!Init
<1> SUFFICES ASSUME Init PROVE Life!Init
  OBVIOUS
<1>1. \A i \in Payrolls : ~Exists(i) /\ taxCalc[i].row # "live"
  BY DEF Init, Exists, NoTaxCalc
<1>2. Stage = [i \in Payrolls |-> "none"]
  BY <1>1 DEF Stage
<1>3. Payslips = [i \in Payrolls |-> NoPayroll]
  BY <1>1 DEF Payslips
<1>4. Filed = [i \in Payrolls |-> 0]
  BY <1>1 DEF Filed
<1>5. Contended = FALSE /\ doubled = FALSE
  BY DEF Init, Contended
<1> QED BY <1>2, <1>3, <1>4, <1>5 DEF Life!Init

(* PayrollsService implements PayrollLife: however the round trips of its handlers      *)
(* interleave, each write is one of the operations, at the stage its handler had read   *)
(* as long as no two handlers hold the same payroll, or changes nothing.                *)
THEOREM LivesAreKept == Spec => LifeIsKept
<1>1. Init => Life!Init
  BY InitLife
<1>2. LifeInv /\ LifeInv' /\ [Next]_vars => [Life!Next]_(Life!vars)
  BY LifeStep
<1> QED BY <1>1, <1>2, LifeInvInit, LifeInvStep, PTL DEF Spec, LifeIsKept, Life!Spec

-----------------------------------------------------------------------------
(* PayrollReports: what a report that counts in two round trips can miss.        *)

\* The payrolls of the month that the first count found no longer PENDING are not PENDING
\* at the second count either.
LeftPending ==
    report.pc = "counting" =>
        \A i \in report.live \ report.pending :
            i \in Payrolls /\ Exists(i) /\ payrolls[i].status # "PENDING"

ReportInv == IInv /\ LeftPending

(* Each step is one of the handlers, or of the report alone. *)
LEMMA ReportNextSteps ==
  ASSUME [ReportNext]_reportVars
  PROVE  [Next]_vars /\ (UNCHANGED report \/ UNCHANGED vars)
  BY DEF ReportNext, CountPending, CountProcessed, reportVars, vars

(* A payroll that has left PENDING stays, and never returns to it. *)
LEMMA LeftStays ==
  ASSUME IInv, [Next]_vars, NEW i \in Payrolls, Exists(i), payrolls[i].status # "PENDING"
  PROVE  (Exists(i) /\ payrolls[i].status # "PENDING")'
<1>1. CASE UNCHANGED vars
  BY <1>1 DEF vars, Exists
<1>2. CASE Next
  <2>1. payrolls'[i].status # "PENDING"
    BY <1>2, StatusKept
  <2>2. Exists(i)'
    <3>1. ASSUME NEW p \in Procs, CommitDraft(p) PROVE payrolls'[i] = payrolls[i]
      BY <3>1 DEF CommitDraft, IInv, TypeOK
    <3>2. ASSUME NEW p \in Procs, CommitUpdate(p) PROVE Exists(i)'
      <4>1. PICK h : h = handler[p]
        OBVIOUS
      <4>2. \/ payrolls' = payrolls
            \/ payrolls' = [payrolls EXCEPT ![h.id] = Edited(@, h.period, h.sheet)]
        BY <3>2, <4>1 DEF CommitUpdate
      <4>3. payrolls'[i] \in {payrolls[i], Edited(payrolls[i], h.period, h.sheet)}
        BY <4>2 DEF IInv, TypeOK
      <4>4. payrolls[i] \in Payroll
        BY PayrollExists DEF IInv
      <4>5. Edited(payrolls[i], h.period, h.sheet) # NoPayroll
        <5>1. Edited(payrolls[i], h.period, h.sheet).row = payrolls[i].row
          BY <4>4 DEF Edited, Payroll
        <5> QED BY <4>4, <5>1 DEF Payroll, NoPayroll
      <4> QED BY <4>3, <4>5 DEF Exists
    <3>3. ASSUME NEW p \in Procs, CommitFinalize(p) \/ CommitPayment(p) \/ CommitDeletion(p)
          PROVE  Exists(i)'
      <4>1. payrolls[i] \in Payroll
        BY PayrollExists DEF IInv
      <4>2. payrolls'[i] \in {payrolls[i],
                              [payrolls[i] EXCEPT !.status = "PROCESSED", !.processed = TRUE],
                              [payrolls[i] EXCEPT !.status = "PAID"],
                              [payrolls[i] EXCEPT !.row = "deleted"]}
        BY <3>3 DEF CommitFinalize, CommitPayment, CommitDeletion, WriteRow, IInv, TypeOK
      <4>3. payrolls'[i].row \in {"live", "deleted"}
        BY <4>1, <4>2 DEF Payroll
      <4> QED BY <4>3 DEF Exists, NoPayroll
    <3>4. ASSUME NEW p \in Procs, NEW e, NEW d, NEW g, NEW x, NEW t,
                 CheckPeriod(p, e, d, g, x, t)
          PROVE  payrolls' = payrolls
      BY <3>4 DEF CheckPeriod
    <3>5. ASSUME NEW p \in Procs, NEW j, NEW d, NEW g, NEW x, NEW t,
                 \/ ReadForUpdate(p, j, d, g, x, t)
                 \/ ReadForFinalize(p, j) \/ ReadForPayment(p, j) \/ ReadForDeletion(p, j)
          PROVE  payrolls' = payrolls
      BY <3>5 DEF ReadForUpdate, ReadForFinalize, ReadForPayment, ReadForDeletion, Claim
    <3> QED BY <1>2, <3>1, <3>2, <3>3, <3>4, <3>5 DEF Next, Exists
  <2> QED BY <2>1, <2>2
<1> QED BY <1>1, <1>2

LEMMA ReportStep == ReportInv /\ [ReportNext]_reportVars => ReportInv'
<1> SUFFICES ASSUME ReportInv, [ReportNext]_reportVars PROVE ReportInv'
  OBVIOUS
<1>1. [Next]_vars /\ (UNCHANGED report \/ UNCHANGED vars)
  BY ReportNextSteps
<1>2. IInv'
  BY <1>1, StepInv DEF ReportInv
<1>3. ASSUME UNCHANGED report PROVE LeftPending'
  BY <1>1, <1>3, LeftStays DEF ReportInv, LeftPending
<1>4. ASSUME NEW d \in Periods, CountPending(d) PROVE LeftPending'
  <2>1. PICK r : r = report'
    OBVIOUS
  <2>2. /\ r.live = FindAll(Employees, Statuses, {d})
        /\ r.pending = FindAll(Employees, {"PENDING"}, {d})
    BY <1>4, <2>1 DEF CountPending, Counted
  <2>3. \A i \in r.live \ r.pending :
           i \in Payrolls /\ Exists(i) /\ payrolls[i].status # "PENDING"
    BY <2>2, PayrollExists DEF FindAll, ReportInv, IInv
  <2>4. UNCHANGED vars
    BY <1>4 DEF CountPending
  <2> QED BY <2>1, <2>3, <2>4 DEF LeftPending, Exists, vars
<1>5. ASSUME CountProcessed PROVE LeftPending'
  BY <1>5 DEF CountProcessed, NoReport, LeftPending
<1> QED BY <1>2, <1>3, <1>4, <1>5 DEF ReportInv, ReportNext, reportVars

LEMMA LeftIsReported == ReportInv => ReportMissesNone
<1> SUFFICES ASSUME ReportInv, report.pc = "counting", NEW i \in report.live,
                    Visible(i), payrolls[i].period = report.period,
                    payrolls[i].status # "PAID", i \notin report.pending
             PROVE  i \in Reported
  BY DEF ReportMissesNone
<1>1. i \in Payrolls /\ Exists(i) /\ payrolls[i].status # "PENDING"
  BY DEF ReportInv, LeftPending
<1>2. payrolls[i].status = "PROCESSED" /\ payrolls[i].emp \in Employees
  BY <1>1, PayrollExists DEF ReportInv, IInv, Payroll, Statuses
<1> QED BY <1>1, <1>2 DEF Reported, Counted, FindAll

(* getComprehensiveReportData, which counts the PENDING payrolls of a month and then    *)
(* the PROCESSED ones, leaves none out that is in the month at both counts and not paid *)
(* between them.                                                                        *)
THEOREM NoneIsMissed == ReportSpec => []ReportMissesNone
<1>1. ReportInit => ReportInv
  BY InitInv DEF ReportInit, ReportInv, LeftPending, NoReport
<1>2. ReportInv /\ [ReportNext]_reportVars => ReportInv'
  BY ReportStep
<1>3. ReportInv => ReportMissesNone
  BY LeftIsReported
<1> QED BY <1>1, <1>2, <1>3, PTL DEF ReportSpec

(* Amounts that are added up group by group.                                        *)
LEMMA GroupsAddUp ==
  ASSUME NEW S, IsFiniteSet(S), NEW f, \A i \in S : f[i] \in Int,
         NEW G, IsFiniteSet(G), NEW h, \A i \in S : h[i] \in G,
         NEW group, \A g \in G : \A i : i \in group[g] <=> i \in S /\ h[i] = g,
         NEW part, \A g \in G : part[g] = SumFunctionOnSet(f, group[g])
  PROVE  SumFunctionOnSet(f, S) = SumFunctionOnSet(part, G)
<1>1. \A g \in G : group[g] = Part(S, h, g)
  BY DEF Part
<1>2. \A g \in G : part[g] = SumFunctionOnSet(f, Part(S, h, g))
  BY <1>1
<1> QED BY <1>2, SumOfParts

(* What a query adds up: the numbers of f over the payrolls S.                      *)
LEMMA TotalIs ==
  ASSUME NEW S, IsFiniteSet(S), NEW f
  PROVE  /\ (\A i \in S : f[i] = payrolls[i].net) => Total(NetSalary, S) = SumFunctionOnSet(f, S)
         /\ (\A i \in S : f[i] = payrolls[i].gross) => Total(Gross, S) = SumFunctionOnSet(f, S)
         /\ (\A i \in S : f[i] = payrolls[i].ded) => Total(Deductions, S) = SumFunctionOnSet(f, S)
         /\ (\A i \in S : f[i] = NamedTax(i)) => Total(NamedTax, S) = SumFunctionOnSet(f, S)
<1>1. ASSUME \A i \in S : f[i] = payrolls[i].net PROVE Total(NetSalary, S) = SumFunctionOnSet(f, S)
  <2>1. PICK g : g = [i \in S |-> payrolls[i].net]
    OBVIOUS
  <2>2. Total(NetSalary, S) = SumFunctionOnSet(g, S)
    BY <2>1 DEF Total, NetSalary, SumFunction
  <2>3. \A i \in S : g[i] = f[i]
    BY <1>1, <2>1
  <2> QED BY <2>2, <2>3, SumSame
<1>2. ASSUME \A i \in S : f[i] = payrolls[i].gross PROVE Total(Gross, S) = SumFunctionOnSet(f, S)
  <2>1. PICK g : g = [i \in S |-> payrolls[i].gross]
    OBVIOUS
  <2>2. Total(Gross, S) = SumFunctionOnSet(g, S)
    BY <2>1 DEF Total, Gross, SumFunction
  <2>3. \A i \in S : g[i] = f[i]
    BY <1>2, <2>1
  <2> QED BY <2>2, <2>3, SumSame
<1>3. ASSUME \A i \in S : f[i] = payrolls[i].ded PROVE Total(Deductions, S) = SumFunctionOnSet(f, S)
  <2>1. PICK g : g = [i \in S |-> payrolls[i].ded]
    OBVIOUS
  <2>2. Total(Deductions, S) = SumFunctionOnSet(g, S)
    BY <2>1 DEF Total, Deductions, SumFunction
  <2>3. \A i \in S : g[i] = f[i]
    BY <1>3, <2>1
  <2> QED BY <2>2, <2>3, SumSame
<1>4. ASSUME \A i \in S : f[i] = NamedTax(i) PROVE Total(NamedTax, S) = SumFunctionOnSet(f, S)
  <2>1. PICK g : g = [i \in S |-> NamedTax(i)]
    OBVIOUS
  <2>2. Total(NamedTax, S) = SumFunctionOnSet(g, S)
    BY <2>1 DEF Total, SumFunction
  <2>3. \A i \in S : g[i] = f[i]
    BY <1>4, <2>1
  <2> QED BY <2>2, <2>3, SumSame
<1> QED BY <1>1, <1>2, <1>3, <1>4

(* What each report finds, of everybody and all statuses.                           *)
LEMMA FoundAre ==
  ASSUME TypeOK, NEW R, R \subseteq Periods
  PROVE  /\ FindAll(Employees, Statuses, R) \in SUBSET Payrolls
         /\ IsFiniteSet(FindAll(Employees, Statuses, R)) /\ IsFiniteSet(R)
         /\ \A i \in FindAll(Employees, Statuses, R) :
               /\ Exists(i) /\ payrolls[i].emp \in Employees /\ payrolls[i].period \in R
               /\ payrolls[i].net \in Int /\ payrolls[i].gross \in Int
               /\ payrolls[i].ded \in Int /\ items[i].tax \in Int /\ NamedTax(i) \in Int
         /\ \A e \in Employees : \A i : i \in FindAll({e}, Statuses, R) <=>
               i \in FindAll(Employees, Statuses, R) /\ payrolls[i].emp = e
         /\ \A d \in R : \A i : i \in FindAll(Employees, Statuses, {d}) <=>
               i \in FindAll(Employees, Statuses, R) /\ payrolls[i].period = d
<1>1. PICK F : F = FindAll(Employees, Statuses, R)
  OBVIOUS
<1>2. F \in SUBSET Payrolls /\ IsFiniteSet(F) /\ IsFiniteSet(R)
  <2>1. F \in SUBSET Payrolls
    BY <1>1 DEF FindAll
  <2> QED BY <2>1, FS_Subset, PayrollReportsAssumption
<1>3. ASSUME NEW i \in F
      PROVE  /\ Exists(i) /\ payrolls[i].emp \in Employees /\ payrolls[i].period \in R
             /\ payrolls[i].net \in Int /\ payrolls[i].gross \in Int
             /\ payrolls[i].ded \in Int /\ items[i].tax \in Int /\ NamedTax(i) \in Int
  <2>1. i \in Payrolls /\ Visible(i) /\ payrolls[i].period \in R
    BY <1>1 DEF FindAll
  <2>2. payrolls[i] \in Payroll /\ Exists(i)
    BY <2>1, PayrollExists
  <2>3. items[i] \in Sheets
    BY <2>1 DEF TypeOK
  <2>4. items[i].tax \in Int /\ NamedTax(i) \in Int
    BY <2>3 DEF Sheets, NamedTax
  <2> QED BY <2>1, <2>2, <2>4 DEF Payroll
<1>4. ASSUME NEW e \in Employees
      PROVE  \A i : i \in FindAll({e}, Statuses, R) <=> i \in F /\ payrolls[i].emp = e
  BY <1>1 DEF FindAll
<1>5. ASSUME NEW d \in R
      PROVE  \A i : i \in FindAll(Employees, Statuses, {d}) <=> i \in F /\ payrolls[i].period = d
  BY <1>1 DEF FindAll
<1> QED BY <1>1, <1>2, <1>3, <1>4, <1>5

(* getSummaryAsync and the payroll report find the same payrolls.                   *)
LEMMA SameRows ==
  ASSUME TypeOK, NEW R, R \subseteq Periods,
         NEW D, D = {DepartmentOf[e] : e \in Employees},
         NEW F, F = FindAll(Employees, Statuses, R)
  PROVE  /\ ReportRows(R, D, Statuses) = F
         /\ Summary(R, D).totalPayrolls = Cardinality(F)
         /\ Summary(R, D).totalNetSalary = Total(NetSalary, F)
         /\ Summary(R, D).totalGrossSalary = Total(Gross, F)
         /\ Summary(R, D).totalDeductions = Total(Deductions, F)
         /\ Summary(R, D).totalTax = Total(NamedTax, F)
<1>1. \A i \in Payrolls : Visible(i) => /\ payrolls[i].emp \in Employees
                                        /\ payrolls[i].status \in Statuses
                                        /\ DepartmentOf[payrolls[i].emp] \in D
  BY PayrollExists DEF Payroll
<1>2. {i \in FindAll(Employees, Statuses, R) : DepartmentOf[payrolls[i].emp] \in D} = F
  BY <1>1 DEF FindAll
<1>3. ReportRows(R, D, Statuses) = F
  BY <1>1 DEF FindAll, ReportRows
<1> QED BY <1>2, <1>3 DEF Summary

(* The months and the employees, each added up on its own, come to the whole.       *)
LEMMA MonthsAndPeople ==
  ASSUME TypeOK, NEW R, R \subseteq Periods, NEW F, F = FindAll(Employees, Statuses, R)
  PROVE  /\ Total(NetSalary, F) =
               SumFunction([d \in R |-> PayrollSummary(Periods).payrollTrend[d]])
         /\ Total(NetSalary, F) = SumFunction([e \in Employees |-> MePayslips(e, R).total_net])
         /\ Total(NamedTax, F) = SumFunction([e \in Employees |-> MePayslips(e, R).total_tax])
<1> DEFINE netOf == [i \in F |-> payrolls[i].net]
<1> DEFINE taxOf == [i \in F |-> NamedTax(i)]
<1> DEFINE month == [i \in F |-> payrolls[i].period]
<1> DEFINE emp == [i \in F |-> payrolls[i].emp]
<1> DEFINE inMonth == [d \in R |-> FindAll(Employees, Statuses, {d})]
<1> DEFINE ofEmp == [e \in Employees |-> FindAll({e}, Statuses, R)]
<1>1. IsFiniteSet(F) /\ IsFiniteSet(R) /\ IsFiniteSet(Employees)
  BY FoundAre, PayrollReportsAssumption
<1>2. \A i \in F : /\ netOf[i] \in Int /\ taxOf[i] \in Int
                   /\ netOf[i] = payrolls[i].net /\ taxOf[i] = NamedTax(i)
                   /\ month[i] \in R /\ emp[i] \in Employees
  BY FoundAre
<1>3. \A d \in R : \A i : i \in inMonth[d] <=> i \in F /\ month[i] = d
  BY FoundAre
<1>4. \A e \in Employees : \A i : i \in ofEmp[e] <=> i \in F /\ emp[i] = e
  <2> HIDE DEF ofEmp, emp
  <2>1. ASSUME NEW e \in Employees, NEW i PROVE i \in ofEmp[e] <=> i \in F /\ emp[i] = e
    <3>1. PICK mine : mine = FindAll({e}, Statuses, R)
      OBVIOUS
    <3>2. i \in mine <=> i \in F /\ payrolls[i].emp = e
      BY <3>1, FoundAre
    <3>3. ofEmp[e] = mine
      BY <3>1 DEF ofEmp
    <3>4. i \in F => emp[i] = payrolls[i].emp
      BY DEF emp
    <3> QED BY <3>2, <3>3, <3>4
  <2> QED BY <2>1
<1>5. (\A d \in R : IsFiniteSet(inMonth[d])) /\ (\A e \in Employees : IsFiniteSet(ofEmp[e]))
  <2>1. ASSUME NEW d \in R PROVE IsFiniteSet(inMonth[d])
    <3>1. inMonth[d] \in SUBSET F
      BY <1>3
    <3> HIDE DEF inMonth
    <3> QED BY <1>1, <3>1, FS_Subset
  <2>2. ASSUME NEW e \in Employees PROVE IsFiniteSet(ofEmp[e])
    <3>1. ofEmp[e] \in SUBSET F
      BY <1>4
    <3> HIDE DEF ofEmp
    <3> QED BY <1>1, <3>1, FS_Subset
  <2> QED BY <2>1, <2>2
<1>6. \A d \in R : inMonth[d] = FindAll(Employees, Statuses, {d})
  OBVIOUS
<1>7. \A e \in Employees : ofEmp[e] = FindAll({e}, Statuses, R)
  OBVIOUS
<1>8. Total(NetSalary, F) = SumFunctionOnSet(netOf, F) /\ Total(NamedTax, F) = SumFunctionOnSet(taxOf, F)
  <2> HIDE DEF netOf, taxOf
  <2> QED BY <1>1, <1>2, TotalIs
<1>9. Total(NetSalary, F) = SumFunction([d \in R |-> PayrollSummary(Periods).payrollTrend[d]])
  <2>1. PICK part : part = [d \in R |-> PayrollSummary(Periods).payrollTrend[d]]
    OBVIOUS
  <2>2. ASSUME NEW d \in R PROVE part[d] = SumFunctionOnSet(netOf, inMonth[d])
    <3>1. part[d] = Total(NetSalary, inMonth[d])
      BY <2>1 DEF PayrollSummary
    <3>2. \A i \in inMonth[d] : netOf[i] = payrolls[i].net
      BY <1>3
    <3> HIDE DEF inMonth, netOf
    <3> QED BY <1>5, <3>1, <3>2, TotalIs
  <2>3. SumFunctionOnSet(netOf, F) = SumFunctionOnSet(part, R)
    <3> HIDE DEF netOf, inMonth, month
    <3> QED BY <1>1, <1>2, <1>3, <2>2, GroupsAddUp
  <2>4. SumFunction(part) = SumFunctionOnSet(part, R)
    BY <2>1 DEF SumFunction
  <2> QED BY <1>8, <2>1, <2>3, <2>4
<1>10. Total(NetSalary, F) = SumFunction([e \in Employees |-> MePayslips(e, R).total_net])
  <2>1. PICK part : part = [e \in Employees |-> MePayslips(e, R).total_net]
    OBVIOUS
  <2>2. ASSUME NEW e \in Employees PROVE part[e] = SumFunctionOnSet(netOf, ofEmp[e])
    <3>1. part[e] = Total(NetSalary, ofEmp[e])
      BY <2>1 DEF MePayslips
    <3>2. \A i \in ofEmp[e] : netOf[i] = payrolls[i].net
      BY <1>4
    <3> HIDE DEF ofEmp, netOf
    <3> QED BY <1>5, <3>1, <3>2, TotalIs
  <2>3. SumFunctionOnSet(netOf, F) = SumFunctionOnSet(part, Employees)
    <3> HIDE DEF netOf, ofEmp, emp
    <3> QED BY <1>1, <1>2, <1>4, <2>2, GroupsAddUp
  <2>4. SumFunction(part) = SumFunctionOnSet(part, Employees)
    BY <2>1 DEF SumFunction
  <2> QED BY <1>8, <2>1, <2>3, <2>4
<1>11. Total(NamedTax, F) = SumFunction([e \in Employees |-> MePayslips(e, R).total_tax])
  <2>1. PICK part : part = [e \in Employees |-> MePayslips(e, R).total_tax]
    OBVIOUS
  <2>2. ASSUME NEW e \in Employees PROVE part[e] = SumFunctionOnSet(taxOf, ofEmp[e])
    <3>1. part[e] = Total(NamedTax, ofEmp[e])
      BY <2>1 DEF MePayslips
    <3>2. \A i \in ofEmp[e] : taxOf[i] = NamedTax(i)
      BY <1>4
    <3> HIDE DEF ofEmp, taxOf
    <3> QED BY <1>5, <3>1, <3>2, TotalIs
  <2>3. SumFunctionOnSet(taxOf, F) = SumFunctionOnSet(part, Employees)
    <3> HIDE DEF taxOf, ofEmp, emp
    <3> QED BY <1>1, <1>2, <1>4, <2>2, GroupsAddUp
  <2>4. SumFunction(part) = SumFunctionOnSet(part, Employees)
    BY <2>1 DEF SumFunction
  <2> QED BY <1>8, <2>1, <2>3, <2>4
<1> QED BY <1>9, <1>10, <1>11

(* What is paid out is what tax and deductions leave of the gross incomes.          *)
LEMMA PaidOutIsLeft ==
  ASSUME IInv, NEW R, R \subseteq Periods, NEW F, F = FindAll(Employees, Statuses, R)
  PROVE  Total(NetSalary, F) =
            Total(Gross, F) - Total(Deductions, F) - SumFunction([i \in F |-> items[i].tax])
<1>1. PICK n : n = [i \in F |-> payrolls[i].net]
  OBVIOUS
<1>2. PICK g : g = [i \in F |-> payrolls[i].gross]
  OBVIOUS
<1>3. PICK x : x = [i \in F |-> payrolls[i].ded]
  OBVIOUS
<1>4. PICK t : t = [i \in F |-> items[i].tax]
  OBVIOUS
<1>5. PICK c : c = [i \in F |-> payrolls[i].ded + items[i].tax]
  OBVIOUS
<1>6. TypeOK /\ ItemsMatchRow
  BY DEF IInv
<1>7. IsFiniteSet(F)
  BY <1>6, FoundAre
<1>8. ASSUME NEW i \in F
      PROVE  /\ n[i] \in Int /\ g[i] \in Int /\ x[i] \in Int /\ t[i] \in Int /\ c[i] \in Int
             /\ c[i] = x[i] + t[i] /\ g[i] = n[i] + c[i]
             /\ n[i] = payrolls[i].net /\ g[i] = payrolls[i].gross /\ x[i] = payrolls[i].ded
  <2>1. i \in Payrolls /\ Exists(i)
    BY <1>6, FoundAre
  <2>2. /\ payrolls[i].gross = items[i].gross /\ payrolls[i].ded = items[i].ded
        /\ payrolls[i].net = items[i].gross - (items[i].tax + items[i].ded)
    BY <1>6, <2>1 DEF ItemsMatchRow, Net
  <2>3. items[i].gross \in Int /\ items[i].tax \in Int /\ items[i].ded \in Int
    <3>1. items[i] \in Sheets
      BY <1>6, <2>1 DEF TypeOK
    <3> QED BY <3>1 DEF Sheets
  <2> QED BY <1>1, <1>2, <1>3, <1>4, <1>5, <2>2, <2>3
<1>9. SumFunctionOnSet(g, F) = SumFunctionOnSet(n, F) + SumFunctionOnSet(c, F)
  BY <1>7, <1>8, SumPlus
<1>10. SumFunctionOnSet(c, F) = SumFunctionOnSet(x, F) + SumFunctionOnSet(t, F)
  BY <1>7, <1>8, SumPlus
<1>11. /\ Total(NetSalary, F) = SumFunctionOnSet(n, F)
       /\ Total(Gross, F) = SumFunctionOnSet(g, F)
       /\ Total(Deductions, F) = SumFunctionOnSet(x, F)
  BY <1>7, <1>8, TotalIs
<1>12. SumFunction([i \in F |-> items[i].tax]) = SumFunctionOnSet(t, F)
  BY <1>4 DEF SumFunction
<1>13. /\ SumFunctionOnSet(n, F) \in Int /\ SumFunctionOnSet(x, F) \in Int
       /\ SumFunctionOnSet(t, F) \in Int
  BY <1>7, <1>8, SumInt
<1> QED BY <1>9, <1>10, <1>11, <1>12, <1>13

(* Theorem: the summary, the payslips of everybody, the report and its trend come   *)
(* to the same totals for every month and the year, and what is paid out is what    *)
(* the tax and the deductions leave, whatever handlers run meanwhile.               *)
THEOREM SummariesComeToTheSame == ReportSpec => []SummariesAgree
<1>1. IInv => SummariesAgree
  <2> SUFFICES ASSUME IInv, NEW R \in {{d} : d \in Periods} \cup {Periods},
                      NEW D, D = {DepartmentOf[e] : e \in Employees}
               PROVE  LET s == Summary(R, D)
                          rows == ReportRows(R, D, Statuses)
                          slips == [e \in Employees |-> MePayslips(e, R)]
                          trend == PayrollSummary(Periods).payrollTrend
                      IN  /\ s.totalPayrolls = Cardinality(rows)
                          /\ s.totalNetSalary = Total(NetSalary, rows)
                          /\ s.totalNetSalary = SumFunction([d \in R |-> trend[d]])
                          /\ s.totalNetSalary = SumFunction([e \in Employees |-> slips[e].total_net])
                          /\ s.totalTax = SumFunction([e \in Employees |-> slips[e].total_tax])
                          /\ s.totalNetSalary = s.totalGrossSalary - s.totalDeductions
                                                  - SumFunction([i \in rows |-> items[i].tax])
    BY DEF SummariesAgree
  <2>1. TypeOK /\ R \subseteq Periods
    BY DEF IInv
  <2>2. PICK F : F = FindAll(Employees, Statuses, R)
    OBVIOUS
  <2>3. /\ ReportRows(R, D, Statuses) = F
        /\ Summary(R, D).totalPayrolls = Cardinality(F)
        /\ Summary(R, D).totalNetSalary = Total(NetSalary, F)
        /\ Summary(R, D).totalGrossSalary = Total(Gross, F)
        /\ Summary(R, D).totalDeductions = Total(Deductions, F)
        /\ Summary(R, D).totalTax = Total(NamedTax, F)
    BY <2>1, <2>2, SameRows
  <2>4. /\ Total(NetSalary, F) =
               SumFunction([d \in R |-> PayrollSummary(Periods).payrollTrend[d]])
        /\ Total(NetSalary, F) = SumFunction([e \in Employees |-> MePayslips(e, R).total_net])
        /\ Total(NamedTax, F) = SumFunction([e \in Employees |-> MePayslips(e, R).total_tax])
    BY <2>1, <2>2, MonthsAndPeople
  <2>5. Total(NetSalary, F) =
            Total(Gross, F) - Total(Deductions, F) - SumFunction([i \in F |-> items[i].tax])
    BY <2>1, <2>2, PaidOutIsLeft
  <2>6. PICK slips : slips = [e \in Employees |-> MePayslips(e, R)]
    OBVIOUS
  <2>7. /\ [e \in Employees |-> slips[e].total_net] = [e \in Employees |-> MePayslips(e, R).total_net]
        /\ [e \in Employees |-> slips[e].total_tax] = [e \in Employees |-> MePayslips(e, R).total_tax]
    BY <2>6
  <2> QED BY <2>3, <2>4, <2>5, <2>6, <2>7
<1>2. ReportInit => ReportInv
  BY InitInv DEF ReportInit, ReportInv, LeftPending, NoReport
<1>3. ReportInv /\ [ReportNext]_reportVars => ReportInv'
  BY ReportStep
<1>4. ReportInv => SummariesAgree
  BY <1>1 DEF ReportInv
<1> QED BY <1>2, <1>3, <1>4, PTL DEF ReportSpec
=============================================================================
