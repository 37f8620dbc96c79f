-------------------------- MODULE GenerationProofs --------------------------
(***************************************************************************)
(* Theorems of Generation, for any employees, tables, rates and number of  *)
(* runs.                                                                   *)
(***************************************************************************)
EXTENDS Generation, SumTheorems

(* What the calculation leads to *)

LEMMA RateTypes ==
  ASSUME NEW r \in Rates
  PROVE  r \in Nat \ {0} /\ Direct(r) \in Quotes /\ Inverted(r) \in Quotes
  BY GenerationAssumption DEF Direct, Inverted, Quotes

LEMMA NatTimes == ASSUME NEW a \in Nat, NEW b \in Nat PROVE a * b \in Nat
  OBVIOUS

LEMMA IntTimes == ASSUME NEW a \in Int, NEW b \in Int PROVE a * b \in Int
  OBVIOUS

LEMMA Quotient == ASSUME NEW a \in Nat, NEW b \in Nat \ {0} PROVE a \div b \in Nat
  BY SMT

(* No bracket yields less than nothing. *)
LEMMA AmountType ==
  ASSUME NEW i \in Brackets, NEW g \in Nat, NEW x \in Quotes
  PROVE  Amount(Bracket[i], g, x) \in Nat
<1>1. PICK num \in Nat \ {0}, den \in Nat \ {0} : x = [num |-> num, den |-> den]
  BY DEF Quotes
<1>2. PICK b : b = Bracket[i]
  OBVIOUS
<1>3. PICK pct \in Nat, fixed \in Int : pct = b.pct /\ fixed = b.fixed
  BY <1>2, GenerationAssumption
<1>4. PICK flat \in Int : flat = 100 * fixed * den
  <2>1. 100 * fixed \in Int
    BY IntTimes
  <2>2. 100 * fixed * den \in Int
    BY <2>1, IntTimes
  <2> QED BY <2>2
<1>5. PICK due \in Int : due = g * num * pct
  <2>1. g * num \in Int
    BY IntTimes
  <2>2. g * num * pct \in Int
    BY <2>1, IntTimes
  <2> QED BY <2>2
<1>6. fixed > 0 => flat >= 0
  <2> SUFFICES ASSUME fixed > 0 PROVE flat >= 0
    OBVIOUS
  <2>1. 100 * fixed \in Nat
    OBVIOUS
  <2>2. 100 * fixed * den \in Nat
    BY <2>1, NatTimes
  <2> QED BY <2>2, <1>4
<1>7. Abs(due - flat) \in Nat
  BY DEF Abs
<1>8. PICK n \in Nat : n = IF pct = 0 /\ fixed > 0 THEN flat ELSE Abs(due - flat)
  BY <1>6, <1>7
<1>9. n \div num \in Nat
  BY Quotient
<1> QED BY <1>1, <1>2, <1>3, <1>4, <1>5, <1>8, <1>9 DEF Amount

LEMMA LinesType ==
  ASSUME NEW b \in Brackets, NEW g \in Nat, NEW x \in Quotes
  PROVE  LinesOf(b, g, x) \subseteq Lines
  BY AmountType DEF LinesOf, Lines

LEMMA DaysType == ASSUME NEW e \in Employees PROVE DeductedDays(e) \in Nat
<1> DEFINE unpaid == {l \in Approved : l.emp = e /\ l.type = "UNPAID"}
           days == Period.from..Period.to
           counted == {x \in unpaid \X days : x[1].from <= x[2] /\ x[2] <= x[1].to}
<1>1. IsFiniteSet(unpaid)
  <2>1. unpaid \subseteq Approved
    OBVIOUS
  <2> QED BY <2>1, FS_Subset, GenerationAssumption
<1>2. IsFiniteSet(days)
  <2>1. Period.from \in Int /\ Period.to \in Int
    BY GenerationAssumption
  <2> QED BY <2>1, FS_Interval
<1>3. IsFiniteSet(unpaid \X days)
  BY <1>1, <1>2, FS_Product
<1>4. IsFiniteSet(counted)
  <2>1. counted \subseteq unpaid \X days
    OBVIOUS
  <2> QED BY <2>1, <1>3, FS_Subset
<1>5. Cardinality(counted) \in Nat
  BY <1>4, FS_CardinalityType
<1> QED BY <1>5 DEF DeductedDays

-----------------------------------------------------------------------------
(* Types *)

LEMMA RunFields ==
  ASSUME TypeOK, NEW q \in Runs
  PROVE  /\ run[q] = Idle \/ run[q] \in Run
         /\ run[q].pc = "idle" <=> run[q] = Idle
         /\ run[q] # Idle => /\ run[q].count \in Count
                             /\ run[q].pc \in {"loop", "draft", "tax", "inverse", "stored"}
         /\ run[q].pc \in {"draft", "stored"} => run[q].emp \in Employees
         /\ run[q].pc \in {"tax", "inverse"} =>
               run[q].draft \in Payroll /\ run[q].left \in SUBSET Brackets
         /\ run[q].pc = "inverse" => run[q].bracket \in Brackets
<1>1. run[q] \in Run \cup {Idle}
  BY DEF TypeOK
<1>2. CASE run[q] = Idle
  BY <1>2 DEF Idle
<1>3. CASE run[q] \in Run
  BY <1>3 DEF Run, Idle
<1> QED BY <1>1, <1>2, <1>3

LEMMA DraftFields ==
  ASSUME NEW d \in Payroll
  PROVE  /\ d.emp \in Employees /\ d.by \in Runs /\ d.gross \in Nat
         /\ d.table \in SUBSET Brackets /\ d.lines \in SUBSET Lines
         /\ d.quoted \in [Directions -> Rates \cup {None}] /\ d.odd \in BOOLEAN
  BY DEF Payroll

LEMMA CurrentType ==
  ASSUME TypeOK, NEW q \in Runs, InHand(q)
  PROVE  Current(q) \in Employees /\ run[q] # Idle /\ run[q].count \in Count
  BY RunFields, DraftFields DEF InHand, Current, Idle

LEMMA LatestType ==
  ASSUME TypeOK, NEW d \in Directions
  PROVE  latest[d] \in Rates \cup {None}
  BY DEF TypeOK

(* A run goes on, and the rest of the variables is typed with it. *)
LEMMA GotoType ==
  ASSUME TypeOK, NEW q \in Runs, NEW r \in Run, Goto(q, r)
  PROVE  run' \in [Runs -> Run \cup {Idle}]
  BY DEF TypeOK, Goto

LEMMA LoopType ==
  ASSUME TypeOK, NEW q \in Runs, NEW c \in Count, Loop(q, c)
  PROVE  run' \in [Runs -> Run \cup {Idle}]
<1>1. [pc |-> "loop", count |-> c] \in Run
  BY DEF Run
<1> QED BY <1>1, GotoType DEF Loop

LEMMA StepType ==
  ASSUME TypeOK, RunStep, run' \in [Runs -> Run \cup {Idle}], payrolls' \subseteq Payroll
  PROVE  TypeOK'
  BY DEF TypeOK, RunStep, TablesUnchanged

LEMMA TaxedType ==
  ASSUME TypeOK, NEW q \in Runs, run[q].pc \in {"tax", "inverse"},
         NEW b \in Brackets, NEW lines \in SUBSET Lines, NEW odd \in BOOLEAN,
         Taxed(q, b, lines, odd)
  PROVE  TypeOK'
<1>1. PICK d : d = run[q].draft
  OBVIOUS
<1>2. d \in Payroll
  BY <1>1, RunFields
<1>3. PICK d2 : d2 = [d EXCEPT !.lines = @ \cup lines, !.odd = @ \/ odd]
  OBVIOUS
<1>4. d2 \in Payroll
  BY <1>2, <1>3 DEF Payroll
<1>5. PICK r : r = [pc |-> "tax", count |-> run[q].count, left |-> run[q].left \ {b},
                    draft |-> d2]
  OBVIOUS
<1>6. r \in Run
  BY <1>4, <1>5, RunFields DEF Run, Idle
<1>7. Goto(q, r) /\ RunStep /\ UNCHANGED payrolls
  BY <1>1, <1>3, <1>5 DEF Taxed
<1> QED BY <1>6, <1>7, GotoType, StepType DEF TypeOK

LEMMA InitTypeOK == Init => TypeOK
<1> SUFFICES ASSUME Init PROVE TypeOK
  OBVIOUS
<1>1. PICK o \in Opening : brackets = o.brackets /\ latest = o.latest
  BY DEF Init
<1>2. o.brackets \in SUBSET Brackets /\ o.latest \in [Directions -> Rates \cup {None}]
  BY GenerationAssumption DEF Directions, None
<1> QED BY <1>1, <1>2, GenerationAssumption DEF Init, TypeOK

LEMMA StartType == ASSUME TypeOK, NEW q \in Runs, Start(q) PROVE TypeOK'
<1>1. PICK c : c = [todo |-> Selected[q], generated |-> {}, skipped |-> {}, failed |-> {}]
  OBVIOUS
<1>2. c \in Count
  BY <1>1, GenerationAssumption DEF Count
<1>3. Loop(q, c)
  BY <1>1 DEF Start
<1>4. run' \in [Runs -> Run \cup {Idle}]
  BY <1>2, <1>3, LoopType
<1>5. together' \subseteq SUBSET Runs
  BY DEF Start, TypeOK
<1> QED BY <1>4, <1>5 DEF Start, TypeOK, TablesUnchanged

LEMMA TakeType ==
  ASSUME TypeOK, NEW q \in Runs, NEW e \in Employees, Take(q, e) PROVE TypeOK'
<1>1. PICK c : c = [run[q].count EXCEPT !.todo = @ \ {e}]
  OBVIOUS
<1>2. run[q].count \in Count
  BY RunFields DEF Take, Idle
<1>3. c \in Count /\ [c EXCEPT !.skipped = @ \cup {e}] \in Count
  BY <1>1, <1>2 DEF Count
<1>4. [pc |-> "draft", count |-> c, emp |-> e] \in Run
  BY <1>3 DEF Run
<1>5. RunStep /\ UNCHANGED payrolls
  BY DEF Take
<1>6. run' \in [Runs -> Run \cup {Idle}]
  <2>1. \/ Loop(q, [c EXCEPT !.skipped = @ \cup {e}])
        \/ Goto(q, [pc |-> "draft", count |-> c, emp |-> e])
    BY <1>1 DEF Take
  <2>2. CASE Loop(q, [c EXCEPT !.skipped = @ \cup {e}])
    <3>1. PICK k \in Count : k = [c EXCEPT !.skipped = @ \cup {e}]
      BY <1>3
    <3> QED BY <3>1, <2>2, LoopType
  <2>3. CASE Goto(q, [pc |-> "draft", count |-> c, emp |-> e])
    BY <2>3, <1>4, GotoType
  <2> QED BY <2>1, <2>2, <2>3
<1> QED BY <1>5, <1>6, StepType DEF TypeOK

LEMMA FailType == ASSUME TypeOK, NEW q \in Runs, Fail(q) PROVE TypeOK'
<1>1. Current(q) \in Employees /\ run[q].count \in Count
  BY CurrentType DEF Fail
<1>2. PICK c \in Count : c = [run[q].count EXCEPT !.failed = @ \cup {Current(q)}]
  BY <1>1 DEF Count
<1>3. Loop(q, c) /\ RunStep /\ UNCHANGED payrolls
  BY <1>2 DEF Fail
<1> QED BY <1>3, LoopType, StepType DEF TypeOK

\* The brackets of a table whose amounts are in the other currency.
Foreign(table) == {b \in table : Bracket[b].foreign}

(* What createDraftAsync starts from, unless there is a payroll by now. *)
LEMMA CheckDraftLeads ==
  ASSUME TypeOK, NEW q \in Runs, CheckDraft(q)
  PROVE  \/ Loop(q, [run[q].count EXCEPT !.failed = @ \cup {run[q].emp}])
         \/ /\ ~HasPayroll(run[q].emp)
            /\ \E d \in Payroll :
                  /\ Goto(q, [pc |-> "tax", count |-> run[q].count, draft |-> d,
                              left |-> Foreign(d.table)])
                  /\ d.emp = run[q].emp /\ d.by = q /\ d.quoted = latest
                  /\ d.lines = UNION {LinesOf(b, d.gross, NoRate) :
                                         b \in d.table \ Foreign(d.table)}
<1>1. PICK r : r = run[q]
  OBVIOUS
<1>2. r.pc = "draft" /\ r.emp \in Employees
  BY <1>1, RunFields DEF CheckDraft
<1>3. PICK table \in SUBSET Brackets : table = IF r.emp \in Exempt THEN {} ELSE brackets
  BY DEF TypeOK
<1>4. PICK lines : lines = UNION {LinesOf(b, Income[r.emp], NoRate) :
                                     b \in table \ Foreign(table)}
  OBVIOUS
<1>5. lines \in SUBSET Lines
  <2>1. NoRate \in Quotes /\ Income[r.emp] \in Nat
    BY <1>2, GenerationAssumption DEF NoRate, Quotes
  <2>2. \A b \in table : LinesOf(b, Income[r.emp], NoRate) \subseteq Lines
    BY <2>1, LinesType
  <2> QED BY <2>2, <1>4
<1>6. PICK days \in Nat : days = IF AutoCalculate THEN DeductedDays(r.emp) ELSE 0
  BY <1>2, DaysType
<1>7. PICK d : d = [emp |-> r.emp, by |-> q, gross |-> Income[r.emp], days |-> days,
                    table |-> table, lines |-> lines, quoted |-> latest, odd |-> FALSE]
  OBVIOUS
<1>8. d \in Payroll
  <2>1. Income[r.emp] \in Nat /\ latest \in [Directions -> Rates \cup {None}]
    BY <1>2, GenerationAssumption DEF TypeOK
  <2> QED BY <2>1, <1>2, <1>5, <1>7 DEF Payroll
<1>9. \/ Loop(q, [r.count EXCEPT !.failed = @ \cup {r.emp}])
      \/ /\ ~HasPayroll(r.emp)
         /\ Goto(q, [pc |-> "tax", count |-> r.count, draft |-> d, left |-> Foreign(table)])
  BY <1>1, <1>3, <1>4, <1>6, <1>7 DEF CheckDraft, Foreign
<1>10. /\ d.emp = r.emp /\ d.by = q /\ d.quoted = latest /\ d.gross = Income[r.emp]
       /\ d.table = table /\ d.lines = lines
  BY <1>7
<1> QED BY <1>1, <1>4, <1>8, <1>9, <1>10

LEMMA CheckDraftType == ASSUME TypeOK, NEW q \in Runs, CheckDraft(q) PROVE TypeOK'
<1>1. PICK r : r = run[q]
  OBVIOUS
<1>2. r.pc = "draft" /\ r.emp \in Employees /\ r.count \in Count
  BY <1>1, RunFields DEF CheckDraft, Idle
<1>3. run' \in [Runs -> Run \cup {Idle}]
  <2>1. CASE Loop(q, [r.count EXCEPT !.failed = @ \cup {r.emp}])
    <3>1. PICK k \in Count : k = [r.count EXCEPT !.failed = @ \cup {r.emp}]
      BY <1>2 DEF Count
    <3> QED BY <3>1, <2>1, LoopType
  <2>2. ASSUME NEW d \in Payroll,
               Goto(q, [pc |-> "tax", count |-> r.count, draft |-> d,
                        left |-> Foreign(d.table)])
        PROVE  run' \in [Runs -> Run \cup {Idle}]
    <3>1. Foreign(d.table) \in SUBSET Brackets
      BY DraftFields DEF Foreign
    <3>2. [pc |-> "tax", count |-> r.count, draft |-> d, left |-> Foreign(d.table)] \in Run
      BY <1>2, <3>1 DEF Run
    <3> QED BY <3>2, <2>2, GotoType
  <2> QED BY <1>1, <2>1, <2>2, CheckDraftLeads
<1>4. RunStep /\ UNCHANGED payrolls
  BY DEF CheckDraft
<1> QED BY <1>3, <1>4, StepType DEF TypeOK

LEMMA ReadDirectType ==
  ASSUME TypeOK, NEW q \in Runs, NEW b \in Brackets, ReadDirect(q, b) PROVE TypeOK'
<1>1. PICK r : r = run[q]
  OBVIOUS
<1>2. r.pc = "tax" /\ r.count \in Count /\ r.draft \in Payroll /\ r.left \in SUBSET Brackets
  BY <1>1, RunFields DEF ReadDirect, Idle
<1>3. CASE latest["direct"] # None
  <2>1. latest["direct"] \in Rates
    BY <1>3, LatestType DEF Directions
  <2>2. PICK lines \in SUBSET Lines :
           lines = LinesOf(b, r.draft.gross, Direct(latest["direct"]))
    BY <2>1, <1>2, RateTypes, DraftFields, LinesType
  <2>3. Taxed(q, b, lines, FALSE)
    BY <1>1, <1>3, <2>2 DEF ReadDirect
  <2> QED BY <1>1, <1>2, <2>3, TaxedType
<1>4. CASE latest["direct"] = None
  <2>1. PICK s : s = [pc |-> "inverse", count |-> r.count, draft |-> r.draft,
                      left |-> r.left, bracket |-> b]
    OBVIOUS
  <2>2. s \in Run
    BY <1>2, <2>1 DEF Run
  <2>3. Goto(q, s) /\ RunStep /\ UNCHANGED payrolls
    BY <1>1, <1>4, <2>1 DEF ReadDirect
  <2> QED BY <2>2, <2>3, GotoType, StepType DEF TypeOK
<1> QED BY <1>3, <1>4

LEMMA ReadInverseType == ASSUME TypeOK, NEW q \in Runs, ReadInverse(q) PROVE TypeOK'
<1>1. PICK b, d : b = run[q].bracket /\ d = run[q].draft
  OBVIOUS
<1>2. run[q].pc = "inverse" /\ b \in Brackets /\ d \in Payroll
  BY <1>1, RunFields DEF ReadInverse
<1>3. PICK lines : lines = IF latest["inverse"] = None THEN {}
                           ELSE LinesOf(b, d.gross, Inverted(latest["inverse"]))
  OBVIOUS
<1>4. lines \in SUBSET Lines
  <2>1. CASE latest["inverse"] = None
    BY <2>1, <1>3
  <2>2. CASE latest["inverse"] # None
    <3>1. latest["inverse"] \in Rates
      BY <2>2, LatestType DEF Directions
    <3> QED BY <3>1, <2>2, <1>2, <1>3, RateTypes, DraftFields, LinesType
  <2> QED BY <2>1, <2>2
<1>5. Taxed(q, b, lines, FALSE)
  BY <1>1, <1>3 DEF ReadInverse
<1> QED BY <1>2, <1>4, <1>5, TaxedType

LEMMA RateUnreadType ==
  ASSUME TypeOK, NEW q \in Runs, NEW b \in Brackets, RateUnread(q, b) PROVE TypeOK'
  BY TaxedType DEF RateUnread

LEMMA StoreType == ASSUME TypeOK, NEW q \in Runs, Store(q) PROVE TypeOK'
<1>1. PICK r, d : r = run[q] /\ d = r.draft
  OBVIOUS
<1>2. r.pc = "tax" /\ r.count \in Count /\ d \in Payroll
  BY <1>1, RunFields DEF Store, Idle
<1>3. PICK s : s = [pc |-> "stored", count |-> r.count, emp |-> d.emp]
  OBVIOUS
<1>4. s \in Run
  BY <1>2, <1>3, DraftFields DEF Run
<1>5. Goto(q, s) /\ RunStep /\ payrolls' = payrolls \cup {d}
  BY <1>1, <1>3 DEF Store
<1> QED BY <1>2, <1>4, <1>5, GotoType, StepType DEF TypeOK

LEMMA ReadBackType == ASSUME TypeOK, NEW q \in Runs, ReadBack(q) PROVE TypeOK'
<1>1. run[q].count \in Count /\ run[q].emp \in Employees
  BY RunFields DEF ReadBack, Idle
<1>2. PICK c \in Count : c = [run[q].count EXCEPT !.generated = @ \cup {run[q].emp}]
  BY <1>1 DEF Count
<1>3. Loop(q, c) /\ RunStep /\ UNCHANGED payrolls
  BY <1>2 DEF ReadBack
<1> QED BY <1>3, LoopType, StepType DEF TypeOK

(* Saving a rate marks the calculations in progress. *)
LEMMA MarkedType ==
  ASSUME TypeOK, NEW d \in Directions, NEW x \in Rates, SaveRate(d, x), NEW q \in Runs
  PROVE  /\ run'[q] \in Run \cup {Idle}
         /\ run[q].pc \notin {"tax", "inverse"} => run'[q] = run[q]
         /\ run[q].pc \in {"tax", "inverse"} =>
               /\ run'[q] = [run[q] EXCEPT !.draft = [@ EXCEPT !.odd = TRUE]]
               /\ run'[q].draft = [run[q].draft EXCEPT !.odd = TRUE]
               /\ run'[q].pc = run[q].pc /\ run'[q].count = run[q].count
               /\ run'[q].left = run[q].left
               /\ run[q].pc = "inverse" => run'[q].bracket = run[q].bracket
<1>1. run'[q] = IF run[q].pc \in {"tax", "inverse"}
                THEN [run[q] EXCEPT !.draft.odd = TRUE] ELSE run[q]
  BY DEF SaveRate
<1>2. CASE run[q].pc \notin {"tax", "inverse"}
  BY <1>1, <1>2, RunFields
<1>3. CASE run[q].pc \in {"tax", "inverse"}
  <2>1. PICK r, d1 : r = run[q] /\ d1 = [r.draft EXCEPT !.odd = TRUE]
    OBVIOUS
  <2>2. r \in Run /\ r.draft \in Payroll
    BY <2>1, <1>3, RunFields DEF Idle
  <2>3. d1 \in Payroll
    BY <2>1, <2>2 DEF Payroll
  <2>4. run'[q] = [r EXCEPT !.draft = d1]
    BY <2>1, <1>1, <1>3
  <2>5. /\ [r EXCEPT !.draft = d1] \in Run
        /\ [r EXCEPT !.draft = d1].draft = d1
        /\ [r EXCEPT !.draft = d1].pc = r.pc
        /\ [r EXCEPT !.draft = d1].count = r.count
        /\ [r EXCEPT !.draft = d1].left = r.left
        /\ r.pc = "inverse" => [r EXCEPT !.draft = d1].bracket = r.bracket
    BY <2>1, <2>2, <2>3, <1>3 DEF Run
  <2> QED BY <2>1, <2>4, <2>5, <1>3
<1> QED BY <1>2, <1>3

LEMMA SaveRateType ==
  ASSUME TypeOK, NEW d \in Directions, NEW x \in Rates, SaveRate(d, x) PROVE TypeOK'
<1>1. \A q \in Runs : run'[q] \in Run \cup {Idle}
  BY MarkedType
<1>2. run' \in [Runs -> Run \cup {Idle}]
  BY <1>1 DEF SaveRate
<1>3. latest' \in [Directions -> Rates \cup {None}]
  BY DEF SaveRate, TypeOK
<1>4. edits' \in 0..MaxEdits
  BY GenerationAssumption DEF SaveRate, Edit, TypeOK
<1> QED BY <1>2, <1>3, <1>4 DEF SaveRate, Edit, TypeOK

LEMMA BracketType ==
  ASSUME TypeOK, NEW b \in Brackets, CreateBracket(b) \/ DeleteBracket(b) PROVE TypeOK'
<1>1. edits' \in 0..MaxEdits
  BY GenerationAssumption DEF CreateBracket, DeleteBracket, Edit, TypeOK
<1> QED BY <1>1 DEF CreateBracket, DeleteBracket, Edit, TypeOK

LEMMA NextTypeOK == TypeOK /\ [Next]_vars => TypeOK'
<1> SUFFICES ASSUME TypeOK, [Next]_vars PROVE TypeOK'
  OBVIOUS
<1>1. CASE UNCHANGED vars
  BY <1>1 DEF vars, TypeOK
<1>2. ASSUME NEW q \in Runs, Start(q) PROVE TypeOK'
  BY <1>2, StartType
<1>3. ASSUME NEW q \in Runs, RunNext(q) PROVE TypeOK'
  BY <1>3, TakeType, FailType, CheckDraftType, ReadDirectType, RateUnreadType,
     ReadInverseType, StoreType, ReadBackType DEF RunNext
<1>4. ASSUME NEW d \in Directions, NEW x \in Rates, SaveRate(d, x) PROVE TypeOK'
  BY <1>4, SaveRateType
<1>5. ASSUME NEW b \in Brackets, CreateBracket(b) \/ DeleteBracket(b) PROVE TypeOK'
  BY <1>5, BracketType
<1> QED BY <1>1, <1>2, <1>3, <1>4, <1>5 DEF Next

-----------------------------------------------------------------------------
(* A run reports what it stored                                              *)

Drafting(q) == run[q].pc \in {"tax", "inverse"}

\* What run q has counted, and who it has in hand, is in order: everybody is to do, in
\* hand or counted, and the payrolls of the run are those of whom it counted.
InOrder(q) ==
    /\ run[q] = Idle => StoredBy(q) = {}
    /\ run[q] # Idle =>
          LET c == run[q].count
          IN  /\ c.todo \cap (c.generated \cup c.skipped \cup c.failed) = {}
              /\ InHand(q) =>
                    Current(q) \notin c.todo \cup c.generated \cup c.skipped \cup c.failed
              /\ Drafting(q) => run[q].draft.by = q
              /\ run[q].pc = "stored" => run[q].emp \in StoredBy(q)
              /\ c.generated \subseteq StoredBy(q)
              /\ c.skipped \cap StoredBy(q) = {}
              /\ \A e \in c.skipped : HasPayroll(e)
              /\ StoredBy(q) \subseteq
                    c.generated \cup c.failed
                    \cup (IF run[q].pc = "stored" THEN {run[q].emp} ELSE {})

Reckoned == TypeOK /\ \A q \in Runs : InOrder(q)

LEMMA ReckonedReports == Reckoned => ReportIsStored
  BY DEF Reckoned, InOrder, ReportIsStored

LEMMA InitReckoned == Init => Reckoned
<1> SUFFICES ASSUME Init PROVE Reckoned
  OBVIOUS
<1>1. \A q \in Runs : run[q] = Idle /\ StoredBy(q) = {}
  BY DEF Init, StoredBy
<1> QED BY <1>1, InitTypeOK DEF Reckoned, InOrder

(* What a step of a run does *)

\* Run q goes on with the same employee: other runs are where they were.
Alone(q) == \A r \in Runs \ {q} : run'[r] = run[r]

LEMMA GotoAlone ==
  ASSUME TypeOK, NEW q \in Runs, NEW r, Goto(q, r)
  PROVE  run'[q] = r /\ Alone(q)
  BY DEF TypeOK, Goto, Alone

LEMMA StepAlone == ASSUME TypeOK, NEW q \in Runs, RunNext(q) \/ Start(q) PROVE Alone(q)
  BY GotoAlone DEF RunNext, Take, Fail, CheckDraft, ReadDirect, RateUnread, ReadInverse,
     Taxed, Store, ReadBack, Start, Loop

\* The calculation of q goes on.
Calculates(q) ==
    /\ Drafting(q)
    /\ run'[q].pc \in {"tax", "inverse"}
    /\ run'[q].count = run[q].count
    /\ run'[q].draft.emp = run[q].draft.emp
    /\ run'[q].draft.by = run[q].draft.by
    /\ UNCHANGED payrolls

LEMMA TaxedCalculates ==
  ASSUME TypeOK, NEW q \in Runs, Drafting(q), NEW b, NEW lines, NEW odd,
         Taxed(q, b, lines, odd)
  PROVE  Calculates(q)
<1>1. PICK d : d = [run[q].draft EXCEPT !.lines = @ \cup lines, !.odd = @ \/ odd]
  OBVIOUS
<1>2. d.emp = run[q].draft.emp /\ d.by = run[q].draft.by
  <2>1. run[q].draft \in Payroll
    BY RunFields DEF Drafting
  <2> QED BY <2>1, <1>1 DEF Payroll
<1>3. PICK r : r = [pc |-> "tax", count |-> run[q].count, left |-> run[q].left \ {b},
                    draft |-> d]
  OBVIOUS
<1>4. Goto(q, r) /\ UNCHANGED payrolls
  BY <1>1, <1>3 DEF Taxed
<1>5. run'[q] = r
  BY <1>4, GotoAlone
<1> QED BY <1>2, <1>3, <1>4, <1>5 DEF Calculates

LEMMA ReadsCalculate ==
  ASSUME TypeOK, NEW q \in Runs, NEW b \in Brackets,
         ReadDirect(q, b) \/ RateUnread(q, b) \/ ReadInverse(q)
  PROVE  Calculates(q)
<1>1. Drafting(q)
  BY DEF Drafting, ReadDirect, RateUnread, ReadInverse
<1>2. CASE \E k, lines, odd : Taxed(q, k, lines, odd)
  BY <1>1, <1>2, TaxedCalculates
<1>3. CASE ReadDirect(q, b) /\ latest["direct"] = None
  <2>1. PICK r : r = [pc |-> "inverse", count |-> run[q].count, draft |-> run[q].draft,
                      left |-> run[q].left, bracket |-> b]
    OBVIOUS
  <2>2. Goto(q, r) /\ UNCHANGED payrolls
    BY <1>3, <2>1 DEF ReadDirect
  <2>3. run'[q] = r
    BY <2>2, GotoAlone
  <2> QED BY <1>1, <2>1, <2>2, <2>3 DEF Calculates
<1> QED BY <1>2, <1>3 DEF ReadDirect, RateUnread, ReadInverse

\* Nothing about run r changes that counts here: its count, who it has in hand and what
\* it stored.
Same(r) ==
    /\ run'[r].pc # run[r].pc => Drafting(r) /\ run'[r].pc \in {"tax", "inverse"}
    /\ run[r] = Idle => run'[r] = Idle
    /\ run[r] # Idle => run'[r] # Idle /\ run'[r].count = run[r].count
    /\ run[r].pc \in {"draft", "stored"} => run'[r].emp = run[r].emp
    /\ Drafting(r) => /\ run'[r].draft.emp = run[r].draft.emp
                      /\ run'[r].draft.by = run[r].draft.by
    /\ StoredBy(r)' = StoredBy(r)
    /\ payrolls \subseteq payrolls'

LEMMA SameInOrder ==
  ASSUME TypeOK, NEW r \in Runs, InOrder(r), Same(r)
  PROVE  InOrder(r)'
<1>1. CASE run[r] = Idle
  BY <1>1 DEF InOrder, Same
<1>2. CASE run[r] # Idle
  <2>1. run[r].pc \in {"loop", "draft", "tax", "inverse", "stored"}
    BY <1>2, RunFields
  <2>2. run'[r] # Idle /\ run'[r].count = run[r].count
    BY <1>2 DEF Same
  <2>3. /\ InHand(r)' = InHand(r)
        /\ Drafting(r)' = Drafting(r)
        /\ (run'[r].pc = "stored") = (run[r].pc = "stored")
    BY <2>1 DEF Same, InHand, Drafting
  <2>4. InHand(r) => Current(r)' = Current(r)
    BY <2>1 DEF Same, InHand, Drafting, Current
  <2>5. run[r].pc = "stored" => run'[r].emp = run[r].emp
    BY DEF Same
  <2>6. Drafting(r) => run'[r].draft.by = run[r].draft.by
    BY DEF Same
  <2>7. \A e : HasPayroll(e) => HasPayroll(e)'
    BY DEF HasPayroll, Same
  <2>8. StoredBy(r)' = StoredBy(r)
    BY DEF Same
  <2> QED BY <1>2, <2>2, <2>3, <2>4, <2>5, <2>6, <2>7, <2>8 DEF InOrder
<1> QED BY <1>1, <1>2

(* Run q counts the employee that it has in hand or takes up. *)
LEMMA LoopInOrder ==
  ASSUME TypeOK, NEW q \in Runs, NEW c \in Count, Loop(q, c), UNCHANGED payrolls,
         c.todo \cap (c.generated \cup c.skipped \cup c.failed) = {},
         c.generated \subseteq StoredBy(q), c.skipped \cap StoredBy(q) = {},
         \A e \in c.skipped : HasPayroll(e), StoredBy(q) \subseteq c.generated \cup c.failed
  PROVE  InOrder(q)'
<1>1. run'[q] = [pc |-> "loop", count |-> c]
  BY GotoAlone DEF Loop
<1>2. StoredBy(q)' = StoredBy(q) /\ \A e : HasPayroll(e)' = HasPayroll(e)
  BY DEF StoredBy, HasPayroll
<1>3. run'[q] # Idle /\ run'[q].pc = "loop" /\ run'[q].count = c
  BY <1>1 DEF Idle
<1>4. ~InHand(q)' /\ ~Drafting(q)'
  BY <1>3 DEF InHand, Drafting
<1> QED BY <1>2, <1>3, <1>4 DEF InOrder

LEMMA UnchangedStored ==
  ASSUME UNCHANGED payrolls
  PROVE  /\ \A q : StoredBy(q)' = StoredBy(q)
         /\ \A e : HasPayroll(e)' = HasPayroll(e)
  BY DEF StoredBy, HasPayroll

LEMMA StoreAdds ==
  ASSUME Reckoned, NEW q \in Runs, Store(q)
  PROVE  /\ payrolls' = payrolls \cup {run[q].draft}
         /\ run[q].draft \in Payroll /\ run[q].draft.by = q
         /\ run[q].pc = "tax" /\ run[q] # Idle /\ Drafting(q)
         /\ run'[q] = [pc |-> "stored", count |-> run[q].count, emp |-> run[q].draft.emp]
         /\ StoredBy(q)' = StoredBy(q) \cup {run[q].draft.emp}
         /\ \A r \in Runs \ {q} : StoredBy(r)' = StoredBy(r)
<1>1. run[q].pc = "tax" /\ run[q] # Idle /\ Drafting(q)
  BY DEF Store, Idle, Drafting
<1>2. payrolls' = payrolls \cup {run[q].draft}
  BY DEF Store
<1>3. run[q].draft \in Payroll /\ run[q].draft.by = q
  BY <1>1, RunFields DEF Reckoned, InOrder
<1>4. run'[q] = [pc |-> "stored", count |-> run[q].count, emp |-> run[q].draft.emp]
  BY GotoAlone DEF Store, Reckoned
<1>5. StoredBy(q)' = StoredBy(q) \cup {run[q].draft.emp}
  BY <1>2, <1>3 DEF StoredBy
<1>6. \A r \in Runs \ {q} : StoredBy(r)' = StoredBy(r)
  BY <1>2, <1>3 DEF StoredBy
<1> QED BY <1>1, <1>2, <1>3, <1>4, <1>5, <1>6

(* Only storing a draft changes the payrolls. *)
LEMMA OnlyStored ==
  ASSUME NEW q \in Runs, RunNext(q) \/ Start(q), ~Store(q) PROVE UNCHANGED payrolls
  BY DEF RunNext, Take, Fail, CheckDraft, ReadDirect, RateUnread, ReadInverse, Taxed,
     ReadBack, Start

LEMMA OthersSame ==
  ASSUME Reckoned, NEW q \in Runs, RunNext(q) \/ Start(q), NEW r \in Runs \ {q}
  PROVE  Same(r)
<1>1. run'[r] = run[r]
  BY StepAlone DEF Alone, Reckoned
<1>2. StoredBy(r)' = StoredBy(r) /\ payrolls \subseteq payrolls'
  <2>1. CASE Store(q)
    BY <2>1, StoreAdds
  <2>2. CASE ~Store(q)
    BY <2>2, OnlyStored, UnchangedStored
  <2> QED BY <2>1, <2>2
<1> QED BY <1>1, <1>2 DEF Same

LEMMA StartInOrder == ASSUME Reckoned, NEW q \in Runs, Start(q) PROVE InOrder(q)'
<1>1. run[q] = Idle
  BY RunFields DEF Start, Reckoned
<1>2. StoredBy(q) = {}
  BY <1>1 DEF Reckoned, InOrder
<1>3. PICK c : c = [todo |-> Selected[q], generated |-> {}, skipped |-> {}, failed |-> {}]
  OBVIOUS
<1>4. c \in Count
  BY <1>3, GenerationAssumption DEF Count
<1>5. Loop(q, c) /\ UNCHANGED payrolls
  BY <1>3 DEF Start
<1> QED BY <1>2, <1>3, <1>4, <1>5, LoopInOrder DEF Reckoned

LEMMA TakeInOrder ==
  ASSUME Reckoned, NEW q \in Runs, NEW e \in Employees, Take(q, e) PROVE InOrder(q)'
<1>1. PICK k : k = run[q].count
  OBVIOUS
<1>2. PICK c : c = [k EXCEPT !.todo = @ \ {e}]
  OBVIOUS
<1>3. /\ run[q].pc = "loop" /\ run[q] # Idle /\ k \in Count /\ e \in k.todo
      /\ UNCHANGED payrolls
  BY <1>1, RunFields DEF Take, Reckoned, Idle
<1>4. /\ c \in Count /\ c.todo = k.todo \ {e} /\ c.generated = k.generated
      /\ c.skipped = k.skipped /\ c.failed = k.failed
  BY <1>2, <1>3 DEF Count
<1>5. /\ k.todo \cap (k.generated \cup k.skipped \cup k.failed) = {}
      /\ k.generated \subseteq StoredBy(q)
      /\ k.skipped \cap StoredBy(q) = {}
      /\ \A i \in k.skipped : HasPayroll(i)
      /\ StoredBy(q) \subseteq k.generated \cup k.failed
  BY <1>1, <1>3 DEF Reckoned, InOrder
<1>6. CASE HasPayroll(e)
  <2>1. PICK s : s = [c EXCEPT !.skipped = @ \cup {e}]
    OBVIOUS
  <2>2. /\ s \in Count /\ s.todo = c.todo /\ s.generated = c.generated
        /\ s.skipped = c.skipped \cup {e} /\ s.failed = c.failed
    BY <1>4, <2>1 DEF Count
  <2>3. Loop(q, s)
    BY <1>1, <1>2, <1>6, <2>1 DEF Take
  <2>4. /\ s.todo \cap (s.generated \cup s.skipped \cup s.failed) = {}
        /\ s.generated \subseteq StoredBy(q)
        /\ s.skipped \cap StoredBy(q) = {}
        /\ \A i \in s.skipped : HasPayroll(i)
        /\ StoredBy(q) \subseteq s.generated \cup s.failed
    BY <1>3, <1>4, <1>5, <1>6, <2>2
  <2> QED BY <1>3, <2>2, <2>3, <2>4, LoopInOrder DEF Reckoned
<1>7. CASE ~HasPayroll(e)
  <2>1. PICK s : s = [pc |-> "draft", count |-> c, emp |-> e]
    OBVIOUS
  <2>2. Goto(q, s)
    BY <1>1, <1>2, <1>7, <2>1 DEF Take
  <2>3. run'[q] = s
    BY <2>2, GotoAlone DEF Reckoned
  <2>4. /\ run'[q] # Idle /\ run'[q].pc = "draft" /\ run'[q].count = c
        /\ Current(q)' = e /\ ~Drafting(q)'
    BY <2>1, <2>3 DEF Idle, Current, Drafting
  <2> QED BY <1>3, <1>4, <1>5, <2>4, UnchangedStored DEF InOrder
<1> QED BY <1>6, <1>7

(* The current employee fails. *)
LEMMA FailedInOrder ==
  ASSUME Reckoned, NEW q \in Runs, InHand(q), NEW e, e = Current(q), UNCHANGED payrolls,
         Loop(q, [run[q].count EXCEPT !.failed = @ \cup {e}])
  PROVE  InOrder(q)'
<1>1. PICK k, c : k = run[q].count /\ c = [k EXCEPT !.failed = @ \cup {e}]
  OBVIOUS
<1>2. e \in Employees /\ run[q] # Idle /\ k \in Count
  BY <1>1, CurrentType DEF Reckoned
<1>3. /\ c \in Count /\ c.todo = k.todo /\ c.generated = k.generated
      /\ c.skipped = k.skipped /\ c.failed = k.failed \cup {e}
  BY <1>1, <1>2 DEF Count
<1>4. /\ k.todo \cap (k.generated \cup k.skipped \cup k.failed) = {}
      /\ e \notin k.todo
      /\ k.generated \subseteq StoredBy(q)
      /\ k.skipped \cap StoredBy(q) = {}
      /\ \A i \in k.skipped : HasPayroll(i)
      /\ StoredBy(q) \subseteq k.generated \cup k.failed \cup {e}
  BY <1>1, <1>2 DEF Reckoned, InOrder, Current
<1>5. /\ c.todo \cap (c.generated \cup c.skipped \cup c.failed) = {}
      /\ c.generated \subseteq StoredBy(q)
      /\ c.skipped \cap StoredBy(q) = {}
      /\ \A i \in c.skipped : HasPayroll(i)
      /\ StoredBy(q) \subseteq c.generated \cup c.failed
  BY <1>3, <1>4
<1>6. Loop(q, c)
  BY <1>1
<1> QED BY <1>3, <1>5, <1>6, LoopInOrder DEF Reckoned

LEMMA CheckDraftInOrder == ASSUME Reckoned, NEW q \in Runs, CheckDraft(q) PROVE InOrder(q)'
<1>1. PICK r, e : r = run[q] /\ e = r.emp
  OBVIOUS
<1>2. /\ r.pc = "draft" /\ r # Idle /\ InHand(q) /\ Current(q) = e /\ UNCHANGED payrolls
      /\ ~Drafting(q)
  BY <1>1 DEF CheckDraft, InHand, Current, Idle, Drafting
<1>3. \/ Loop(q, [r.count EXCEPT !.failed = @ \cup {e}])
      \/ \E d, left : /\ Goto(q, [pc |-> "tax", count |-> r.count, draft |-> d, left |-> left])
                      /\ d.emp = e /\ d.by = q
  BY <1>1, CheckDraftLeads DEF Reckoned
<1>4. CASE Loop(q, [r.count EXCEPT !.failed = @ \cup {e}])
  BY <1>1, <1>2, <1>4, FailedInOrder
<1>5. ASSUME NEW d, NEW left, d.emp = e, d.by = q,
             Goto(q, [pc |-> "tax", count |-> r.count, draft |-> d, left |-> left])
      PROVE  InOrder(q)'
  <2>1. run'[q] = [pc |-> "tax", count |-> r.count, draft |-> d, left |-> left]
    BY <1>5, GotoAlone DEF Reckoned
  <2>2. /\ run'[q] # Idle /\ run'[q].pc = "tax" /\ run'[q].count = r.count
        /\ Current(q)' = e /\ run'[q].draft.by = q
    BY <1>5, <2>1 DEF Idle, Current
  <2>3. UNCHANGED payrolls
    BY <1>2
  <2> QED BY <1>1, <1>2, <2>2, <2>3, UnchangedStored DEF Reckoned, InOrder
<1> QED BY <1>3, <1>4, <1>5

LEMMA CalculatesSame == ASSUME TypeOK, NEW q \in Runs, Calculates(q) PROVE Same(q)
<1>1. StoredBy(q)' = StoredBy(q)
  BY UnchangedStored DEF Calculates
<1>2. run'[q] # Idle /\ run[q] # Idle
  BY DEF Calculates, Drafting, Idle
<1> QED BY <1>1, <1>2 DEF Same, Calculates, Drafting

LEMMA StoreInOrder == ASSUME Reckoned, NEW q \in Runs, Store(q) PROVE InOrder(q)'
<1>1. PICK k, e : k = run[q].count /\ e = run[q].draft.emp
  OBVIOUS
<1>2. Current(q) = e /\ InHand(q) /\ run[q].pc = "tax" /\ run[q] # Idle
  BY <1>1, StoreAdds DEF Current, InHand
<1>3. /\ k.todo \cap (k.generated \cup k.skipped \cup k.failed) = {}
      /\ e \notin k.todo \cup k.generated \cup k.skipped \cup k.failed
      /\ k.generated \subseteq StoredBy(q)
      /\ k.skipped \cap StoredBy(q) = {}
      /\ \A i \in k.skipped : HasPayroll(i)
      /\ StoredBy(q) \subseteq k.generated \cup k.failed
  BY <1>1, <1>2 DEF Reckoned, InOrder
<1>4. run'[q] = [pc |-> "stored", count |-> k, emp |-> e]
  BY <1>1, StoreAdds
<1>5. /\ run'[q] # Idle /\ run'[q].pc = "stored" /\ run'[q].count = k /\ run'[q].emp = e
      /\ Current(q)' = e /\ ~Drafting(q)'
  BY <1>4 DEF Idle, Current, Drafting
<1>6. StoredBy(q)' = StoredBy(q) \cup {e} /\ \A i : HasPayroll(i) => HasPayroll(i)'
  BY <1>1, StoreAdds DEF HasPayroll
<1> QED BY <1>3, <1>5, <1>6 DEF InOrder

LEMMA ReadBackInOrder == ASSUME Reckoned, NEW q \in Runs, ReadBack(q) PROVE InOrder(q)'
<1>1. PICK k, e : k = run[q].count /\ e = run[q].emp
  OBVIOUS
<1>2. PICK c : c = [k EXCEPT !.generated = @ \cup {e}]
  OBVIOUS
<1>3. /\ run[q].pc = "stored" /\ run[q] # Idle /\ k \in Count /\ e \in Employees
      /\ InHand(q) /\ Current(q) = e
  BY <1>1, RunFields DEF ReadBack, Reckoned, Idle, InHand, Current
<1>4. /\ c \in Count /\ c.todo = k.todo /\ c.generated = k.generated \cup {e}
      /\ c.skipped = k.skipped /\ c.failed = k.failed
  BY <1>2, <1>3 DEF Count
<1>5. /\ k.todo \cap (k.generated \cup k.skipped \cup k.failed) = {}
      /\ e \notin k.todo /\ e \in StoredBy(q)
      /\ k.generated \subseteq StoredBy(q)
      /\ k.skipped \cap StoredBy(q) = {}
      /\ \A i \in k.skipped : HasPayroll(i)
      /\ StoredBy(q) \subseteq k.generated \cup k.failed \cup {e}
  BY <1>1, <1>3 DEF Reckoned, InOrder
<1>6. Loop(q, c) /\ UNCHANGED payrolls
  BY <1>1, <1>2 DEF ReadBack
<1> QED BY <1>4, <1>5, <1>6, LoopInOrder DEF Reckoned

LEMMA RunNextInOrder == ASSUME Reckoned, NEW q \in Runs, RunNext(q) PROVE InOrder(q)'
<1>1. ASSUME NEW e \in Employees, Take(q, e) PROVE InOrder(q)'
  BY <1>1, TakeInOrder
<1>2. CASE Fail(q)
  BY <1>2, FailedInOrder DEF Fail
<1>3. CASE CheckDraft(q)
  BY <1>3, CheckDraftInOrder
<1>4. ASSUME NEW b \in Brackets, ReadDirect(q, b) \/ RateUnread(q, b) PROVE InOrder(q)'
  BY <1>4, ReadsCalculate, CalculatesSame, SameInOrder DEF Reckoned
<1>5. CASE ReadInverse(q)
  <2>1. PICK b \in Brackets : b = run[q].bracket
    BY <1>5, RunFields DEF ReadInverse, Reckoned
  <2> QED BY <1>5, <2>1, ReadsCalculate, CalculatesSame, SameInOrder DEF Reckoned
<1>6. CASE Store(q)
  BY <1>6, StoreInOrder
<1>7. CASE ReadBack(q)
  BY <1>7, ReadBackInOrder
<1> QED BY <1>1, <1>2, <1>3, <1>4, <1>5, <1>6, <1>7 DEF RunNext

LEMMA EditSame ==
  ASSUME TypeOK, NEW q \in Runs,
         \/ \E d \in Directions, x \in Rates : SaveRate(d, x)
         \/ \E b \in Brackets : CreateBracket(b) \/ DeleteBracket(b)
  PROVE  Same(q)
<1>1. StoredBy(q)' = StoredBy(q) /\ UNCHANGED payrolls
  BY UnchangedStored DEF SaveRate, CreateBracket, DeleteBracket, Edit
<1>2. ASSUME NEW d \in Directions, NEW x \in Rates, SaveRate(d, x) PROVE Same(q)
  <2>1. CASE run[q].pc \notin {"tax", "inverse"}
    BY <2>1, <1>1, <1>2, MarkedType DEF Same, Drafting
  <2>2. CASE run[q].pc \in {"tax", "inverse"}
    <3>1. run[q].draft \in Payroll
      BY <2>2, RunFields
    <3>2. run'[q].draft = [run[q].draft EXCEPT !.odd = TRUE]
      BY <2>2, <1>2, MarkedType
    <3>3. run'[q].draft.emp = run[q].draft.emp /\ run'[q].draft.by = run[q].draft.by
      BY <3>1, <3>2 DEF Payroll
    <3>4. run'[q].pc = run[q].pc /\ run'[q].count = run[q].count
      BY <2>2, <1>2, MarkedType
    <3>5. run[q] # Idle /\ run'[q] # Idle
      BY <2>2, <3>4 DEF Idle
    <3> QED BY <2>2, <1>1, <3>3, <3>4, <3>5 DEF Same, Drafting
  <2> QED BY <2>1, <2>2
<1>3. ASSUME NEW b \in Brackets, CreateBracket(b) \/ DeleteBracket(b) PROVE Same(q)
  BY <1>1, <1>3 DEF CreateBracket, DeleteBracket, Same
<1> QED BY <1>2, <1>3

LEMMA NextReckoned == Reckoned /\ [Next]_vars => Reckoned'
<1> SUFFICES ASSUME Reckoned, [Next]_vars, NEW r \in Runs PROVE InOrder(r)'
  BY NextTypeOK DEF Reckoned
<1>1. CASE UNCHANGED vars
  <2>1. UNCHANGED <<payrolls, run>>
    BY <1>1 DEF vars
  <2>2. Same(r)
    BY <2>1, UnchangedStored DEF Same
  <2> QED BY <2>2, SameInOrder DEF Reckoned
<1>2. ASSUME NEW q \in Runs, Start(q) \/ RunNext(q) PROVE InOrder(r)'
  <2>1. CASE r = q
    BY <1>2, <2>1, StartInOrder, RunNextInOrder
  <2>2. CASE r # q
    BY <1>2, <2>2, OthersSame, SameInOrder DEF Reckoned
  <2> QED BY <2>1, <2>2
<1>3. CASE \/ \E d \in Directions, x \in Rates : SaveRate(d, x)
           \/ \E b \in Brackets : CreateBracket(b) \/ DeleteBracket(b)
  BY <1>3, EditSame, SameInOrder DEF Reckoned
<1> QED BY <1>1, <1>2, <1>3 DEF Next

(* The types of the model hold whatever runs and edits interleave. *)
THEOREM TypeCorrect == Spec => []TypeOK
<1>1. Init => TypeOK
  BY InitTypeOK
<1>2. TypeOK /\ [Next]_vars => TypeOK'
  BY NextTypeOK
<1> QED BY <1>1, <1>2, PTL DEF Spec

(* What generateBulkAsync reports as generated, skipped or failed is what it stored,   *)
(* whoever else generates payrolls, edits tables or fails meanwhile.                   *)
THEOREM ReportsHold == Spec => []ReportIsStored
<1>1. Init => Reckoned
  BY InitReckoned
<1>2. Reckoned /\ [Next]_vars => Reckoned'
  BY NextReckoned
<1>3. Reckoned => ReportIsStored
  BY ReckonedReports
<1> QED BY <1>1, <1>2, <1>3, PTL DEF Spec

-----------------------------------------------------------------------------
(* No employee twice, unless two runs were at work at once                   *)

\* What is known of the runs at work, and of the payrolls of whom they calculate.
Together ==
    /\ \A q, r \in Runs : q # r /\ AtWork(q) /\ AtWork(r) => {q, r} \in together
    /\ \A q \in Runs, p \in payrolls :
          Drafting(q) /\ p.emp = run[q].draft.emp => {p.by, q} \in together
    /\ RerunIsSafe

LEMMA InitTogether == Init => Together
<1> SUFFICES ASSUME Init PROVE Together
  OBVIOUS
<1>1. payrolls = {} /\ \A q \in Runs : ~AtWork(q)
  BY DEF Init, AtWork
<1> QED BY <1>1 DEF Together, RerunIsSafe

LEMMA TogetherGrows == [Next]_vars => together \subseteq together'
  BY DEF Next, vars, Start, RunNext, Take, Fail, CheckDraft, ReadDirect, RateUnread,
     ReadInverse, Taxed, Store, ReadBack, RunStep, SaveRate, CreateBracket, DeleteBracket, Edit

LEMMA CalculatingAtWork ==
  ASSUME NEW q \in Runs, run[q].pc \in {"draft", "tax", "inverse", "stored"}
  PROVE  AtWork(q)
  BY DEF AtWork, Done, Idle

(* A run that has returned its counts does nothing more. *)
LEMMA DoneStops ==
  ASSUME NEW q \in Runs, Done(q) PROVE ~RunNext(q) /\ ~Start(q)
  BY DEF Done, RunNext, Start, Take, Fail, InHand, CheckDraft, ReadDirect, RateUnread,
     ReadInverse, Store, ReadBack

(* Whoever is at work after a step was so before, or starts now. *)
LEMMA AtWorkBefore ==
  ASSUME TypeOK, [Next]_vars, NEW q \in Runs, AtWork(q)'
  PROVE  AtWork(q) \/ Start(q)
<1> SUFFICES ASSUME ~AtWork(q), ~Start(q) PROVE FALSE
  OBVIOUS
<1>1. run[q] = Idle \/ Done(q)
  BY DEF AtWork
<1>2. ~RunNext(q)
  <2>1. CASE run[q] = Idle
    BY <2>1 DEF Idle, RunNext, Take, Fail, InHand, CheckDraft, ReadDirect, RateUnread,
       ReadInverse, Store, ReadBack
  <2> QED BY <1>1, <2>1, DoneStops
<1>3. run[q].pc \notin {"tax", "inverse"}
  BY <1>1 DEF Idle, Done
<1>4. run'[q] = run[q]
  <2>1. CASE UNCHANGED vars
    BY <2>1 DEF vars
  <2>2. ASSUME NEW r \in Runs, Start(r) \/ RunNext(r) PROVE run'[q] = run[q]
    BY <1>2, <2>2, StepAlone DEF Alone
  <2>3. ASSUME NEW d \in Directions, NEW x \in Rates, SaveRate(d, x)
        PROVE  run'[q] = run[q]
    BY <1>3, <2>3, MarkedType
  <2>4. ASSUME NEW b \in Brackets, CreateBracket(b) \/ DeleteBracket(b)
        PROVE  run'[q] = run[q]
    BY <2>4 DEF CreateBracket, DeleteBracket
  <2> QED BY <2>1, <2>2, <2>3, <2>4 DEF Next
<1> QED BY <1>1, <1>4 DEF AtWork, Done

LEMMA PairsKept ==
  ASSUME TypeOK, Together, [Next]_vars
  PROVE  \A q, r \in Runs : q # r /\ AtWork(q)' /\ AtWork(r)' => {q, r} \in together'
<1>1. ASSUME NEW q \in Runs, NEW r \in Runs, q # r, AtWork(r)', Start(q)
      PROVE  {q, r} \in together'
  <2>1. run'[r] = run[r]
    BY <1>1, StepAlone DEF Alone
  <2>2. AtWork(r)
    BY <1>1, <2>1 DEF AtWork, Done
  <2> QED BY <1>1, <2>2 DEF Start
<1> SUFFICES ASSUME NEW q \in Runs, NEW r \in Runs, q # r, AtWork(q)', AtWork(r)'
             PROVE  {q, r} \in together'
  OBVIOUS
<1>2. CASE AtWork(q) /\ AtWork(r)
  BY <1>2, TogetherGrows DEF Together
<1>3. CASE Start(q)
  BY <1>3, <1>1
<1>4. CASE Start(r)
  <2>1. {r, q} \in together'
    BY <1>4, <1>1
  <2> QED BY <2>1
<1> QED BY <1>2, <1>3, <1>4, AtWorkBefore

(* Whose payroll is calculated after a step was in hand already, or had none. *)
LEMMA DraftingBefore ==
  ASSUME TypeOK, [Next]_vars, NEW q \in Runs, Drafting(q)'
  PROVE  \/ Drafting(q) /\ run'[q].draft.emp = run[q].draft.emp
         \/ /\ UNCHANGED payrolls
            /\ ~HasPayroll(run'[q].draft.emp)
<1>1. CASE UNCHANGED vars
  BY <1>1 DEF vars, Drafting
<1>2. ASSUME NEW r \in Runs \ {q}, Start(r) \/ RunNext(r)
      PROVE  Drafting(q) /\ run'[q].draft.emp = run[q].draft.emp
  BY <1>2, StepAlone DEF Alone, Drafting
<1>3. ASSUME NEW c, Loop(q, c) PROVE FALSE
  BY <1>3, GotoAlone DEF Loop, Drafting
<1>4. ~Start(q)
  BY <1>3 DEF Start
<1>5. ASSUME NEW e \in Employees PROVE ~Take(q, e)
  <2>1. ASSUME NEW c, Goto(q, [pc |-> "draft", count |-> c, emp |-> e]) PROVE FALSE
    BY <2>1, GotoAlone DEF Drafting
  <2> QED BY <1>3, <2>1 DEF Take
<1>6. ~Fail(q) /\ ~ReadBack(q)
  BY <1>3 DEF Fail, ReadBack
<1>7. ~Store(q)
  BY GotoAlone DEF Store, Drafting
<1>8. CASE CheckDraft(q)
  <2>1. PICK d \in Payroll :
           /\ ~HasPayroll(run[q].emp) /\ d.emp = run[q].emp
           /\ Goto(q, [pc |-> "tax", count |-> run[q].count, draft |-> d,
                       left |-> Foreign(d.table)])
    BY <1>3, <1>8, CheckDraftLeads
  <2>2. run'[q].draft = d
    BY <2>1, GotoAlone
  <2> QED BY <1>8, <2>1, <2>2 DEF CheckDraft
<1>9. ASSUME NEW b \in Brackets, ReadDirect(q, b) \/ RateUnread(q, b) \/ ReadInverse(q)
      PROVE  Drafting(q) /\ run'[q].draft.emp = run[q].draft.emp
  BY <1>9, ReadsCalculate DEF Calculates
<1>10. CASE ReadInverse(q)
  <2>1. run[q].bracket \in Brackets
    BY <1>10, RunFields DEF ReadInverse
  <2> QED BY <2>1, <1>9, <1>10
<1>11. CASE RunNext(q)
  BY <1>5, <1>6, <1>7, <1>8, <1>9, <1>10, <1>11 DEF RunNext
<1>12. ASSUME NEW d \in Directions, NEW x \in Rates, SaveRate(d, x)
       PROVE  Drafting(q) /\ run'[q].draft.emp = run[q].draft.emp
  <2>1. Drafting(q)
    BY <1>12, MarkedType DEF Drafting
  <2>2. run'[q].draft = [run[q].draft EXCEPT !.odd = TRUE] /\ run[q].draft \in Payroll
    BY <1>12, <2>1, MarkedType, RunFields DEF Drafting
  <2> QED BY <2>1, <2>2 DEF Payroll
<1>13. ASSUME NEW b \in Brackets, CreateBracket(b) \/ DeleteBracket(b)
       PROVE  Drafting(q) /\ run'[q].draft.emp = run[q].draft.emp
  BY <1>13 DEF CreateBracket, DeleteBracket, Drafting
<1> QED BY <1>1, <1>2, <1>4, <1>11, <1>12, <1>13 DEF Next

(* A payroll comes from a run that has calculated it. *)
LEMMA PayrollsBefore ==
  ASSUME Reckoned, [Next]_vars
  PROVE  \/ UNCHANGED payrolls
         \/ \E q \in Runs : Store(q) /\ payrolls' = payrolls \cup {run[q].draft}
<1>1. CASE UNCHANGED vars
  BY <1>1 DEF vars
<1>2. ASSUME NEW q \in Runs, Start(q) \/ RunNext(q)
      PROVE  UNCHANGED payrolls \/ (Store(q) /\ payrolls' = payrolls \cup {run[q].draft})
  BY <1>2, OnlyStored, StoreAdds
<1>3. CASE \/ \E d \in Directions, x \in Rates : SaveRate(d, x)
           \/ \E b \in Brackets : CreateBracket(b) \/ DeleteBracket(b)
  BY <1>3 DEF SaveRate, CreateBracket, DeleteBracket, Edit
<1> QED BY <1>1, <1>2, <1>3 DEF Next

LEMMA NextTogether ==
  Reckoned /\ Together /\ [Next]_vars => Together'
<1> SUFFICES ASSUME Reckoned, Together, [Next]_vars PROVE Together'
  OBVIOUS
<1>1. TypeOK
  BY DEF Reckoned
<1>2. together \subseteq together'
  BY TogetherGrows
<1>3. ASSUME NEW q \in Runs, Drafting(q), NEW p \in payrolls, p.emp = run[q].draft.emp
      PROVE  {p.by, q} \in together /\ p.by # q
  <2>1. {p.by, q} \in together
    BY <1>3 DEF Together
  <2>2. p.emp \notin StoredBy(q)
    <3>1. run[q] # Idle /\ InHand(q) /\ Current(q) = p.emp /\ run[q].pc # "stored"
      BY <1>3 DEF Drafting, InHand, Current, Idle
    <3> QED BY <3>1 DEF Reckoned, InOrder
  <2> QED BY <1>3, <2>1, <2>2 DEF StoredBy
<1>4. \A q \in Runs, p \in payrolls' :
         Drafting(q)' /\ p.emp = run'[q].draft.emp => {p.by, q} \in together'
  <2> SUFFICES ASSUME NEW q \in Runs, NEW p \in payrolls', Drafting(q)',
                      p.emp = run'[q].draft.emp
               PROVE  {p.by, q} \in together'
    OBVIOUS
  <2>1. CASE UNCHANGED payrolls /\ ~HasPayroll(run'[q].draft.emp)
    BY <2>1 DEF HasPayroll
  <2>2. CASE Drafting(q) /\ run'[q].draft.emp = run[q].draft.emp
    <3>1. CASE p \in payrolls
      BY <2>2, <3>1, <1>2, <1>3
    <3>2. CASE p \notin payrolls
      <4>1. PICK r \in Runs : Store(r) /\ payrolls' = payrolls \cup {run[r].draft}
        BY <3>2, PayrollsBefore
      <4>2. p = run[r].draft /\ p.by = r /\ Drafting(r)
        BY <3>2, <4>1, StoreAdds
      <4>3. r # q
        BY <4>1, <1>1, GotoAlone DEF Store, Drafting
      <4>4. AtWork(r) /\ AtWork(q)
        BY <4>2, <2>2, CalculatingAtWork DEF Drafting
      <4> QED BY <4>2, <4>3, <4>4, <1>2 DEF Together
    <3> QED BY <3>1, <3>2
  <2> QED BY <1>1, <2>1, <2>2, DraftingBefore
<1>5. RerunIsSafe'
  <2>1. CASE UNCHANGED payrolls
    BY <2>1, <1>2 DEF RerunIsSafe, Together
  <2>2. ASSUME NEW q \in Runs, Store(q), payrolls' = payrolls \cup {run[q].draft}
        PROVE  RerunIsSafe'
    <3>1. run[q].draft.by = q /\ Drafting(q)
      BY <2>2, StoreAdds
    <3>2. \A p \in payrolls : p.emp = run[q].draft.emp => {p.by, q} \in together'
      BY <3>1, <1>2, <1>3
    <3>3. \A p, r \in payrolls : p # r /\ p.emp = r.emp => {p.by, r.by} \in together'
      BY <1>2 DEF Together, RerunIsSafe
    <3>4. ASSUME NEW p \in payrolls, p.emp = run[q].draft.emp
          PROVE  {p.by, q} \in together' /\ {q, p.by} \in together'
      <4>1. {p.by, q} = {q, p.by}
        OBVIOUS
      <4> QED BY <3>2, <3>4, <4>1
    <3>5. \A p, r \in payrolls \cup {run[q].draft} :
             p # r /\ p.emp = r.emp => {p.by, r.by} \in together'
      BY <3>1, <3>3, <3>4
    <3> QED BY <2>2, <3>5 DEF RerunIsSafe
  <2> QED BY <2>1, <2>2, PayrollsBefore
<1> QED BY <1>1, <1>4, <1>5, PairsKept DEF Together

(* "Skip if already exists": a run that is repeated generates nothing twice, and two   *)
(* payrolls of an employee come from runs that were at work at once.                   *)
THEOREM RerunsAreSafe == Spec => []RerunIsSafe
<1>1. Init => Reckoned /\ Together
  BY InitReckoned, InitTogether
<1>2. Reckoned /\ Together /\ [Next]_vars => Reckoned' /\ Together'
  BY NextReckoned, NextTogether
<1>3. Together => RerunIsSafe
  BY DEF Together
<1> QED BY <1>1, <1>2, <1>3, PTL DEF Spec

-----------------------------------------------------------------------------
(* One table and one rate for each calculation                               *)

\* The lines of the brackets of the table of d, but those in the other currency that
\* are left, at the rates when the calculation began.
TaxLines(d, left) ==
    (UNION {LinesOf(b, d.gross, x) : b \in Foreign(d.table) \ left, x \in Quoted(d.quoted)})
    \cup (UNION {LinesOf(b, d.gross, NoRate) : b \in d.table \ Foreign(d.table)})

\* What run q has calculated so far.
AsQuoted(q) ==
    Drafting(q) =>
        LET d == run[q].draft
        IN  /\ run[q].left \subseteq Foreign(d.table)
            /\ run[q].pc = "inverse" => run[q].bracket \in run[q].left
            /\ ~d.odd => /\ d.quoted = latest
                         /\ run[q].pc = "inverse" => latest["direct"] = None
                         /\ d.lines = TaxLines(d, run[q].left)

OneRate ==
    /\ \A q \in Runs : AsQuoted(q)
    /\ \A p \in payrolls : ~p.odd => p.lines = TaxLines(p, {})

LEMMA OneRateTaxes == OneRate => TaxedAtOneRate
<1> SUFFICES ASSUME OneRate, NEW p \in payrolls, ~p.odd
             PROVE  p.lines =
                       (UNION {LinesOf(b, p.gross, x) :
                                  b \in {c \in p.table : Bracket[c].foreign},
                                  x \in Quoted(p.quoted)})
                       \cup (UNION {LinesOf(b, p.gross, NoRate) :
                                       b \in {c \in p.table : ~Bracket[c].foreign}})
  BY DEF TaxedAtOneRate
<1>1. p.lines = TaxLines(p, {})
  BY DEF OneRate
<1>2. /\ Foreign(p.table) \ {} = {c \in p.table : Bracket[c].foreign}
      /\ p.table \ Foreign(p.table) = {c \in p.table : ~Bracket[c].foreign}
  BY DEF Foreign
<1> QED BY <1>1, <1>2 DEF TaxLines

LEMMA InitOneRate == Init => OneRate
<1> SUFFICES ASSUME Init PROVE OneRate
  OBVIOUS
<1>1. payrolls = {} /\ \A q \in Runs : ~Drafting(q)
  BY DEF Init, Idle, Drafting
<1> QED BY <1>1 DEF OneRate, AsQuoted

LEMMA QuotedWhen ==
  ASSUME NEW quoted
  PROVE  /\ quoted["direct"] # None => Quoted(quoted) = {Direct(quoted["direct"])}
         /\ quoted["direct"] = None /\ quoted["inverse"] # None =>
               Quoted(quoted) = {Inverted(quoted["inverse"])}
         /\ quoted["direct"] = None /\ quoted["inverse"] = None => Quoted(quoted) = {}
  BY DEF Quoted, Direct, Inverted

(* One bracket less is left. *)
LEMMA OneLess ==
  ASSUME NEW d, NEW left, NEW b \in left, left \subseteq Foreign(d.table)
  PROVE  TaxLines(d, left \ {b}) =
            TaxLines(d, left) \cup (UNION {LinesOf(b, d.gross, x) : x \in Quoted(d.quoted)})
<1>1. Foreign(d.table) \ (left \ {b}) = (Foreign(d.table) \ left) \cup {b}
  OBVIOUS
<1>2. UNION {LinesOf(i, d.gross, x) :
                i \in (Foreign(d.table) \ left) \cup {b}, x \in Quoted(d.quoted)} =
      (UNION {LinesOf(i, d.gross, x) : i \in Foreign(d.table) \ left, x \in Quoted(d.quoted)})
      \cup (UNION {LinesOf(b, d.gross, x) : x \in Quoted(d.quoted)})
  OBVIOUS
<1> QED BY <1>1, <1>2 DEF TaxLines

LEMMA TaxedAsQuoted ==
  ASSUME TypeOK, NEW q \in Runs, AsQuoted(q), Drafting(q), NEW b \in run[q].left,
         NEW lines, NEW odd \in BOOLEAN, Taxed(q, b, lines, odd),
         odd \/ lines = UNION {LinesOf(b, run[q].draft.gross, x) : x \in Quoted(latest)}
  PROVE  AsQuoted(q)'
<1>1. PICK d, left : d = run[q].draft /\ left = run[q].left
  OBVIOUS
<1>2. d \in Payroll /\ left \subseteq Foreign(d.table)
  BY <1>1, RunFields DEF AsQuoted, Drafting
<1>3. PICK d2 : d2 = [d EXCEPT !.lines = @ \cup lines, !.odd = @ \/ odd]
  OBVIOUS
<1>4. /\ d2.table = d.table /\ d2.gross = d.gross /\ d2.quoted = d.quoted
      /\ d2.lines = d.lines \cup lines /\ d2.odd = (d.odd \/ odd)
  BY <1>2, <1>3 DEF Payroll
<1>5. PICK r : r = [pc |-> "tax", count |-> run[q].count, left |-> left \ {b}, draft |-> d2]
  OBVIOUS
<1>6. run'[q] = r /\ UNCHANGED latest
  BY <1>1, <1>3, <1>5, GotoAlone DEF Taxed, RunStep, TablesUnchanged
<1>7. left \ {b} \subseteq Foreign(d2.table)
  BY <1>2, <1>4
<1>8. ASSUME ~d2.odd PROVE d2.quoted = latest /\ d2.lines = TaxLines(d2, left \ {b})
  <2>1. ~d.odd /\ lines = UNION {LinesOf(b, d.gross, x) : x \in Quoted(latest)}
    BY <1>1, <1>4, <1>8
  <2>2. d.quoted = latest /\ d.lines = TaxLines(d, left)
    BY <2>1, <1>1 DEF AsQuoted
  <2>3. d2.lines = TaxLines(d, left \ {b})
    <3>1. b \in left
      BY <1>1
    <3>2. TaxLines(d, left \ {b}) =
             TaxLines(d, left) \cup (UNION {LinesOf(b, d.gross, x) : x \in Quoted(d.quoted)})
      BY <3>1, <1>2, OneLess
    <3>3. lines = UNION {LinesOf(b, d.gross, x) : x \in Quoted(d.quoted)}
      BY <2>1, <2>2
    <3>4. d2.lines = TaxLines(d, left) \cup lines
      BY <2>2, <1>4
    <3> QED BY <3>2, <3>3, <3>4
  <2>4. TaxLines(d2, left \ {b}) = TaxLines(d, left \ {b})
    BY <1>4 DEF TaxLines
  <2> QED BY <2>2, <2>3, <2>4, <1>4
<1> QED BY <1>5, <1>6, <1>7, <1>8 DEF AsQuoted

LEMMA ReadDirectAsQuoted ==
  ASSUME TypeOK, NEW q \in Runs, AsQuoted(q), NEW b \in Brackets, ReadDirect(q, b)
  PROVE  AsQuoted(q)'
<1>1. Drafting(q) /\ b \in run[q].left
  BY DEF ReadDirect, Drafting
<1>2. CASE latest["direct"] # None
  <2>1. PICK lines : lines = LinesOf(b, run[q].draft.gross, Direct(latest["direct"]))
    OBVIOUS
  <2>2. lines = UNION {LinesOf(b, run[q].draft.gross, x) : x \in Quoted(latest)}
    <3>1. Quoted(latest) = {Direct(latest["direct"])}
      BY <1>2, QuotedWhen
    <3> QED BY <3>1, <2>1
  <2>3. Taxed(q, b, lines, FALSE)
    BY <1>2, <2>1 DEF ReadDirect
  <2> QED BY <1>1, <2>2, <2>3, TaxedAsQuoted
<1>3. CASE latest["direct"] = None
  <2>1. PICK r : r = [pc |-> "inverse", count |-> run[q].count, draft |-> run[q].draft,
                      left |-> run[q].left, bracket |-> b]
    OBVIOUS
  <2>2. run'[q] = r /\ UNCHANGED latest
    BY <1>3, <2>1, GotoAlone DEF ReadDirect, RunStep, TablesUnchanged
  <2> QED BY <1>1, <1>3, <2>1, <2>2 DEF AsQuoted
<1> QED BY <1>2, <1>3

LEMMA ReadInverseAsQuoted ==
  ASSUME TypeOK, NEW q \in Runs, AsQuoted(q), ReadInverse(q)
  PROVE  AsQuoted(q)'
<1>1. Drafting(q) /\ run[q].pc = "inverse" /\ run[q].bracket \in run[q].left
  BY DEF ReadInverse, Drafting, AsQuoted
<1>2. PICK b, d : b = run[q].bracket /\ d = run[q].draft
  OBVIOUS
<1>3. PICK lines : lines = IF latest["inverse"] = None THEN {}
                           ELSE LinesOf(b, d.gross, Inverted(latest["inverse"]))
  OBVIOUS
<1>4. Taxed(q, b, lines, FALSE)
  BY <1>2, <1>3 DEF ReadInverse
<1>5. CASE d.odd
  <2>1. PICK d2 : d2 = [d EXCEPT !.lines = @ \cup lines, !.odd = @ \/ FALSE]
    OBVIOUS
  <2>2. d \in Payroll
    BY <1>1, <1>2, RunFields
  <2>3. d2.odd /\ d2.table = d.table
    BY <1>5, <2>1, <2>2 DEF Payroll
  <2>4. PICK r : r = [pc |-> "tax", count |-> run[q].count, left |-> run[q].left \ {b},
                      draft |-> d2]
    OBVIOUS
  <2>5. run'[q] = r
    BY <1>2, <1>4, <2>1, <2>4, GotoAlone DEF Taxed
  <2> QED BY <1>1, <1>2, <2>3, <2>4, <2>5 DEF AsQuoted
<1>6. CASE ~d.odd
  <2>1. latest["direct"] = None
    BY <1>1, <1>2, <1>6 DEF AsQuoted
  <2>2. lines = UNION {LinesOf(b, d.gross, x) : x \in Quoted(latest)}
    <3>1. CASE latest["inverse"] = None
      <4>1. Quoted(latest) = {}
        BY <2>1, <3>1, QuotedWhen
      <4> QED BY <4>1, <3>1, <1>3
    <3>2. CASE latest["inverse"] # None
      <4>1. Quoted(latest) = {Inverted(latest["inverse"])}
        BY <2>1, <3>2, QuotedWhen
      <4> QED BY <4>1, <3>2, <1>3
    <3> QED BY <3>1, <3>2
  <2> QED BY <1>1, <1>2, <1>4, <2>2, TaxedAsQuoted
<1> QED BY <1>5, <1>6

LEMMA RateUnreadAsQuoted ==
  ASSUME TypeOK, NEW q \in Runs, AsQuoted(q), NEW b \in Brackets, RateUnread(q, b)
  PROVE  AsQuoted(q)'
  BY TaxedAsQuoted DEF RateUnread, Drafting

LEMMA CheckDraftAsQuoted ==
  ASSUME TypeOK, NEW q \in Runs, CheckDraft(q)
  PROVE  AsQuoted(q)'
<1>1. UNCHANGED latest
  BY DEF CheckDraft, RunStep, TablesUnchanged
<1>2. ASSUME NEW c, Loop(q, c) PROVE AsQuoted(q)'
  BY <1>2, GotoAlone DEF Loop, AsQuoted, Drafting
<1>3. ASSUME NEW d \in Payroll,
             Goto(q, [pc |-> "tax", count |-> run[q].count, draft |-> d,
                      left |-> Foreign(d.table)]),
             d.quoted = latest,
             d.lines = UNION {LinesOf(b, d.gross, NoRate) : b \in d.table \ Foreign(d.table)}
      PROVE  AsQuoted(q)'
  <2>1. /\ run'[q].pc = "tax" /\ run'[q].draft = d /\ run'[q].left = Foreign(d.table)
    BY <1>3, GotoAlone
  <2>2. TaxLines(d, Foreign(d.table)) = d.lines
    BY <1>3 DEF TaxLines
  <2> QED BY <1>1, <1>3, <2>1, <2>2 DEF AsQuoted
<1> QED BY <1>2, <1>3, CheckDraftLeads

LEMMA RunNextAsQuoted ==
  ASSUME TypeOK, NEW q \in Runs, AsQuoted(q), RunNext(q) \/ Start(q) PROVE AsQuoted(q)'
<1>1. ASSUME NEW c, Loop(q, c) PROVE AsQuoted(q)'
  BY <1>1, GotoAlone DEF Loop, AsQuoted, Drafting
<1>2. ASSUME NEW e \in Employees, Take(q, e) PROVE AsQuoted(q)'
  <2>1. ASSUME NEW c, Goto(q, [pc |-> "draft", count |-> c, emp |-> e]) PROVE AsQuoted(q)'
    BY <2>1, GotoAlone DEF AsQuoted, Drafting
  <2> QED BY <1>1, <1>2, <2>1 DEF Take
<1>3. CASE Store(q)
  BY <1>3, GotoAlone DEF Store, AsQuoted, Drafting
<1>4. CASE Start(q) \/ Fail(q) \/ ReadBack(q)
  BY <1>1, <1>4 DEF Start, Fail, ReadBack
<1> QED BY <1>2, <1>3, <1>4, CheckDraftAsQuoted, ReadDirectAsQuoted, RateUnreadAsQuoted,
           ReadInverseAsQuoted DEF RunNext

LEMMA NextOneRate == Reckoned /\ OneRate /\ [Next]_vars => OneRate'
<1> SUFFICES ASSUME Reckoned, OneRate, [Next]_vars PROVE OneRate'
  OBVIOUS
<1>1. TypeOK
  BY DEF Reckoned
<1>2. ASSUME NEW r \in Runs PROVE AsQuoted(r)'
  <2>1. CASE UNCHANGED vars
    BY <2>1 DEF vars, OneRate, AsQuoted, Drafting
  <2>2. ASSUME NEW q \in Runs, Start(q) \/ RunNext(q) PROVE AsQuoted(r)'
    <3>1. CASE r = q
      BY <1>1, <2>2, <3>1, RunNextAsQuoted DEF OneRate
    <3>2. CASE r # q
      <4>1. run'[r] = run[r]
        BY <1>1, <2>2, <3>2, StepAlone DEF Alone
      <4>2. UNCHANGED latest
        BY <2>2 DEF Start, RunNext, Take, Fail, CheckDraft, ReadDirect, RateUnread,
           ReadInverse, Taxed, Store, ReadBack, RunStep, TablesUnchanged
      <4> QED BY <4>1, <4>2 DEF OneRate, AsQuoted, Drafting
    <3> QED BY <3>1, <3>2
  <2>3. ASSUME NEW d \in Directions, NEW x \in Rates, SaveRate(d, x) PROVE AsQuoted(r)'
    <3>1. CASE ~Drafting(r)
      BY <1>1, <2>3, <3>1, MarkedType DEF AsQuoted, Drafting
    <3>2. CASE Drafting(r)
      <4>1. run[r].draft \in Payroll
        BY <1>1, <3>2, RunFields DEF Drafting
      <4>2. run'[r].draft = [run[r].draft EXCEPT !.odd = TRUE]
        BY <1>1, <2>3, <3>2, MarkedType DEF Drafting
      <4>3. run'[r].draft.odd /\ run'[r].draft.table = run[r].draft.table
        BY <4>1, <4>2 DEF Payroll
      <4>4. /\ run'[r].pc = run[r].pc /\ run'[r].left = run[r].left
            /\ run[r].pc = "inverse" => run'[r].bracket = run[r].bracket
        BY <1>1, <2>3, <3>2, MarkedType DEF Drafting
      <4> QED BY <3>2, <4>3, <4>4 DEF OneRate, AsQuoted
    <3> QED BY <3>1, <3>2
  <2>4. ASSUME NEW b \in Brackets, CreateBracket(b) \/ DeleteBracket(b) PROVE AsQuoted(r)'
    BY <2>4 DEF CreateBracket, DeleteBracket, OneRate, AsQuoted, Drafting
  <2> QED BY <2>1, <2>2, <2>3, <2>4 DEF Next
<1>3. \A p \in payrolls' : ~p.odd => p.lines = TaxLines(p, {})
  <2>1. ASSUME NEW q \in Runs, Store(q)
        PROVE  ~run[q].draft.odd => run[q].draft.lines = TaxLines(run[q].draft, {})
    <3>1. Drafting(q) /\ run[q].left = {}
      BY <2>1 DEF Store, Drafting
    <3> QED BY <3>1 DEF OneRate, AsQuoted
  <2> QED BY <2>1, PayrollsBefore DEF OneRate
<1> QED BY <1>2, <1>3 DEF OneRate

(* Every payroll is taxed by one table at the one rate that was the latest when its    *)
(* calculation began, unless a rate was saved, or could not be read, meanwhile.        *)
THEOREM TaxedOnce == Spec => []TaxedAtOneRate
<1>1. Init => Reckoned /\ OneRate
  BY InitReckoned, InitOneRate
<1>2. Reckoned /\ OneRate /\ [Next]_vars => Reckoned' /\ OneRate'
  BY NextReckoned, NextOneRate
<1>3. OneRate => TaxedAtOneRate
  BY OneRateTaxes
<1> QED BY <1>1, <1>2, <1>3, PTL DEF Spec

-----------------------------------------------------------------------------
(* Who earns more keeps more                                                 *)

LEMMA AbsRises ==
  ASSUME NEW u \in Int, NEW v \in Int, NEW k \in Int, v - u <= k, u - v <= k
  PROVE  Abs(v) <= Abs(u) + k /\ Abs(u) <= Abs(v) + k
  BY DEF Abs

LEMMA AbsTimes ==
  ASSUME NEW n \in Nat, NEW u \in Int PROVE Abs(n * u) = n * Abs(u)
<1>1. CASE u >= 0
  <2>1. n * u \in Nat
    BY <1>1, NatTimes
  <2> QED BY <1>1, <2>1 DEF Abs
<1>2. CASE u < 0
  <2>1. -u \in Nat /\ n * (-u) \in Nat
    BY <1>2, NatTimes
  <2>2. n * (-u) = -(n * u)
    OBVIOUS
  <2>3. n * u \in Int
    BY IntTimes
  <2> QED BY <1>2, <2>1, <2>2, <2>3 DEF Abs
<1> QED BY <1>1, <1>2

(* More by less than k times the divisor is more by less than k when divided. *)
LEMMA QuotientRises ==
  ASSUME NEW a \in Nat, NEW b \in Nat, NEW n \in Nat \ {0}, NEW k \in Nat, b <= a + n * k
  PROVE  b \div n <= (a \div n) + k
<1>1. PICK q, r : q = a \div n /\ r = a % n
  OBVIOUS
<1>2. q \in Nat /\ r \in 0..(n - 1) /\ a = n * q + r
  BY <1>1, SMT
<1>3. PICK s, t : s = b \div n /\ t = b % n
  OBVIOUS
<1>4. s \in Nat /\ t \in 0..(n - 1) /\ b = n * s + t
  BY <1>3, SMT
<1>5. n * s < n * (q + k + 1)
  <2>1. n * (q + k + 1) = n * q + n * k + n
    BY <1>2, SMT
  <2>2. n * q \in Int /\ n * k \in Int /\ n * s \in Int
    BY <1>2, <1>4, IntTimes
  <2> QED BY <1>2, <1>4, <2>1, <2>2
<1>6. s < q + k + 1
  <2> SUFFICES ASSUME s >= q + k + 1 PROVE FALSE
    BY <1>2, <1>4
  <2>1. s - (q + k + 1) \in Nat
    BY <1>2, <1>4
  <2>2. n * (s - (q + k + 1)) \in Nat
    BY <2>1, NatTimes
  <2>3. n * (s - (q + k + 1)) = n * s - n * (q + k + 1)
    BY <1>2, <1>4, SMT
  <2>4. n * s \in Int /\ n * (q + k + 1) \in Int
    BY <1>2, <1>4, IntTimes
  <2> QED BY <1>5, <2>2, <2>3, <2>4
<1> QED BY <1>1, <1>2, <1>3, <1>4, <1>6

\* What bracket b takes of an income of y / d, times d.
Due(b, y, d) ==
    IF b.pct = 0 /\ b.fixed > 0 THEN 100 * b.fixed * d ELSE Abs(y * b.pct - 100 * b.fixed * d)

LEMMA AmountIsDue ==
  ASSUME NEW b, NEW g, NEW x
  PROVE  Amount(b, g, x) = Due(b, g * x.num, x.den) \div x.num
  BY DEF Amount, Due

LEMMA BracketFields ==
  ASSUME NEW i \in Brackets
  PROVE  /\ Bracket[i].min \in Nat /\ Bracket[i].max \in Nat /\ Bracket[i].pct \in Nat
         /\ Bracket[i].fixed \in Int /\ Bracket[i].foreign \in BOOLEAN
  BY GenerationAssumption

LEMMA DueType ==
  ASSUME NEW i \in Brackets, NEW y \in Nat, NEW d \in Nat \ {0}
  PROVE  Due(Bracket[i], y, d) \in Nat
<1>1. PICK pct \in Nat, fixed \in Int : pct = Bracket[i].pct /\ fixed = Bracket[i].fixed
  BY BracketFields
<1>2. y * pct \in Int /\ 100 * fixed \in Int /\ (100 * fixed) * d \in Int
  BY IntTimes
<1>3. Abs(y * pct - (100 * fixed) * d) \in Nat
  BY <1>2 DEF Abs
<1>4. fixed > 0 => (100 * fixed) * d \in Nat
  <2> SUFFICES ASSUME fixed > 0 PROVE (100 * fixed) * d \in Nat
    OBVIOUS
  <2>1. 100 * fixed \in Nat
    OBVIOUS
  <2> QED BY <2>1, NatTimes
<1> QED BY <1>1, <1>3, <1>4 DEF Due

(* It changes by no more than the income, where the rate is 100 per cent at most. *)
LEMMA DueRises ==
  ASSUME NEW i \in Brackets, Bracket[i].pct <= 100, NEW y \in Nat, NEW z \in Nat, y <= z,
         NEW d \in Nat \ {0}
  PROVE  /\ Due(Bracket[i], z, d) <= Due(Bracket[i], y, d) + 100 * (z - y)
         /\ Due(Bracket[i], y, d) <= Due(Bracket[i], z, d) + 100 * (z - y)
<1>1. PICK pct \in Nat, fixed \in Int : pct = Bracket[i].pct /\ fixed = Bracket[i].fixed
  BY BracketFields
<1>2. PICK flat \in Int : flat = 100 * fixed * d
  <2>1. 100 * fixed \in Int
    BY IntTimes
  <2>2. 100 * fixed * d \in Int
    BY <2>1, IntTimes
  <2> QED BY <2>2
<1>3. PICK u \in Int, v \in Int : u = y * pct /\ v = z * pct
  BY IntTimes
<1>4. v - u \in Nat /\ v - u <= 100 * (z - y)
  <2>1. z - y \in Nat /\ 100 - pct \in Nat
    BY <1>1
  <2>2. (z - y) * pct \in Nat /\ (z - y) * (100 - pct) \in Nat
    BY <2>1, NatTimes
  <2>3. (z - y) * pct = v - u
    BY <1>3, SMT
  <2>4. (z - y) * (100 - pct) = 100 * (z - y) - (z - y) * pct
    BY SMT
  <2> QED BY <2>2, <2>3, <2>4
<1>5. PICK k \in Nat : k = 100 * (z - y)
  OBVIOUS
<1>6. /\ Abs(v - flat) <= Abs(u - flat) + k
      /\ Abs(u - flat) <= Abs(v - flat) + k
  <2>1. v - flat \in Int /\ u - flat \in Int
    OBVIOUS
  <2>2. (v - flat) - (u - flat) <= k /\ (u - flat) - (v - flat) <= k
    BY <1>4, <1>5
  <2> QED BY <2>1, <2>2, AbsRises
<1> QED BY <1>1, <1>2, <1>3, <1>5, <1>6 DEF Due

(* An income in other units. *)
LEMMA DueScales ==
  ASSUME NEW i \in Brackets, NEW m \in Nat, NEW d \in Nat \ {0}
  PROVE  Due(Bracket[i], m * d, d) = d * Levy(i, m)
<1>1. PICK pct \in Nat, fixed \in Int : pct = Bracket[i].pct /\ fixed = Bracket[i].fixed
  BY BracketFields
<1>2. PICK u \in Int, w \in Int : u = m * pct /\ w = 100 * fixed
  BY IntTimes
<1>3. Levy(i, m) = Due(Bracket[i], m, 1)
  <2>1. Levy(i, m) = Due(Bracket[i], m * 1, 1) \div 1
    BY AmountIsDue DEF Levy, NoRate
  <2>2. m * 1 = m /\ Due(Bracket[i], m, 1) \in Nat
    BY DueType
  <2>3. Due(Bracket[i], m, 1) \div 1 = Due(Bracket[i], m, 1)
    BY <2>2, SMT
  <2> QED BY <2>1, <2>2, <2>3
<1>4. Due(Bracket[i], m, 1) = IF pct = 0 /\ fixed > 0 THEN w ELSE Abs(u - w)
  BY <1>1, <1>2 DEF Due
<1>5. Due(Bracket[i], m * d, d) = IF pct = 0 /\ fixed > 0 THEN d * w ELSE Abs(d * (u - w))
  <2>1. (m * d) * pct - w * d = d * (u - w)
    BY <1>2, SMT
  <2>2. w * d = d * w
    BY SMT
  <2> QED BY <1>1, <1>2, <2>1, <2>2 DEF Due
<1>6. Abs(d * (u - w)) = d * Abs(u - w)
  BY AbsTimes
<1> QED BY <1>3, <1>4, <1>5, <1>6

\* Range b is the one of an income g, at rate x.
Holds(b, g, x) == b \in Ranges /\ Applies(Bracket[b], g, x)

LEMMA HoldsWhen ==
  ASSUME NEW b \in Ranges, NEW g \in Nat, NEW x \in Quotes
  PROVE  Holds(b, g, x) <=>
            /\ Bracket[b].min * x.den <= g * x.num
            /\ Bracket[b].max = 0 \/ g * x.num < Bracket[b].max * x.den
<1>1. b \in Brackets
  BY DEF Ranges
<1>2. PICK num \in Nat \ {0}, den \in Nat \ {0} : x.num = num /\ x.den = den
  BY DEF Quotes
<1>3. PICK low \in Nat, high \in Nat : low = Bracket[b].min /\ high = Bracket[b].max
  BY <1>1, BracketFields
<1>4. g * num \in Nat /\ low * den \in Nat /\ high * den \in Nat
  BY NatTimes
<1>5. ~(low = 0 /\ high = 0)
  BY <1>3 DEF Ranges
<1>6. PICK y \in Nat, l \in Nat, h \in Nat : y = g * num /\ l = low * den /\ h = high * den
  BY <1>4
<1>7. Holds(b, g, x) <=> (y >= l /\ (y < h \/ high = 0))
  BY <1>2, <1>3, <1>5, <1>6 DEF Holds, Applies
<1> QED BY <1>2, <1>3, <1>6, <1>7

LEMMA TimesKeepsOrder ==
  ASSUME NEW a \in Nat, NEW b \in Nat, a <= b, NEW n \in Nat
  PROVE  a * n <= b * n
<1>1. b - a \in Nat
  OBVIOUS
<1>2. (b - a) * n \in Nat
  BY <1>1, NatTimes
<1>3. (b - a) * n = b * n - a * n
  BY SMT
<1>4. a * n \in Int /\ b * n \in Int
  BY IntTimes
<1> QED BY <1>2, <1>3, <1>4

(* A range above another one has the higher incomes. *)
LEMMA HigherRange ==
  ASSUME NEW b \in Ranges, NEW c \in Ranges, Below(b, c), NEW g \in Nat, NEW h \in Nat,
         NEW x \in Quotes, Holds(b, g, x), Holds(c, h, x)
  PROVE  g < h
<1>1. b \in Brackets /\ c \in Brackets
  BY DEF Ranges
<1>2. PICK num \in Nat \ {0}, den \in Nat \ {0} : x.num = num /\ x.den = den
  BY DEF Quotes
<1>3. PICK high \in Nat, low \in Nat : high = Bracket[b].max /\ low = Bracket[c].min
  BY <1>1, BracketFields
<1>4. high # 0 /\ high <= low
  BY <1>3 DEF Below
<1>5. PICK y \in Nat, z \in Nat, u \in Nat, v \in Nat :
         y = g * num /\ z = h * num /\ u = high * den /\ v = low * den
  BY NatTimes
<1>6. y < u /\ v <= z
  BY <1>2, <1>3, <1>4, <1>5, HoldsWhen
<1>7. u <= v
  BY <1>4, <1>5, TimesKeepsOrder
<1>8. y < z
  BY <1>6, <1>7
<1> SUFFICES ASSUME h <= g PROVE FALSE
  OBVIOUS
<1>9. h * num <= g * num
  BY TimesKeepsOrder
<1> QED BY <1>5, <1>8, <1>9

LEMMA OneRange ==
  ASSUME Progressive, NEW g \in Nat, NEW x \in Quotes, NEW b, NEW c, Holds(b, g, x), Holds(c, g, x)
  PROVE  b = c
<1> SUFFICES ASSUME b # c PROVE FALSE
  OBVIOUS
<1>1. b \in Ranges /\ c \in Ranges
  BY DEF Holds
<1>2. Below(b, c) \/ Below(c, b)
  BY <1>1 DEF Progressive
<1>3. g < g
  BY <1>1, <1>2, HigherRange
<1> QED BY <1>3

(* No income is between the ranges: they go on from where the lower ones end. *)
LEMMA SomeRange ==
  ASSUME Progressive, Ranges # {}, NEW g \in Nat, NEW x \in Quotes
  PROVE  \E b \in Ranges : Holds(b, g, x)
<1> SUFFICES ASSUME \A b \in Ranges : ~Holds(b, g, x) PROVE FALSE
  OBVIOUS
<1>1. PICK num \in Nat \ {0}, den \in Nat \ {0} : x.num = num /\ x.den = den
  BY DEF Quotes
<1>2. PICK y \in Nat : y = g * num
  BY NatTimes
<1>3. \A b \in Ranges : Bracket[b].min \in Nat /\ Bracket[b].max \in Nat
  BY BracketFields DEF Ranges
<1> DEFINE N == {n \in Nat : \E b \in Ranges : n <= Bracket[b].min /\ Bracket[b].min * den <= y}
<1>4. 0 \in N
  <2>1. PICK c \in Ranges : Bracket[c].min = 0
    BY DEF Progressive
  <2>2. 0 * den = 0
    OBVIOUS
  <2> QED BY <1>2, <2>1, <2>2
<1>5. ASSUME NEW n \in Nat, n \in N PROVE n + 1 \in N
  <2>1. PICK b \in Ranges : n <= Bracket[b].min /\ Bracket[b].min * den <= y
    BY <1>5
  <2>2. PICK low \in Nat, high \in Nat : low = Bracket[b].min /\ high = Bracket[b].max
    BY <1>3
  <2>3. PICK l \in Nat, h \in Nat : l = low * den /\ h = high * den
    BY NatTimes
  <2>4. high # 0 /\ ~(y < h)
    <3>1. ~Holds(b, g, x)
      OBVIOUS
    <3>2. l <= y
      BY <2>1, <2>2, <2>3
    <3>3. Holds(b, g, x) <=> l <= y /\ (high = 0 \/ y < h)
      BY <1>1, <1>2, <2>2, <2>3, HoldsWhen
    <3> QED BY <3>1, <3>2, <3>3
  <2>5. PICK c \in Ranges : Bracket[c].min = high /\ low < high
    BY <2>2, <2>4 DEF Progressive
  <2>6. n + 1 <= Bracket[c].min /\ Bracket[c].min * den <= y
    BY <2>1, <2>2, <2>3, <2>4, <2>5
  <2> QED BY <2>6
<1>6. y + 1 \in N
  <2> HIDE DEF N
  <2> QED BY <1>4, <1>5, AllNaturals
<1>7. PICK b \in Ranges : y + 1 <= Bracket[b].min /\ Bracket[b].min * den <= y
  BY <1>6
<1>8. PICK low \in Nat : low = Bracket[b].min
  BY <1>3
<1>9. low * 1 <= low * den
  <2>1. low * den = den * low /\ low * 1 = 1 * low
    BY SMT
  <2>2. 1 * low <= den * low
    BY TimesKeepsOrder
  <2> QED BY <2>1, <2>2
<1>10. low * den \in Nat
  BY NatTimes
<1> QED BY <1>7, <1>8, <1>9, <1>10

(* Who earns more is not taxed more by more than that. *)
LEMMA DueCrosses ==
  ASSUME Progressive, NEW b \in Ranges, NEW c \in Ranges, NEW x \in Quotes,
         NEW g \in Nat, NEW h \in Nat, g <= h, Holds(b, g, x), Holds(c, h, x)
  PROVE  Due(Bracket[c], h * x.num, x.den)
            <= Due(Bracket[b], g * x.num, x.den) + 100 * (h * x.num - g * x.num)
<1>0. b \in Brackets /\ c \in Brackets /\ Bracket[b].pct <= 100 /\ Bracket[c].pct <= 100
  BY DEF Ranges, Progressive
<1>1. PICK num \in Nat \ {0}, den \in Nat \ {0} : x.num = num /\ x.den = den
  BY DEF Quotes
<1>2. PICK y \in Nat, z \in Nat : y = g * num /\ z = h * num
  BY NatTimes
<1>3. y <= z
  BY <1>2, TimesKeepsOrder
<1>4. CASE b = c
  BY <1>0, <1>1, <1>2, <1>3, <1>4, DueRises
<1>5. CASE b # c
  <2>1. Below(b, c)
    <3>1. Below(b, c) \/ Below(c, b)
      BY <1>5 DEF Progressive
    <3>2. Below(c, b) => h < g
      BY HigherRange
    <3> QED BY <3>1, <3>2
  <2>2. PICK high \in Nat, low \in Nat : high = Bracket[b].max /\ low = Bracket[c].min
    BY <1>0, BracketFields
  <2>3. PICK u \in Nat, v \in Nat : u = high * den /\ v = low * den
    BY NatTimes
  <2>4. y <= u /\ v <= z /\ high <= low
    BY <1>1, <1>2, <2>1, <2>2, <2>3, HoldsWhen DEF Below
  <2>5. PICK p \in Nat, q \in Nat : p = Due(Bracket[b], u, den) /\ q = Due(Bracket[c], v, den)
    BY <1>0, DueType
  <2>6. PICK s \in Nat, t \in Nat : s = Due(Bracket[b], y, den) /\ t = Due(Bracket[c], z, den)
    BY <1>0, DueType
  <2>7. p <= s + 100 * (u - y)
    BY <1>0, <2>4, <2>5, <2>6, DueRises
  <2>8. t <= q + 100 * (z - v)
    BY <1>0, <2>4, <2>5, <2>6, DueRises
  <2>9. q - p <= 100 * (v - u)
    <3>1. PICK i \in Nat, j \in Nat : i = Levy(b, high) /\ j = Levy(c, low)
      <4>1. NoRate \in Quotes
        BY DEF NoRate, Quotes
      <4> QED BY <1>0, <4>1, AmountType DEF Levy
    <3>2. p = den * i /\ q = den * j
      BY <1>0, <2>3, <2>5, <3>1, DueScales
    <3>3. j - i <= 100 * (low - high)
      BY <2>1, <2>2, <3>1 DEF Progressive
    <3>4. 100 * (low - high) - (j - i) \in Nat
      BY <3>3
    <3>5. den * (100 * (low - high) - (j - i)) \in Nat
      BY <3>4, NatTimes
    <3>6. den * (100 * (low - high) - (j - i)) = 100 * (low * den - high * den) - (den * j - den * i)
      BY SMT
    <3> QED BY <2>3, <3>2, <3>5, <3>6
  <2>10. t <= s + 100 * (z - y)
    BY <2>7, <2>8, <2>9
  <2> QED BY <1>1, <1>2, <2>6, <2>10
<1> QED BY <1>4, <1>5

LEMMA AmountCrosses ==
  ASSUME Progressive, NEW b \in Ranges, NEW c \in Ranges, NEW x \in Quotes,
         NEW g \in Nat, NEW h \in Nat, g <= h, Holds(b, g, x), Holds(c, h, x)
  PROVE  Amount(Bracket[c], h, x) <= Amount(Bracket[b], g, x) + 100 * (h - g)
<1>0. b \in Brackets /\ c \in Brackets
  BY DEF Ranges
<1>1. PICK num \in Nat \ {0}, den \in Nat \ {0} : x.num = num /\ x.den = den
  BY DEF Quotes
<1>2. PICK s \in Nat, t \in Nat : s = Due(Bracket[b], g * num, den)
                                  /\ t = Due(Bracket[c], h * num, den)
  BY <1>0, NatTimes, DueType
<1>3. t <= s + 100 * (h * num - g * num)
  BY <1>1, <1>2, DueCrosses
<1>4. PICK k \in Nat : k = 100 * (h - g)
  OBVIOUS
<1>5. num * k = 100 * (h * num - g * num)
  BY <1>4, SMT
<1>6. t \div num <= (s \div num) + k
  BY <1>3, <1>5, QuotientRises
<1> QED BY <1>1, <1>2, <1>4, <1>6, AmountIsDue

(* The lines of a payroll: those of the fees and that of the range *)

RangeRates(quoted) == IF \E b \in Ranges : Bracket[b].foreign THEN Quoted(quoted) ELSE {NoRate}

RangeLines(g, quoted) == UNION {LinesOf(b, g, x) : b \in Ranges, x \in RangeRates(quoted)}

FeeLines(g, quoted) ==
    (UNION {LinesOf(b, g, x) : b \in Foreign(Brackets) \ Ranges, x \in Quoted(quoted)})
    \cup (UNION {LinesOf(b, g, NoRate) : b \in (Brackets \ Foreign(Brackets)) \ Ranges})

AllQuotes == [Directions -> Rates \cup {None}]

LEMMA QuotedOne ==
  ASSUME NEW quoted \in AllQuotes
  PROVE  /\ Quoted(quoted) \subseteq Quotes
         /\ \A x, y \in Quoted(quoted) : x = y
<1>1. /\ quoted["direct"] # None => quoted["direct"] \in Rates
      /\ quoted["inverse"] # None => quoted["inverse"] \in Rates
  BY DEF AllQuotes, Directions
<1> QED BY <1>1, QuotedWhen, RateTypes

LEMMA RangeRatesOne ==
  ASSUME NEW quoted \in AllQuotes
  PROVE  /\ RangeRates(quoted) \subseteq Quotes
         /\ \A x, y \in RangeRates(quoted) : x = y
<1>1. NoRate \in Quotes
  BY DEF NoRate, Quotes
<1> QED BY <1>1, QuotedOne DEF RangeRates

LEMMA LinesSplit ==
  ASSUME Progressive, NEW g, NEW quoted,
         NEW d, d.gross = g, d.quoted = quoted, d.table = Brackets
  PROVE  TaxLines(d, {}) = FeeLines(g, quoted) \cup RangeLines(g, quoted)
<1>0. Ranges \subseteq Brackets
  BY DEF Ranges
<1>1. TaxLines(d, {}) =
         (UNION {LinesOf(b, g, x) : b \in Foreign(Brackets), x \in Quoted(quoted)})
         \cup (UNION {LinesOf(b, g, NoRate) : b \in Brackets \ Foreign(Brackets)})
  <2>1. Foreign(Brackets) \ {} = Foreign(Brackets)
    OBVIOUS
  <2> QED BY <2>1 DEF TaxLines
<1>2. CASE \E b \in Ranges : Bracket[b].foreign
  <2>1. \A b \in Ranges : Bracket[b].foreign
    BY <1>2 DEF Progressive
  <2>2. Ranges \subseteq Foreign(Brackets)
    BY <1>0, <2>1 DEF Foreign
  <2>3. RangeRates(quoted) = Quoted(quoted)
    BY <1>2 DEF RangeRates
  <2>4. PICK F, Q : F = Foreign(Brackets) /\ Q = Quoted(quoted)
    OBVIOUS
  <2>5. (Brackets \ F) \ Ranges = Brackets \ F
    BY <2>2, <2>4
  <2>6. UNION {LinesOf(b, g, x) : b \in F, x \in Q} =
        (UNION {LinesOf(b, g, x) : b \in F \ Ranges, x \in Q})
        \cup (UNION {LinesOf(b, g, x) : b \in Ranges, x \in Q})
    BY <2>2, <2>4
  <2> QED BY <1>1, <2>3, <2>4, <2>5, <2>6 DEF FeeLines, RangeLines
<1>3. CASE \A b \in Ranges : ~Bracket[b].foreign
  <2>1. PICK F, Q : F = Foreign(Brackets) /\ Q = Quoted(quoted)
    OBVIOUS
  <2>2. F \cap Ranges = {} /\ Ranges \subseteq Brackets \ F /\ F \ Ranges = F
    BY <1>0, <1>3, <2>1 DEF Foreign
  <2>3. RangeRates(quoted) = {NoRate}
    BY <1>3 DEF RangeRates
  <2>4. RangeLines(g, quoted) = UNION {LinesOf(b, g, NoRate) : b \in Ranges}
    BY <2>3 DEF RangeLines
  <2>5. UNION {LinesOf(b, g, NoRate) : b \in Brackets \ F} =
        (UNION {LinesOf(b, g, NoRate) : b \in (Brackets \ F) \ Ranges})
        \cup (UNION {LinesOf(b, g, NoRate) : b \in Ranges})
    BY <2>2
  <2> QED BY <1>1, <2>1, <2>2, <2>4, <2>5 DEF FeeLines
<1> QED BY <1>2, <1>3

(* A fee is the same for everybody. *)
LEMMA FeeLineSame ==
  ASSUME Progressive, NEW b \in Brackets \ Ranges, NEW g \in Nat, NEW h \in Nat,
         NEW x \in Quotes
  PROVE  LinesOf(b, g, x) = LinesOf(b, h, x)
<1>1. Bracket[b].min = 0 /\ Bracket[b].max = 0 /\ Bracket[b].pct = 0
  BY DEF Ranges, Progressive
<1>2. Applies(Bracket[b], g, x) /\ Applies(Bracket[b], h, x)
  BY <1>1 DEF Applies
<1>3. Amount(Bracket[b], g, x) = Amount(Bracket[b], h, x)
  <2>1. PICK num \in Nat : num = x.num
    BY DEF Quotes
  <2>2. (g * num) * 0 = 0 /\ (h * num) * 0 = 0
    BY NatTimes, SMT
  <2> QED BY <1>1, <2>1, <2>2 DEF Amount
<1> QED BY <1>2, <1>3 DEF LinesOf

LEMMA FeesSame ==
  ASSUME Progressive, NEW g \in Nat, NEW h \in Nat, NEW quoted \in AllQuotes
  PROVE  FeeLines(g, quoted) = FeeLines(h, quoted)
<1>1. NoRate \in Quotes /\ Quoted(quoted) \subseteq Quotes
  BY QuotedOne DEF NoRate, Quotes
<1>2. \A b \in Foreign(Brackets) \ Ranges, x \in Quoted(quoted) :
         LinesOf(b, g, x) = LinesOf(b, h, x)
  BY <1>1, FeeLineSame DEF Foreign
<1>3. \A b \in (Brackets \ Foreign(Brackets)) \ Ranges :
         LinesOf(b, g, NoRate) = LinesOf(b, h, NoRate)
  BY <1>1, FeeLineSame
<1>4. UNION {LinesOf(b, g, x) : b \in Foreign(Brackets) \ Ranges, x \in Quoted(quoted)} =
      UNION {LinesOf(b, h, x) : b \in Foreign(Brackets) \ Ranges, x \in Quoted(quoted)}
  BY <1>2
<1>5. UNION {LinesOf(b, g, NoRate) : b \in (Brackets \ Foreign(Brackets)) \ Ranges} =
      UNION {LinesOf(b, h, NoRate) : b \in (Brackets \ Foreign(Brackets)) \ Ranges}
  BY <1>3
<1> QED BY <1>4, <1>5 DEF FeeLines

\* The line of bracket b.
LineOf(b, g, x) == [bracket |-> b, rate |-> x, amount |-> Amount(Bracket[b], g, x)]

LEMMA OneLine ==
  ASSUME NEW b \in Brackets, NEW g \in Nat, NEW x \in Quotes
  PROVE  /\ \A l \in LinesOf(b, g, x) : l = LineOf(b, g, x)
         /\ Applies(Bracket[b], g, x) /\ Amount(Bracket[b], g, x) > 0
              => LinesOf(b, g, x) = {LineOf(b, g, x)}
         /\ ~(Applies(Bracket[b], g, x) /\ Amount(Bracket[b], g, x) > 0)
              => LinesOf(b, g, x) = {}
  BY DEF LinesOf, LineOf

LEMMA FeesFinite ==
  ASSUME NEW g \in Nat, NEW quoted \in AllQuotes
  PROVE  /\ IsFiniteSet(FeeLines(g, quoted))
         /\ \A l \in FeeLines(g, quoted) : l \in Lines /\ l.bracket \notin Ranges
<1> DEFINE S == FeeLines(g, quoted)
<1>1. NoRate \in Quotes /\ Quoted(quoted) \subseteq Quotes
  BY QuotedOne DEF NoRate, Quotes
<1>2. ASSUME NEW l \in S
      PROVE  \E b \in Brackets \ Ranges :
                /\ Bracket[b].foreign => \E x \in Quoted(quoted) : l \in LinesOf(b, g, x)
                /\ ~Bracket[b].foreign => l \in LinesOf(b, g, NoRate)
  BY DEF FeeLines, Foreign
<1>3. ASSUME NEW l \in S
      PROVE  /\ l.bracket \in Brackets \ Ranges /\ l \in Lines
             /\ Bracket[l.bracket].foreign => \E x \in Quoted(quoted) : l = LineOf(l.bracket, g, x)
             /\ ~Bracket[l.bracket].foreign => l = LineOf(l.bracket, g, NoRate)
  <2>1. PICK b \in Brackets \ Ranges :
               /\ Bracket[b].foreign => \E x \in Quoted(quoted) : l \in LinesOf(b, g, x)
               /\ ~Bracket[b].foreign => l \in LinesOf(b, g, NoRate)
    BY <1>2
  <2>2. ASSUME NEW x \in Quotes, l \in LinesOf(b, g, x)
        PROVE  l = LineOf(b, g, x) /\ l.bracket = b /\ l \in Lines
    <3>1. l = LineOf(b, g, x)
      BY <2>2, OneLine
    <3> QED BY <2>2, <3>1, LinesType DEF LineOf
  <2> QED BY <1>1, <2>1, <2>2
<1> DEFINE k == [l \in S |-> l.bracket]
<1>4. \A l, m \in S : l.bracket = m.bracket => l = m
  BY <1>3, QuotedOne
<1>5. k \in Injection(S, Brackets)
  <2>1. k \in [S -> Brackets]
    BY <1>3
  <2> QED BY <1>4, <2>1 DEF Injection, IsInjective
<1>6. IsFiniteSet(Brackets)
  BY GenerationAssumption
<1>7. IsFiniteSet(S)
  <2> HIDE DEF S, k
  <2> QED BY <1>5, <1>6, FS_Injection
<1> QED BY <1>3, <1>7

LEMMA FeesSum ==
  ASSUME NEW g \in Nat, NEW quoted \in AllQuotes, NEW f, \A l \in Lines : f[l] = l.amount
  PROVE  SumFunctionOnSet(f, FeeLines(g, quoted)) \in Int
<1>1. \A l \in FeeLines(g, quoted) : f[l] \in Int
  BY FeesFinite DEF Lines
<1> QED BY <1>1, FeesFinite, SumInt

(* No range takes part when there is none, or no rate for its currency. *)
LEMMA NoRangeTax ==
  ASSUME NEW g \in Nat, NEW quoted \in AllQuotes, Ranges = {} \/ RangeRates(quoted) = {}
  PROVE  RangeLines(g, quoted) = {}
  BY DEF RangeLines

LEMMA RangeTax ==
  ASSUME Progressive, NEW g \in Nat, NEW quoted \in AllQuotes, NEW x \in RangeRates(quoted),
         NEW b \in Ranges, Holds(b, g, x), NEW f, \A l \in Lines : f[l] = l.amount
  PROVE  SumFunctionOnSet(f, FeeLines(g, quoted) \cup RangeLines(g, quoted))
            = SumFunctionOnSet(f, FeeLines(g, quoted)) + Amount(Bracket[b], g, x)
<1>0. b \in Brackets /\ Ranges \subseteq Brackets /\ x \in Quotes
  BY RangeRatesOne DEF Ranges
<1>1. \A y \in RangeRates(quoted) : y = x
  BY RangeRatesOne
<1>2. \A c \in Ranges \ {b} : LinesOf(c, g, x) = {}
  <2>1. ASSUME NEW c \in Ranges \ {b} PROVE ~Applies(Bracket[c], g, x)
    BY <1>0, OneRange DEF Holds
  <2> QED BY <1>0, <2>1, OneLine
<1>3. RangeLines(g, quoted) = LinesOf(b, g, x)
  <2>1. RangeLines(g, quoted) = UNION {LinesOf(c, g, x) : c \in Ranges}
    <3>1. RangeRates(quoted) = {x}
      BY <1>1
    <3> QED BY <3>1 DEF RangeLines
  <2> QED BY <1>2, <2>1
<1>4. Amount(Bracket[b], g, x) \in Nat
  BY <1>0, AmountType
<1>5. PICK F : F = FeeLines(g, quoted)
  OBVIOUS
<1>6. SumFunctionOnSet(f, F) \in Int
  BY <1>5, FeesSum
<1>7. CASE Amount(Bracket[b], g, x) = 0
  <2>1. LinesOf(b, g, x) = {}
    BY <1>0, <1>7, OneLine
  <2>2. F \cup RangeLines(g, quoted) = F
    BY <1>3, <2>1
  <2> QED BY <1>5, <1>6, <1>7, <2>2
<1>8. CASE Amount(Bracket[b], g, x) > 0
  <2>1. PICK l : l = LineOf(b, g, x)
    OBVIOUS
  <2>2. LinesOf(b, g, x) = {l}
    BY <1>0, <1>8, <2>1, OneLine DEF Holds
  <2>3. l \in Lines /\ l.bracket = b /\ l.amount = Amount(Bracket[b], g, x)
    BY <1>0, <2>1, <2>2, LinesType DEF LineOf
  <2>4. PICK S : S = F \cup {l}
    OBVIOUS
  <2>5. l \notin F
    BY <1>5, <2>3, FeesFinite
  <2>6. S \ {l} = F /\ l \in S
    BY <2>4, <2>5
  <2>7. IsFiniteSet(F)
    BY <1>5, FeesFinite
  <2>8. IsFiniteSet(S)
    BY <2>4, <2>7, FS_AddElement
  <2>9. \A m \in S : f[m] \in Int
    <3>1. \A m \in F : m \in Lines
      BY <1>5, FeesFinite
    <3>2. S \subseteq Lines
      BY <2>3, <2>4, <3>1
    <3> QED BY <3>2 DEF Lines
  <2>10. SumFunctionOnSet(f, S) = f[l] + SumFunctionOnSet(f, S \ {l})
    BY <2>6, <2>8, <2>9, SumRemove
  <2>11. F \cup RangeLines(g, quoted) = S
    BY <1>3, <2>2, <2>4
  <2>12. f[l] = Amount(Bracket[b], g, x)
    BY <2>3
  <2>13. SumFunctionOnSet(f, F \cup RangeLines(g, quoted)) = SumFunctionOnSet(f, S)
    BY <2>11
  <2>14. SumFunctionOnSet(f, S) = f[l] + SumFunctionOnSet(f, F)
    BY <2>6, <2>10
  <2>15. PICK sum \in Int, part \in Int :
            sum = SumFunctionOnSet(f, F) /\ part = Amount(Bracket[b], g, x)
    BY <1>4, <1>6
  <2>16. SumFunctionOnSet(f, S) = sum + part
    BY <2>12, <2>14, <2>15
  <2> QED BY <1>5, <2>13, <2>15, <2>16
<1> QED BY <1>4, <1>7, <1>8

LEMMA TaxRises ==
  ASSUME Progressive, NEW g \in Nat, NEW h \in Nat, g <= h, NEW quoted \in AllQuotes,
         NEW f, \A l \in Lines : f[l] = l.amount
  PROVE  \E s, t \in Int :
            /\ s = SumFunctionOnSet(f, FeeLines(g, quoted) \cup RangeLines(g, quoted))
            /\ t = SumFunctionOnSet(f, FeeLines(h, quoted) \cup RangeLines(h, quoted))
            /\ t <= s + 100 * (h - g)
<1>1. FeeLines(g, quoted) = FeeLines(h, quoted)
  BY FeesSame
<1>2. PICK fees \in Int : fees = SumFunctionOnSet(f, FeeLines(g, quoted))
  BY FeesSum
<1>3. CASE Ranges = {} \/ RangeRates(quoted) = {}
  <2>1. RangeLines(g, quoted) = {} /\ RangeLines(h, quoted) = {}
    BY <1>3, NoRangeTax
  <2>2. PICK F : F = FeeLines(g, quoted) /\ F = FeeLines(h, quoted)
    BY <1>1
  <2>3. F \cup {} = F
    OBVIOUS
  <2>4. SumFunctionOnSet(f, F \cup {}) = fees
    BY <1>2, <2>2, <2>3
  <2>5. fees <= fees + 100 * (h - g)
    OBVIOUS
  <2> QED BY <2>1, <2>2, <2>4, <2>5
<1>4. CASE Ranges # {} /\ RangeRates(quoted) # {}
  <2>1. PICK x \in RangeRates(quoted) : x \in Quotes
    BY <1>4, RangeRatesOne
  <2>2. PICK b \in Ranges : Holds(b, g, x)
    BY <1>4, <2>1, SomeRange
  <2>3. PICK c \in Ranges : Holds(c, h, x)
    BY <1>4, <2>1, SomeRange
  <2>4. PICK s \in Nat, t \in Nat : s = Amount(Bracket[b], g, x) /\ t = Amount(Bracket[c], h, x)
    BY <2>1, AmountType DEF Ranges
  <2>5. t <= s + 100 * (h - g)
    BY <2>1, <2>2, <2>3, <2>4, AmountCrosses
  <2>6. SumFunctionOnSet(f, FeeLines(g, quoted) \cup RangeLines(g, quoted)) = fees + s
    BY <1>2, <2>1, <2>2, <2>4, RangeTax
  <2>7. SumFunctionOnSet(f, FeeLines(h, quoted) \cup RangeLines(h, quoted)) = fees + t
    BY <1>1, <1>2, <2>1, <2>3, <2>4, RangeTax
  <2>8. fees + s \in Int /\ fees + t \in Int /\ fees + t <= (fees + s) + 100 * (h - g)
    BY <2>5
  <2> QED BY <2>6, <2>7, <2>8
<1> QED BY <1>3, <1>4

LEMMA NetIs ==
  ASSUME Progressive, NEW p \in Payroll, p.table = Brackets, p.lines = TaxLines(p, {}),
         NEW f, f = [l \in Lines |-> l.amount]
  PROVE  /\ NetOf(p) = 100 * p.gross
               - SumFunctionOnSet(f, FeeLines(p.gross, p.quoted) \cup RangeLines(p.gross, p.quoted))
         /\ p.gross \in Nat /\ p.quoted \in AllQuotes
<1>1. p.gross \in Nat /\ p.quoted \in AllQuotes /\ p.lines \subseteq Lines
  BY DEF Payroll, AllQuotes
<1>2. PICK S : S = p.lines
  OBVIOUS
<1>3. S = FeeLines(p.gross, p.quoted) \cup RangeLines(p.gross, p.quoted)
  BY <1>2, LinesSplit
<1>4. IsFiniteSet(S)
  <2>1. IsFiniteSet(FeeLines(p.gross, p.quoted))
    BY <1>1, FeesFinite
  <2>2. IsFiniteSet(RangeLines(p.gross, p.quoted))
    <3>1. CASE Ranges = {} \/ RangeRates(p.quoted) = {}
      BY <1>1, <3>1, NoRangeTax, FS_EmptySet
    <3>2. ASSUME NEW x \in RangeRates(p.quoted), Ranges # {} PROVE IsFiniteSet(RangeLines(p.gross, p.quoted))
      <4>1. x \in Quotes /\ RangeRates(p.quoted) = {x}
        BY <1>1, <3>2, RangeRatesOne
      <4>2. PICK b \in Ranges : Holds(b, p.gross, x)
        BY <1>1, <3>2, <4>1, SomeRange
      <4>3. \A c \in Ranges : c # b => ~Applies(Bracket[c], p.gross, x)
        BY <1>1, <4>1, <4>2, OneRange DEF Holds
      <4>4. \A c \in Ranges : LinesOf(c, p.gross, x) \subseteq {LineOf(b, p.gross, x)}
        <5>1. Ranges \subseteq Brackets
          BY DEF Ranges
        <5> QED BY <1>1, <4>1, <4>3, <5>1, OneLine
      <4>5. RangeLines(p.gross, p.quoted) \subseteq {LineOf(b, p.gross, x)}
        BY <4>1, <4>4 DEF RangeLines
      <4>6. PICK l : l = LineOf(b, p.gross, x)
        OBVIOUS
      <4>7. IsFiniteSet({l}) /\ RangeLines(p.gross, p.quoted) \in SUBSET {l}
        BY <4>5, <4>6, FS_Singleton
      <4> QED BY <4>7, FS_Subset
    <3> QED BY <3>1, <3>2
  <2> QED BY <1>3, <2>1, <2>2, FS_Union
<1>5. PICK a : a = [l \in S |-> l.amount]
  OBVIOUS
<1>6. \A l \in S : a[l] = f[l]
  BY <1>1, <1>2, <1>5
<1>7. SumFunctionOnSet(a, S) = SumFunctionOnSet(f, S)
  BY <1>4, <1>6, SumSame
<1>8. DOMAIN a = S
  BY <1>5
<1>9. NetOf(p) = 100 * p.gross - SumFunctionOnSet(a, S)
  BY <1>2, <1>5, <1>8 DEF NetOf, SumFunction
<1> QED BY <1>1, <1>3, <1>7, <1>9

LEMMA NetRises == ASSUME TypeOK, OneRate PROVE MoreGrossMoreNet
<1> SUFFICES ASSUME Progressive, NEW p \in payrolls, NEW r \in payrolls, ~p.odd, ~r.odd,
                    p.table = Brackets, r.table = Brackets, p.quoted = r.quoted,
                    p.gross <= r.gross
             PROVE  NetOf(p) <= NetOf(r)
  BY DEF MoreGrossMoreNet
<1>1. p \in Payroll /\ r \in Payroll
  BY DEF TypeOK
<1>2. p.lines = TaxLines(p, {}) /\ r.lines = TaxLines(r, {})
  BY DEF OneRate
<1>3. PICK f : f = [l \in Lines |-> l.amount]
  OBVIOUS
<1>4. \A l \in Lines : f[l] = l.amount
  BY <1>3
<1>5. PICK g \in Nat, h \in Nat, quoted \in AllQuotes :
         g = p.gross /\ h = r.gross /\ quoted = p.quoted /\ quoted = r.quoted
  BY <1>1, <1>2, <1>3, NetIs
<1>6. g <= h
  BY <1>5
<1>7. PICK s \in Int, t \in Int :
         /\ s = SumFunctionOnSet(f, FeeLines(g, quoted) \cup RangeLines(g, quoted))
         /\ t = SumFunctionOnSet(f, FeeLines(h, quoted) \cup RangeLines(h, quoted))
         /\ t <= s + 100 * (h - g)
  BY <1>4, <1>6, TaxRises
<1>8. NetOf(p) = 100 * g - s /\ NetOf(r) = 100 * h - t
  BY <1>1, <1>2, <1>3, <1>5, <1>7, NetIs
<1> QED BY <1>6, <1>7, <1>8

(* Whatever the rates, ranges and fees, whoever generates and edits meanwhile: under    *)
(* one progressive table and the same rates, who earns more keeps more.                *)
THEOREM NetGrowsWithGross == Spec => []MoreGrossMoreNet
<1>1. Init => Reckoned /\ OneRate
  BY InitReckoned, InitOneRate
<1>2. Reckoned /\ OneRate /\ [Next]_vars => Reckoned' /\ OneRate'
  BY NextReckoned, NextOneRate
<1>3. Reckoned /\ OneRate => MoreGrossMoreNet
  BY NetRises DEF Reckoned
<1> QED BY <1>1, <1>2, <1>3, PTL DEF Spec
=============================================================================
