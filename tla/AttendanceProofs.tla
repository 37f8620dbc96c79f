-------------------------- MODULE AttendanceProofs --------------------------
(***************************************************************************)
(* Theorems of Attendance, for any employees, tokens, rows and handlers.   *)
(***************************************************************************)
EXTENDS AttendanceReports, SumTheorems

-----------------------------------------------------------------------------
(* The inductive invariant *)

(* The rows that handlers and handleAutoCheckout are going to write exist.   *)
Knows(h) ==
    /\ h.pc = "entering" /\ h.row # None => Exists(h.row)
    /\ h.pc = "leaving" => Exists(h.row)

AllKnow == \A p \in Procs : Knows(handler[p])

HandlersKnow ==
    /\ AllKnow
    /\ closing.pc = "on" => \A r \in closing.todo : Exists(r)

Accounted(e) ==
    \/ \E r \in Rows : Exists(r) /\ rows[r].emp = e
    \/ e \in onLeave

(* handleAbsentMarking leaves nobody unaccounted for behind it: whoever is    *)
(* not to do, nor the one it is at, has a row or a leave, and so has the one  *)
(* it is at when it has found their row.                                      *)
MarkedSoFar ==
    /\ marking.pc = "on" => \A e \in Employees \ marking.todo : Accounted(e)
    /\ marking.pc \in {"looked", "absent"} =>
          \A e \in Employees \ marking.todo : e # marking.emp => Accounted(e)
    /\ marking.pc = "looked" /\ marking.present => Accounted(marking.emp)

IInv == TypeOK /\ HandlersKnow /\ MarkedSoFar /\ EveryoneAccountedFor

-----------------------------------------------------------------------------
(* Types of what is written *)

LEMMA RowExists ==
  ASSUME TypeOK, NEW r \in Rows
  PROVE  Exists(r) <=> rows[r] \in Row
  BY DEF TypeOK, Exists, Row, NoRow

LEMMA HandlerFields ==
  ASSUME TypeOK, NEW p \in Procs
  PROVE  /\ handler[p].pc \in {"scanned", "cleared", "entering", "leaving"} =>
               handler[p].emp \in Employees
         /\ handler[p].pc \in {"scanned", "cleared"} => handler[p].kind \in Kinds
         /\ handler[p].pc = "scanned" => handler[p].token \in Tokens
         /\ handler[p].pc = "entering" => handler[p].row \in Rows \cup {None}
         /\ handler[p].pc = "leaving" =>
               handler[p].row \in Rows /\ handler[p].in \in Times \cup {None}
<1>1. handler[p] \in Handler \cup {Idle}
  BY DEF TypeOK
<1> QED BY <1>1 DEF Handler, Idle

LEMMA MarkingFields ==
  ASSUME TypeOK, marking.pc \in {"on", "looked", "absent"}
  PROVE  /\ marking.todo \subseteq Employees
         /\ marking.pc \in {"looked", "absent"} => marking.emp \in Employees
         /\ marking.pc = "looked" => marking.present \in BOOLEAN
<1>1. marking \in Marking
  BY DEF TypeOK, Off
<1> QED BY <1>1 DEF Marking

LEMMA ClosingFields ==
  ASSUME TypeOK, closing.pc = "on"
  PROVE  closing = [pc |-> "on", todo |-> closing.todo] /\ closing.todo \subseteq Rows
  BY DEF TypeOK, Off, Closing

(* A duration is one of a day, and what is worked and what is overtime share it. *)
LEMMA DurationType ==
  ASSUME NEW in \in Times, NEW out \in Times
  PROVE  /\ Duration(in, out) \in 0..DayLength
         /\ Shorter(Duration(in, out), WorkDay) \in 0..WorkDay
         /\ Duration(in, out) - Shorter(Duration(in, out), WorkDay) \in 0..DayLength
<1>1. in \in 0..(DayLength - 1) /\ out \in 0..(DayLength - 1)
  BY AttendanceAssumption DEF AttendanceAssumption
<1>2. DayLength \in Nat /\ WorkDay \in 0..DayLength
  BY AttendanceAssumption DEF AttendanceAssumption
<1> QED BY <1>1, <1>2 DEF Duration, Shorter

LEMMA FreshRow ==
  ASSUME NEW e \in Employees, NEW s \in {"PRESENT", "LATE", "ABSENT"},
         NEW in \in Times \cup {None}
  PROVE  [emp |-> e, status |-> s, in |-> in, out |-> None, worked |-> 0, overtime |-> 0]
            \in Row
<1>1. 0 \in 0..WorkDay /\ 0 \in 0..DayLength
  BY AttendanceAssumption DEF AttendanceAssumption
<1> QED BY <1>1 DEF Row

(* Writing a well-typed row over nothing or over a row of the same employee keeps *)
(* every row and whose it is.                                                     *)
RowsKept == \A r \in Rows : Exists(r) => Exists(r)' /\ rows'[r].emp = rows[r].emp

RowsTyped == rows \in [Rows -> Row \cup {NoRow}]

LEMMA RowWritten ==
  ASSUME TypeOK, NEW i \in Rows, NEW row \in Row, rows' = [rows EXCEPT ![i] = row],
         Exists(i) => row.emp = rows[i].emp
  PROVE  RowsTyped' /\ RowsKept
<1>1. RowsTyped'
  BY DEF RowsTyped, TypeOK
<1>2. row # NoRow
  BY DEF Row, NoRow
<1>3. \A r \in Rows : rows'[r] = IF r = i THEN row ELSE rows[r]
  BY DEF TypeOK
<1> QED BY <1>1, <1>2, <1>3 DEF RowsKept, Exists

-----------------------------------------------------------------------------
(* Rows stay what they are: whose they are never changes *)

LEMMA CheckInRows ==
  ASSUME IInv, NEW p \in Procs, NEW t \in Times, CommitCheckIn(p, t)
  PROVE  RowsTyped' /\ RowsKept
<1>1. PICK h : h = handler[p]
  OBVIOUS
<1>2. PICK s \in {"PRESENT", "LATE"} : s = Punctuality(h.emp, t)
  BY DEF Punctuality
<1>3. h.pc = "entering" /\ h.emp \in Employees /\ h.row \in Rows \cup {None}
  BY <1>1, HandlerFields DEF CommitCheckIn, IInv
<1>4. CASE h.row # None
  <2>1. PICK i \in Rows : i = h.row
    BY <1>3, <1>4
  <2>2. Exists(i) /\ rows[i] \in Row
    BY <1>1, <1>3, <1>4, <2>1, RowExists DEF IInv, HandlersKnow, AllKnow, Knows
  <2>3. PICK row : row = [[rows[i] EXCEPT !.in = t] EXCEPT !.status = s]
    OBVIOUS
  <2>4. row \in Row /\ row.emp = rows[i].emp
    BY <2>2, <2>3 DEF Row
  <2>5. rows' = [[rows EXCEPT ![i].in = t] EXCEPT ![i].status = s]
    BY <1>1, <1>2, <1>4, <2>1 DEF CommitCheckIn
  <2>6. rows' = [rows EXCEPT ![i] = row]
    BY <2>3, <2>5 DEF IInv, TypeOK
  <2> QED BY <2>4, <2>6, RowWritten DEF IInv
<1>5. CASE h.row = None
  <2>1. PICK i \in Rows :
          /\ ~Exists(i)
          /\ rows' = [rows EXCEPT ![i] = [emp |-> h.emp, status |-> s, in |-> t,
                                          out |-> None, worked |-> 0, overtime |-> 0]]
    BY <1>1, <1>2, <1>5 DEF CommitCheckIn
  <2>2. [emp |-> h.emp, status |-> s, in |-> t, out |-> None, worked |-> 0,
         overtime |-> 0] \in Row
    BY <1>3, FreshRow
  <2> QED BY <2>1, <2>2, RowWritten DEF IInv
<1> QED BY <1>4, <1>5

LEMMA CheckOutRows ==
  ASSUME IInv, NEW p \in Procs, NEW t \in Times, CommitCheckOut(p, t)
  PROVE  RowsTyped' /\ RowsKept
<1>1. PICK h : h = handler[p]
  OBVIOUS
<1>2. PICK i \in Rows : i = h.row
  BY <1>1, HandlerFields DEF CommitCheckOut, IInv
<1>3. Exists(i) /\ rows[i] \in Row
  BY <1>1, <1>2, RowExists DEF IInv, HandlersKnow, AllKnow, Knows, CommitCheckOut
<1>4. PICK n : n = IF h.in = None THEN 0 ELSE Duration(h.in, t)
  OBVIOUS
<1>5. Shorter(n, WorkDay) \in 0..WorkDay /\ n - Shorter(n, WorkDay) \in 0..DayLength
  <2>1. CASE h.in = None
    BY <1>4, <2>1, AttendanceAssumption DEF AttendanceAssumption, Shorter
  <2>2. CASE h.in # None
    <3>1. h.in \in Times
      BY <1>1, <2>2, HandlerFields DEF CommitCheckOut, IInv
    <3> QED BY <1>4, <2>2, <3>1, DurationType
  <2> QED BY <2>1, <2>2
<1>6. PICK w \in 0..WorkDay, o \in 0..DayLength :
        w = Shorter(n, WorkDay) /\ o = n - Shorter(n, WorkDay)
  BY <1>5
<1>7. rows' = [[[rows EXCEPT ![i].out = t] EXCEPT ![i].worked = w] EXCEPT ![i].overtime = o]
  BY <1>1, <1>2, <1>4, <1>6 DEF CommitCheckOut
<1>8. PICK row : row = [[[rows[i] EXCEPT !.out = t] EXCEPT !.worked = w] EXCEPT !.overtime = o]
  OBVIOUS
<1>9. row \in Row /\ row.emp = rows[i].emp
  BY <1>3, <1>8 DEF Row
<1>10. rows' = [rows EXCEPT ![i] = row]
  BY <1>7, <1>8 DEF IInv, TypeOK
<1> QED BY <1>9, <1>10, RowWritten DEF IInv

LEMMA JobRows ==
  ASSUME IInv, NEW r \in Rows, MarkAbsent \/ CloseRow(r)
  PROVE  RowsTyped' /\ RowsKept
<1>1. CASE MarkAbsent
  <2>1. marking.emp \in Employees
    BY <1>1, MarkingFields DEF MarkAbsent, IInv
  <2>2. PICK i \in Rows :
          /\ ~Exists(i)
          /\ rows' = [rows EXCEPT ![i] = [emp |-> marking.emp, status |-> "ABSENT",
                        in |-> None, out |-> None, worked |-> 0, overtime |-> 0]]
    BY <1>1 DEF MarkAbsent
  <2>3. [emp |-> marking.emp, status |-> "ABSENT", in |-> None, out |-> None,
         worked |-> 0, overtime |-> 0] \in Row
    BY <2>1, FreshRow
  <2> QED BY <2>2, <2>3, RowWritten DEF IInv
<1>2. CASE CloseRow(r)
  <2>1. Exists(r) /\ rows[r] \in Row
    BY <1>2, RowExists DEF CloseRow, IInv, HandlersKnow
  <2>2. PICK row : row = [rows[r] EXCEPT !.status = "DID_NOT_CHECKOUT"]
    OBVIOUS
  <2>3. row \in Row /\ row.emp = rows[r].emp
    BY <2>1, <2>2 DEF Row
  <2>4. rows' = [rows EXCEPT ![r] = row]
    BY <1>2, <2>2 DEF CloseRow, IInv, TypeOK
  <2> QED BY <2>3, <2>4, RowWritten DEF IInv
<1> QED BY <1>1, <1>2

LEMMA RowStep == ASSUME IInv, Next PROVE RowsTyped' /\ RowsKept
<1>1. CASE UNCHANGED rows
  BY <1>1 DEF IInv, TypeOK, RowsTyped, RowsKept, Exists
<1>2. \A p \in Procs, e \in Employees, t \in Tokens, fails \in RedisFaults :
        ReadNonce(p, e, t, fails) \/ SetNonce(p, fails) => UNCHANGED rows
  BY DEF ReadNonce, SetNonce
<1>3. \A p \in Procs, e \in Employees :
        FindForCheckIn(p, e) \/ FindForCheckOut(p, e) => UNCHANGED rows
  BY DEF FindForCheckIn, FindForCheckOut, LookUpStep
<1>4. \A fails \in RedisFaults, p \in Procs : SetNonce(p, fails) => UNCHANGED rows
  BY DEF SetNonce
<1>5. \A e \in Employees : LookForRow(e) \/ Approve(e) => UNCHANGED rows
  BY DEF LookForRow, Approve
<1>6. StartMarking \/ LookForLeave \/ EndMarking \/ AbortMarking \/ StartClosing
         \/ EndClosing \/ Midnight => UNCHANGED rows
  BY DEF StartMarking, LookForLeave, EndMarking, AbortMarking, StartClosing, EndClosing,
         Midnight
<1>7. MarkAbsent => RowsTyped' /\ RowsKept
  <2>1. ASSUME MarkAbsent PROVE \E r \in Rows : TRUE
    BY <2>1 DEF MarkAbsent
  <2> QED BY <2>1, JobRows
<1> QED BY <1>1, <1>2, <1>3, <1>4, <1>5, <1>6, <1>7, CheckInRows, CheckOutRows, JobRows DEF Next

-----------------------------------------------------------------------------
(* Handlers *)

LEMMA GotoInv ==
  ASSUME IInv, NEW p \in Procs, NEW h \in Handler \cup {Idle}, Goto(p, h), RowsKept,
         h.pc = "entering" /\ h.row # None => Exists(h.row)',
         h.pc = "leaving" => Exists(h.row)'
  PROVE  /\ handler' \in [Procs -> Handler \cup {Idle}]
         /\ AllKnow'
<1>1. handler' \in [Procs -> Handler \cup {Idle}]
  BY DEF Goto, IInv, TypeOK
<1>2. \A q \in Procs : handler'[q] = IF q = p THEN h ELSE handler[q]
  BY DEF Goto, IInv, TypeOK
<1>3. ASSUME NEW q \in Procs PROVE Knows(handler[q])'
  <2>1. CASE q = p
    BY <1>2, <2>1 DEF Knows
  <2>2. CASE q # p
    <3>1. handler'[q] = handler[q]
      BY <1>2, <2>2
    <3>2. Knows(handler[q])
      BY DEF IInv, HandlersKnow, AllKnow
    <3>3. handler[q].pc = "entering" /\ handler[q].row # None => handler[q].row \in Rows
      BY HandlerFields DEF IInv
    <3>4. handler[q].pc = "leaving" => handler[q].row \in Rows
      BY HandlerFields DEF IInv
    <3> QED BY <3>1, <3>2, <3>3, <3>4 DEF Knows, RowsKept
  <2> QED BY <2>1, <2>2
<1>4. AllKnow'
  BY <1>3 DEF AllKnow
<1> QED BY <1>1, <1>4

(* What a request changes besides the rows and its handler. *)
RequestKeeps ==
    /\ handler' \in [Procs -> Handler \cup {Idle}]
    /\ AllKnow'
    /\ nonces' \subseteq Tokens
    /\ scans' \in [Tokens -> Nat]
    /\ raced' \in BOOLEAN
    /\ rescanned' \in BOOLEAN

LEMMA IdleInv ==
  ASSUME IInv, NEW p \in Procs, Goto(p, Idle), RowsKept
  PROVE  /\ handler' \in [Procs -> Handler \cup {Idle}]
         /\ AllKnow'
<1>1. Idle.pc = "idle" /\ Idle \in Handler \cup {Idle}
  BY DEF Idle
<1> QED BY <1>1, GotoInv

LEMMA ScanKeeps ==
  ASSUME IInv, RowsKept, NEW p \in Procs, NEW e \in Employees, NEW t \in Tokens,
         NEW fails \in RedisFaults, ReadNonce(p, e, t, fails)
  PROVE  RequestKeeps
<1>1. PICK h : h = [pc |-> "scanned", emp |-> e, kind |-> KindOf[t], token |-> t]
  OBVIOUS
<1>2. KindOf[t] \in Kinds
  BY AttendanceAssumption DEF AttendanceAssumption, Kinds
<1>3. h \in Handler /\ h.pc = "scanned"
  BY <1>1, <1>2 DEF Handler
<1>4. Goto(p, h)
  BY <1>1 DEF ReadNonce
<1>5. rescanned' \in BOOLEAN
  BY DEF ReadNonce
<1>6. nonces' \subseteq Tokens /\ scans' \in [Tokens -> Nat] /\ raced' \in BOOLEAN
  BY DEF ReadNonce, IInv, TypeOK
<1> QED BY <1>3, <1>4, <1>5, <1>6, GotoInv DEF RequestKeeps

LEMMA PassKeeps ==
  ASSUME IInv, RowsKept, NEW p \in Procs, NEW fails \in RedisFaults, SetNonce(p, fails)
  PROVE  RequestKeeps
<1>1. PICK t \in Tokens : t = handler[p].token
  BY HandlerFields DEF SetNonce, IInv
<1>2. PICK h : h = [pc |-> "cleared", emp |-> handler[p].emp, kind |-> handler[p].kind]
  OBVIOUS
<1>3. h \in Handler /\ h.pc = "cleared"
  <2>1. handler[p].emp \in Employees /\ handler[p].kind \in Kinds
    BY HandlerFields DEF SetNonce, IInv
  <2> QED BY <1>2, <2>1 DEF Handler
<1>4. Goto(p, h)
  BY <1>2 DEF SetNonce
<1>5. rescanned' \in BOOLEAN
  BY DEF SetNonce
<1>6. nonces' \subseteq Tokens
  BY <1>1 DEF SetNonce, Used, IInv, TypeOK
<1>7. scans' \in [Tokens -> Nat]
  BY <1>1 DEF SetNonce, IInv, TypeOK
<1>8. raced' \in BOOLEAN
  BY DEF SetNonce, IInv, TypeOK
<1> QED BY <1>3, <1>4, <1>5, <1>6, <1>7, <1>8, GotoInv DEF RequestKeeps

LEMMA LookUpKeeps ==
  ASSUME IInv, RowsKept, NEW p \in Procs, NEW e \in Employees,
         FindForCheckIn(p, e) \/ FindForCheckOut(p, e)
  PROVE  RequestKeeps
<1>1. /\ nonces' \subseteq Tokens /\ scans' \in [Tokens -> Nat]
      /\ rescanned' \in BOOLEAN /\ rows' = rows
  BY DEF FindForCheckIn, FindForCheckOut, LookUpStep, IInv, TypeOK
<1>2. raced' \in BOOLEAN
  BY DEF FindForCheckIn, FindForCheckOut, LookUpStep
<1>3. \/ Goto(p, Idle)
      \/ Goto(p, [pc |-> "entering", emp |-> e, row |-> None])
      \/ \E r \in RowsOf(e) :
            \/ Goto(p, [pc |-> "entering", emp |-> e, row |-> r])
            \/ Goto(p, [pc |-> "leaving", emp |-> e, row |-> r, in |-> rows[r].in])
  BY DEF FindForCheckIn, FindForCheckOut
<1>4. CASE Goto(p, Idle)
  BY <1>1, <1>2, <1>4, IdleInv DEF RequestKeeps
<1>5. CASE Goto(p, [pc |-> "entering", emp |-> e, row |-> None])
  <2>1. PICK h : h = [pc |-> "entering", emp |-> e, row |-> None]
    OBVIOUS
  <2>2. h \in Handler /\ h.pc = "entering" /\ h.row = None
    BY <2>1 DEF Handler
  <2> QED BY <1>1, <1>2, <1>5, <2>1, <2>2, GotoInv DEF RequestKeeps
<1>6. ASSUME NEW r \in RowsOf(e),
             \/ Goto(p, [pc |-> "entering", emp |-> e, row |-> r])
             \/ Goto(p, [pc |-> "leaving", emp |-> e, row |-> r, in |-> rows[r].in])
      PROVE  RequestKeeps
  <2>1. r \in Rows /\ Exists(r) /\ rows[r] \in Row
    BY RowExists DEF RowsOf, IInv
  <2>2. PICK h : /\ h \in {[pc |-> "entering", emp |-> e, row |-> r],
                           [pc |-> "leaving", emp |-> e, row |-> r, in |-> rows[r].in]}
                 /\ Goto(p, h)
    BY <1>6
  <2>3. rows[r].in \in Times \cup {None}
    BY <2>1 DEF Row
  <2>4. h \in Handler /\ h.row = r
    BY <2>1, <2>2, <2>3 DEF Handler
  <2>5. Exists(h.row)'
    BY <2>1, <2>4 DEF RowsKept
  <2> QED BY <1>1, <1>2, <2>2, <2>4, <2>5, GotoInv DEF RequestKeeps
<1> QED BY <1>3, <1>4, <1>5, <1>6

LEMMA WriteKeeps ==
  ASSUME IInv, RowsKept, NEW p \in Procs, NEW t \in Times,
         CommitCheckIn(p, t) \/ CommitCheckOut(p, t)
  PROVE  RequestKeeps
<1>1. /\ nonces' \subseteq Tokens /\ scans' \in [Tokens -> Nat]
      /\ raced' \in BOOLEAN /\ rescanned' \in BOOLEAN /\ Goto(p, Idle)
  BY DEF CommitCheckIn, CommitCheckOut, IInv, TypeOK
<1> QED BY <1>1, IdleInv DEF RequestKeeps

LEMMA RequestInv ==
  ASSUME IInv, RequestStep, RequestKeeps, RowsTyped', RowsKept
  PROVE  IInv'
<1>1. /\ marking' = marking /\ marked' = marked /\ closing' = closing /\ clock' = clock
      /\ onLeave' = onLeave
  BY DEF RequestStep
<1>2. TypeOK'
  BY <1>1 DEF RequestKeeps, RowsTyped, IInv, TypeOK
<1>3. closing'.pc = "on" => \A r \in closing'.todo : Exists(r)'
  BY <1>1, ClosingFields DEF RowsKept, IInv, HandlersKnow
<1>4. \A e : Accounted(e) => Accounted(e)'
  BY <1>1 DEF Accounted, RowsKept
<1>5. MarkedSoFar' /\ EveryoneAccountedFor'
  BY <1>1, <1>4 DEF IInv, MarkedSoFar, EveryoneAccountedFor, Accounted
<1> QED BY <1>2, <1>3, <1>5 DEF IInv, HandlersKnow, RequestKeeps

-----------------------------------------------------------------------------
(* The cron jobs, the clock and the leaves *)

LEMMA AccountedKept ==
  ASSUME RowsKept, onLeave \subseteq onLeave', NEW e, Accounted(e)
  PROVE  Accounted(e)'
  BY DEF RowsKept, Accounted

LEMMA KnowsKept ==
  ASSUME IInv, RowsKept, handler' = handler
  PROVE  AllKnow'
<1>1. ASSUME NEW p \in Procs PROVE Knows(handler[p])'
  <2>1. Knows(handler[p])
    BY DEF IInv, HandlersKnow, AllKnow
  <2>2. handler[p].pc = "entering" /\ handler[p].row # None => handler[p].row \in Rows
    BY HandlerFields DEF IInv
  <2>3. handler[p].pc = "leaving" => handler[p].row \in Rows
    BY HandlerFields DEF IInv
  <2> QED BY <2>1, <2>2, <2>3 DEF Knows, RowsKept
<1> QED BY <1>1 DEF AllKnow

LEMMA MarkingInv ==
  ASSUME IInv, RowsTyped', RowsKept, NEW e,
         \/ StartMarking \/ LookForRow(e) \/ LookForLeave \/ MarkAbsent
         \/ EndMarking \/ AbortMarking
  PROVE  IInv'
<1>1. /\ nonces' = nonces /\ handler' = handler /\ closing' = closing
      /\ onLeave' = onLeave /\ scans' = scans /\ rescanned' = rescanned
  BY DEF StartMarking, LookForRow, LookForLeave, MarkAbsent, EndMarking, AbortMarking, JobStep
<1>2. marked' \in BOOLEAN /\ clock' \in Phases
  BY DEF StartMarking, LookForRow, LookForLeave, MarkAbsent, EndMarking, AbortMarking,
         JobStep, IInv, TypeOK, Phases
<1>3. raced' \in BOOLEAN
  BY DEF StartMarking, LookForRow, LookForLeave, MarkAbsent, EndMarking, AbortMarking,
         JobStep, IInv, TypeOK
<1>4. HandlersKnow'
  <2>1. closing'.pc = "on" => \A r \in closing'.todo : Exists(r)'
    BY <1>1, ClosingFields DEF RowsKept, IInv, HandlersKnow
  <2> QED BY <1>1, <2>1, KnowsKept DEF HandlersKnow
<1>5. \A x : Accounted(x) => Accounted(x)'
  BY <1>1, AccountedKept
<1>6. ASSUME marking' \in Marking \cup {Off}, MarkedSoFar', EveryoneAccountedFor'
      PROVE  IInv'
  <2>1. TypeOK'
    BY <1>1, <1>2, <1>3, <1>6 DEF IInv, TypeOK, RowsTyped
  <2> QED BY <1>4, <1>6, <2>1 DEF IInv
<1>7. ASSUME marked' = marked PROVE EveryoneAccountedFor'
  BY <1>5, <1>7 DEF EveryoneAccountedFor, IInv, Accounted
<1>8. CASE StartMarking
  <2>1. marking' = [pc |-> "on", todo |-> Employees] /\ marked' = marked
    BY <1>8 DEF StartMarking
  <2>2. marking' \in Marking
    BY <2>1 DEF Marking
  <2>3. MarkedSoFar'
    BY <2>1 DEF MarkedSoFar
  <2> QED BY <1>6, <1>7, <2>1, <2>2, <2>3
<1>9. CASE LookForRow(e)
  <2>1. PICK b \in BOOLEAN : b = (RowsOf(e) # {})
    OBVIOUS
  <2>2. /\ marking' = [pc |-> "looked", todo |-> marking.todo \ {e}, emp |-> e, present |-> b]
        /\ marking.pc = "on" /\ marked' = marked
    BY <1>9, <2>1 DEF LookForRow
  <2>3. marking' \in Marking
    <3>1. marking.todo \subseteq Employees /\ e \in marking.todo
      BY <1>9, MarkingFields DEF LookForRow, IInv
    <3> QED BY <2>2, <3>1 DEF Marking
  <2>4. b => Accounted(e)
    BY <2>1 DEF RowsOf, Accounted
  <2>5. \A x \in Employees \ marking.todo : Accounted(x)
    BY <2>2 DEF IInv, MarkedSoFar
  <2>6. MarkedSoFar'
    BY <1>5, <2>2, <2>4, <2>5 DEF MarkedSoFar
  <2> QED BY <1>6, <1>7, <2>2, <2>3, <2>6
<1>10. ASSUME marking.pc = "looked" \/ marking.pc = "absent"
       PROVE  /\ marking.todo \subseteq Employees /\ marking.emp \in Employees
              /\ \A x \in Employees \ marking.todo : x # marking.emp => Accounted(x)
  BY <1>10, MarkingFields DEF IInv, MarkedSoFar
<1>11. CASE LookForLeave
  <2>1. marking.pc = "looked" /\ marked' = marked
    BY <1>11 DEF LookForLeave
  <2>2. CASE marking.present \/ Excused(marking.emp)
    <3>1. marking' = [pc |-> "on", todo |-> marking.todo]
      BY <1>11, <2>2 DEF LookForLeave
    <3>2. Accounted(marking.emp)
      BY <2>1, <2>2 DEF IInv, MarkedSoFar, Excused, Accounted
    <3>3. marking' \in Marking
      BY <1>10, <2>1, <3>1 DEF Marking
    <3>4. MarkedSoFar'
      BY <1>5, <1>10, <2>1, <3>1, <3>2 DEF MarkedSoFar
    <3> QED BY <1>6, <1>7, <2>1, <3>3, <3>4
  <2>3. CASE ~(marking.present \/ Excused(marking.emp))
    <3>1. marking' = [pc |-> "absent", todo |-> marking.todo, emp |-> marking.emp]
      BY <1>11, <2>3 DEF LookForLeave
    <3>2. marking' \in Marking
      BY <1>10, <2>1, <3>1 DEF Marking
    <3>3. MarkedSoFar'
      BY <1>5, <1>10, <2>1, <3>1 DEF MarkedSoFar
    <3> QED BY <1>6, <1>7, <2>1, <3>2, <3>3
  <2> QED BY <2>2, <2>3
<1>12. CASE MarkAbsent
  <2>1. marking.pc = "absent" /\ marked' = marked /\ marking' = [pc |-> "on", todo |-> marking.todo]
    BY <1>12 DEF MarkAbsent
  <2>2. PICK i \in Rows :
          rows' = [rows EXCEPT ![i] = [emp |-> marking.emp, status |-> "ABSENT",
                        in |-> None, out |-> None, worked |-> 0, overtime |-> 0]]
    BY <1>12 DEF MarkAbsent
  <2>3. rows'[i] # NoRow /\ rows'[i].emp = marking.emp
    BY <2>2 DEF IInv, TypeOK, NoRow
  <2>4. marking' \in Marking
    BY <1>10, <2>1 DEF Marking
  <2>5. ASSUME NEW x \in Employees \ marking.todo PROVE Accounted(x)'
    <3>1. CASE x = marking.emp
      BY <2>3, <3>1 DEF Accounted, Exists
    <3>2. CASE x # marking.emp
      BY <1>5, <1>10, <2>1, <3>2
    <3> QED BY <3>1, <3>2
  <2>6. MarkedSoFar'
    BY <2>1, <2>5 DEF MarkedSoFar
  <2> QED BY <1>6, <1>7, <2>1, <2>4, <2>6
<1>13. CASE EndMarking
  <2>1. marking.pc = "on" /\ marking.todo = {} /\ marking' = Off
    BY <1>13 DEF EndMarking
  <2>2. \A x \in Employees : Accounted(x)'
    BY <1>5, <2>1 DEF IInv, MarkedSoFar
  <2>3. EveryoneAccountedFor'
    BY <2>2 DEF EveryoneAccountedFor, Accounted
  <2>4. MarkedSoFar'
    BY <2>1 DEF MarkedSoFar, Off
  <2> QED BY <1>6, <2>1, <2>3, <2>4
<1>14. CASE AbortMarking
  <2>1. marked' = marked /\ marking' = Off
    BY <1>14 DEF AbortMarking
  <2>2. MarkedSoFar'
    BY <2>1 DEF MarkedSoFar, Off
  <2> QED BY <1>6, <1>7, <2>1, <2>2
<1> QED BY <1>8, <1>9, <1>11, <1>12, <1>13, <1>14

LEMMA ClosingInv ==
  ASSUME IInv, RowsTyped', RowsKept, NEW r, StartClosing \/ CloseRow(r) \/ EndClosing
  PROVE  IInv'
<1>1. /\ nonces' = nonces /\ handler' = handler /\ marking' = marking /\ marked' = marked
      /\ onLeave' = onLeave /\ scans' = scans /\ rescanned' = rescanned
  BY DEF StartClosing, CloseRow, EndClosing, JobStep
<1>2. clock' \in Phases
  BY DEF StartClosing, CloseRow, EndClosing, JobStep, IInv, TypeOK, Phases
<1>3. raced' \in BOOLEAN
  BY DEF StartClosing, CloseRow, EndClosing, IInv, TypeOK
<1>4. /\ closing' \in Closing \cup {Off}
      /\ closing'.pc = "on" => \A i \in closing'.todo : Exists(i)'
  <2>1. CASE StartClosing
    <3>1. closing' = [pc |-> "on", todo |-> Unfinished] /\ rows' = rows
      BY <2>1 DEF StartClosing
    <3> QED BY <3>1 DEF Closing, Unfinished, RowsKept
  <2>2. CASE CloseRow(r)
    <3>1. closing' = [closing EXCEPT !.todo = closing.todo \ {r}] /\ closing.pc = "on"
      BY <2>2 DEF CloseRow
    <3>2. closing' = [pc |-> "on", todo |-> closing.todo \ {r}] /\ closing.todo \subseteq Rows
      BY <3>1, ClosingFields DEF IInv
    <3>3. closing' \in Closing
      BY <3>2 DEF Closing
    <3> QED BY <3>1, <3>2, <3>3 DEF RowsKept, IInv, HandlersKnow
  <2>3. CASE EndClosing
    BY <2>3 DEF EndClosing, Off
  <2> QED BY <2>1, <2>2, <2>3
<1>5. HandlersKnow'
  BY <1>1, <1>4, KnowsKept DEF HandlersKnow
<1>6. TypeOK'
  BY <1>1, <1>2, <1>3, <1>4 DEF IInv, TypeOK, RowsTyped
<1>7. \A x : Accounted(x) => Accounted(x)'
  BY <1>1, AccountedKept
<1>8. MarkedSoFar' /\ EveryoneAccountedFor'
  BY <1>1, <1>7 DEF IInv, MarkedSoFar, EveryoneAccountedFor, Accounted
<1> QED BY <1>5, <1>6, <1>8 DEF IInv

LEMMA OutsideInv ==
  ASSUME IInv, Midnight \/ (\E e \in Employees : Approve(e)) \/ UNCHANGED vars
  PROVE  IInv'
<1>1. /\ rows' = rows /\ nonces' = nonces /\ handler' = handler /\ marking' = marking
      /\ marked' = marked /\ closing' = closing /\ scans' = scans /\ raced' = raced
      /\ rescanned' = rescanned
  BY DEF Midnight, Approve, vars
<1>2. clock' \in Phases /\ onLeave \subseteq onLeave' /\ onLeave' \subseteq Employees
  BY DEF Midnight, Approve, vars, IInv, TypeOK, Phases
<1>3. RowsKept
  BY <1>1 DEF RowsKept, Exists
<1>4. TypeOK'
  BY <1>1, <1>2 DEF IInv, TypeOK
<1>5. HandlersKnow'
  <2>1. closing'.pc = "on" => \A r \in closing'.todo : Exists(r)'
    BY <1>1, <1>3, ClosingFields DEF RowsKept, IInv, HandlersKnow
  <2> QED BY <1>1, <1>3, <2>1, KnowsKept DEF HandlersKnow
<1>6. \A x : Accounted(x) => Accounted(x)'
  BY <1>2, <1>3, AccountedKept
<1>7. MarkedSoFar' /\ EveryoneAccountedFor'
  BY <1>1, <1>6 DEF IInv, MarkedSoFar, EveryoneAccountedFor, Accounted
<1> QED BY <1>4, <1>5, <1>7 DEF IInv

LEMMA InitInv == Init => IInv
<1>1. SUFFICES ASSUME Init PROVE IInv
  OBVIOUS
<1>2. TypeOK
  BY <1>1 DEF Init, TypeOK, Phases, Row
<1>3. HandlersKnow
  BY <1>1 DEF Init, HandlersKnow, AllKnow, Knows, Idle, Off
<1>4. MarkedSoFar /\ EveryoneAccountedFor
  BY <1>1 DEF Init, MarkedSoFar, EveryoneAccountedFor, Off
<1> QED BY <1>2, <1>3, <1>4 DEF IInv

LEMMA StepInv == ASSUME IInv, [Next]_vars PROVE IInv'
<1>1. CASE UNCHANGED vars
  BY <1>1, OutsideInv
<1>2. CASE Next
  <2>1. RowsTyped' /\ RowsKept
    BY <1>2, RowStep
  <2>2. ASSUME NEW p \in Procs, NEW e \in Employees,
               \/ \E t \in Tokens, fails \in RedisFaults : ReadNonce(p, e, t, fails)
               \/ FindForCheckIn(p, e)
               \/ FindForCheckOut(p, e)
        PROVE  IInv'
    <3>1. RequestKeeps
      BY <2>1, <2>2, ScanKeeps, LookUpKeeps
    <3>2. RequestStep
      BY <2>2 DEF ReadNonce, FindForCheckIn, FindForCheckOut, LookUpStep
    <3> QED BY <2>1, <3>1, <3>2, RequestInv
  <2>3. ASSUME NEW p \in Procs,
               \/ \E fails \in RedisFaults : SetNonce(p, fails)
               \/ \E t \in Times : CommitCheckIn(p, t) \/ CommitCheckOut(p, t)
        PROVE  IInv'
    <3>1. RequestKeeps
      BY <2>1, <2>3, PassKeeps, WriteKeeps
    <3>2. RequestStep
      BY <2>3 DEF SetNonce, CommitCheckIn, CommitCheckOut
    <3> QED BY <2>1, <3>1, <3>2, RequestInv
  <2> QED BY <1>2, <2>1, <2>2, <2>3, MarkingInv, ClosingInv, OutsideInv DEF Next
<1> QED BY <1>1, <1>2

LEMMA AlwaysIInv == Spec => []IInv
  BY InitInv, StepInv, PTL DEF Spec

(* Every reachable state is well typed: in particular a row's hours worked and *)
(* overtime are those of at most one day, and nobody writes a row that is not. *)
THEOREM TypeCorrect == Spec => []TypeOK
<1>1. IInv => TypeOK
  BY DEF IInv
<1> QED BY <1>1, AlwaysIInv, PTL

(* When handleAbsentMarking has run to its end, every employee has a row or a  *)
(* leave of the day, whatever checkIn, checkOut and leave approvals did while  *)
(* it ran.                                                                     *)
THEOREM NobodyIsMissed == Spec => []EveryoneAccountedFor
<1>1. IInv => EveryoneAccountedFor
  BY DEF IInv
<1> QED BY <1>1, AlwaysIInv, PTL

-----------------------------------------------------------------------------
(* One row per employee: without a race what a lookup did not find is still  *)
(* not there when its row is created, and nobody else is about to create it. *)

Free(e) == \A r \in Rows : Exists(r) => rows[r].emp # e

Creating(p, e) ==
    handler[p].pc = "entering" /\ handler[p].row = None /\ handler[p].emp = e

LookupsHold ==
    ~raced => \A e \in Employees :
        /\ \A p \in Procs : Creating(p, e) => Free(e) /\ ~Missed(e)
        /\ \A p, q \in Procs : Creating(p, e) /\ Creating(q, e) => p = q
        /\ Missed(e) => Free(e)

NoNewRows == \A r \in Rows : Exists(r)' => Exists(r) /\ rows'[r].emp = rows[r].emp

NothingSought ==
    \A e \in Employees :
        /\ \A p \in Procs : Creating(p, e)' => Creating(p, e)
        /\ Missed(e)' => Missed(e)

LEMMA QuietDay ==
  ASSUME OneRowPerDay, LookupsHold, NoNewRows, NothingSought, raced => raced'
  PROVE  OneRowPerDay' /\ LookupsHold'
<1>1. OneRowPerDay'
  BY DEF OneRowPerDay, NoNewRows
<1>2. \A e : Free(e) => Free(e)'
  BY DEF Free, NoNewRows
<1>3. LookupsHold'
  BY <1>2 DEF LookupsHold, NothingSought
<1> QED BY <1>1, <1>3

(* A row is created for an employee who has none; whoever was to create it has *)
(* done so.                                                                    *)
LEMMA CreatedDay ==
  ASSUME IInv, OneRowPerDay, LookupsHold, NEW a \in Employees, NEW i \in Rows, NEW row,
         ~Exists(i), rows' = [rows EXCEPT ![i] = row], row.emp = a, raced' = raced,
         raced \/ Free(a), NothingSought,
         raced \/ ~Missed(a)', raced \/ \A p \in Procs : ~Creating(p, a)'
  PROVE  OneRowPerDay' /\ LookupsHold'
<1>1. \A r \in Rows : rows'[r] = IF r = i THEN row ELSE rows[r]
  BY DEF IInv, TypeOK
<1>2. CASE raced
  BY <1>2 DEF OneRowPerDay, LookupsHold
<1>3. CASE ~raced
  <2>1. OneRowPerDay'
    BY <1>1, <1>3 DEF OneRowPerDay, Free, Exists
  <2>2. \A e \in Employees : e # a /\ Free(e) => Free(e)'
    BY <1>1, <1>3 DEF Free, Exists
  <2>3. LookupsHold'
    BY <1>3, <2>2 DEF LookupsHold, NothingSought
  <2> QED BY <2>1, <2>3
<1> QED BY <1>2, <1>3

(* A handler that goes on to anything but the creation of a row seeks nothing. *)
LEMMA GotoSeeksNothing ==
  ASSUME IInv, NEW p \in Procs, NEW h, Goto(p, h), marking' = marking,
         h.pc # "entering" \/ h.row # None
  PROVE  NothingSought
<1>1. \A q \in Procs : handler'[q] = IF q = p THEN h ELSE handler[q]
  BY DEF Goto, IInv, TypeOK
<1> QED BY <1>1 DEF NothingSought, Creating, Missed

LEMMA UnchangedRows == ASSUME rows' = rows PROVE NoNewRows
  BY DEF NoNewRows, Exists

LEMMA OldRowWritten ==
  ASSUME IInv, RowsKept, NEW i \in Rows, Exists(i),
         \A r \in Rows : r # i => rows'[r] = rows[r]
  PROVE  NoNewRows
  BY DEF NoNewRows, RowsKept, Exists

LEMMA ScanDay ==
  ASSUME IInv, OneRowPerDay, LookupsHold, NEW p \in Procs, NEW e, NEW t, NEW fails,
         ReadNonce(p, e, t, fails) \/ SetNonce(p, fails)
  PROVE  OneRowPerDay' /\ LookupsHold'
<1>1. rows' = rows /\ raced' = raced /\ marking' = marking
  BY DEF ReadNonce, SetNonce, RequestStep
<1>2. PICK h : Goto(p, h) /\ h.pc # "entering"
  BY DEF ReadNonce, SetNonce
<1> QED BY <1>1, <1>2, UnchangedRows, GotoSeeksNothing, QuietDay

LEMMA LookUpDay ==
  ASSUME IInv, OneRowPerDay, LookupsHold, NEW p \in Procs, NEW e \in Employees,
         FindForCheckIn(p, e) \/ FindForCheckOut(p, e)
  PROVE  OneRowPerDay' /\ LookupsHold'
<1>1. /\ rows' = rows /\ marking' = marking
      /\ raced => raced'
      /\ Busy(e) => raced'
  BY DEF FindForCheckIn, FindForCheckOut, LookUpStep, RequestStep
<1>2. ASSUME NEW h, Goto(p, h), h.pc # "entering" \/ h.row # None
      PROVE  OneRowPerDay' /\ LookupsHold'
  BY <1>1, <1>2, UnchangedRows, GotoSeeksNothing, QuietDay
<1>3. CASE \E h : Goto(p, h) /\ (h.pc # "entering" \/ h.row # None)
  BY <1>2, <1>3
<1>4. CASE ~\E h : Goto(p, h) /\ (h.pc # "entering" \/ h.row # None)
  <2>1. PICK h : h = [pc |-> "entering", emp |-> e, row |-> None]
    OBVIOUS
  <2>2. /\ Goto(p, h)
        /\ RowsOf(e) = {}
        /\ Missed(e) => raced'
    <3>1. ~Goto(p, Idle)
      <4>1. Idle.pc # "entering"
        BY DEF Idle
      <4> QED BY <1>4, <4>1
    <3>2. \A r : ~Goto(p, [pc |-> "leaving", emp |-> e, row |-> r, in |-> rows[r].in])
      BY <1>4
    <3>3. ~FindForCheckOut(p, e)
      BY <3>1, <3>2 DEF FindForCheckOut
    <3>4. CASE \E r \in RowsOf(e) : Goto(p, [pc |-> "entering", emp |-> e, row |-> r])
      BY <1>4, <3>4, AttendanceAssumption DEF AttendanceAssumption, RowsOf
    <3> QED BY <2>1, <3>1, <3>3, <3>4 DEF FindForCheckIn, LookUpStep
  <2>3. \A q \in Procs : handler'[q] = IF q = p THEN h ELSE handler[q]
    BY <2>2 DEF Goto, IInv, TypeOK
  <2>4. \A q \in Procs, x \in Employees :
          Creating(q, x)' => (q = p /\ x = e) \/ (q # p /\ Creating(q, x))
    BY <2>1, <2>3 DEF Creating
  <2>5. \A x : Missed(x)' <=> Missed(x)
    BY <1>1 DEF Missed
  <2>6. \A q \in Procs : Creating(q, e) => raced'
    BY <1>1 DEF Creating, Busy
  <2>7. Free(e)
    BY <2>2 DEF RowsOf, Free
  <2>8. \A x : Free(x) => Free(x)'
    BY <1>1 DEF Free, Exists
  <2>9. LookupsHold'
    BY <1>1, <2>2, <2>4, <2>5, <2>6, <2>7, <2>8 DEF LookupsHold
  <2>10. OneRowPerDay'
    BY <1>1 DEF OneRowPerDay, Exists
  <2> QED BY <2>9, <2>10
<1> QED BY <1>3, <1>4

LEMMA WriteDay ==
  ASSUME IInv, RowsKept, OneRowPerDay, LookupsHold, NEW p \in Procs, NEW t \in Times,
         CommitCheckIn(p, t) \/ CommitCheckOut(p, t)
  PROVE  OneRowPerDay' /\ LookupsHold'
<1>1. raced' = raced /\ marking' = marking /\ Goto(p, Idle)
  BY DEF CommitCheckIn, CommitCheckOut, RequestStep
<1>2. NothingSought
  <2>1. Idle.pc # "entering"
    BY DEF Idle
  <2> QED BY <1>1, <2>1, GotoSeeksNothing
<1>3. CASE CommitCheckIn(p, t) /\ handler[p].row = None
  <2>1. PICK a \in Employees : a = handler[p].emp
    BY <1>3, HandlerFields DEF CommitCheckIn, IInv
  <2>2. Creating(p, a)
    BY <1>3, <2>1 DEF CommitCheckIn, Creating
  <2>3. raced \/ (Free(a) /\ ~Missed(a))
    BY <2>2 DEF LookupsHold
  <2>4. raced \/ \A q \in Procs : ~Creating(q, a)'
    <3>1. \A q \in Procs : Creating(q, a)' => q # p /\ Creating(q, a)
      <4>1. \A q \in Procs : handler'[q] = IF q = p THEN Idle ELSE handler[q]
        BY <1>1 DEF Goto, IInv, TypeOK
      <4> QED BY <4>1 DEF Creating, Idle
    <3> QED BY <2>2, <3>1 DEF LookupsHold
  <2>5. PICK s : s = Punctuality(a, t)
    OBVIOUS
  <2>6. PICK i \in Rows :
          /\ ~Exists(i)
          /\ rows' = [rows EXCEPT ![i] = [emp |-> a, status |-> s, in |-> t, out |-> None,
                                          worked |-> 0, overtime |-> 0]]
    BY <1>3, <2>1, <2>5 DEF CommitCheckIn
  <2>7. PICK row : row = [emp |-> a, status |-> s, in |-> t, out |-> None,
                          worked |-> 0, overtime |-> 0]
    OBVIOUS
  <2>10. row.emp = a
    BY <2>7
  <2>8. raced \/ ~Missed(a)'
    BY <1>1, <2>3 DEF Missed
  <2> QED BY <1>1, <1>2, <2>3, <2>4, <2>6, <2>7, <2>8, <2>10, CreatedDay
<1>4. CASE ~(CommitCheckIn(p, t) /\ handler[p].row = None)
  <2>1. PICK i : i = handler[p].row
    OBVIOUS
  <2>2. i \in Rows /\ Exists(i)
    <3>1. \/ handler[p].pc = "entering" /\ handler[p].row # None
          \/ handler[p].pc = "leaving"
      BY <1>4 DEF CommitCheckIn, CommitCheckOut
    <3> QED BY <2>1, <3>1, HandlerFields DEF IInv, HandlersKnow, AllKnow, Knows
  <2>3. \A r \in Rows : r # i => rows'[r] = rows[r]
    BY <1>4, <2>1, <2>2 DEF CommitCheckIn, CommitCheckOut, IInv, TypeOK
  <2>4. NoNewRows
    BY <2>2, <2>3, OldRowWritten
  <2> QED BY <1>1, <1>2, <2>4, QuietDay
<1> QED BY <1>3, <1>4

LEMMA MarkingDay ==
  ASSUME IInv, OneRowPerDay, LookupsHold, NEW e, LookForRow(e) \/ LookForLeave \/ MarkAbsent
  PROVE  OneRowPerDay' /\ LookupsHold'
<1>1. handler' = handler /\ (raced => raced')
  <2>1. handler' = handler
    BY DEF LookForRow, LookForLeave, MarkAbsent, JobStep
  <2>2. raced => raced'
    <3>1. LookForRow(e) => (raced => raced')
      BY DEF LookForRow
    <3>2. LookForLeave \/ MarkAbsent => raced' = raced
      BY DEF LookForLeave, MarkAbsent
    <3> QED BY <3>1, <3>2
  <2> QED BY <2>1, <2>2
<1>2. \A q, x : Creating(q, x)' <=> Creating(q, x)
  BY <1>1 DEF Creating
<1>3. CASE LookForRow(e)
  <2>1. PICK b \in BOOLEAN : b = (RowsOf(e) # {})
    OBVIOUS
  <2>2. /\ marking' = [pc |-> "looked", todo |-> marking.todo \ {e}, emp |-> e, present |-> b]
        /\ rows' = rows
        /\ RowsOf(e) = {} /\ Busy(e) => raced'
    BY <1>3, <2>1 DEF LookForRow
  <2>3. \A x \in Employees : Missed(x)' => x = e /\ RowsOf(e) = {}
    BY <2>1, <2>2 DEF Missed
  <2>4. \A q \in Procs : Creating(q, e) => Busy(e)
    BY DEF Creating, Busy
  <2>5. RowsOf(e) = {} => Free(e)
    BY DEF RowsOf, Free
  <2>6. \A x : Free(x) => Free(x)'
    BY <2>2 DEF Free, Exists
  <2>7. LookupsHold'
    BY <1>1, <1>2, <2>2, <2>3, <2>4, <2>5, <2>6 DEF LookupsHold
  <2>8. OneRowPerDay'
    BY <1>1, <2>2 DEF OneRowPerDay, Exists
  <2> QED BY <2>7, <2>8
<1>4. CASE LookForLeave
  <2>1. rows' = rows
    BY <1>4 DEF LookForLeave
  <2>2. \A x : Missed(x)' => Missed(x)
    BY <1>4 DEF LookForLeave, Missed
  <2>3. NothingSought
    BY <1>2, <2>2 DEF NothingSought
  <2> QED BY <1>1, <2>1, <2>3, UnchangedRows, QuietDay
<1>5. CASE MarkAbsent
  <2>1. PICK a \in Employees : a = marking.emp
    BY <1>5, MarkingFields DEF MarkAbsent, IInv
  <2>2. Missed(a)
    BY <1>5, <2>1 DEF MarkAbsent, Missed
  <2>3. raced \/ (Free(a) /\ \A q \in Procs : ~Creating(q, a))
    BY <2>2 DEF LookupsHold
  <2>4. \A x : ~Missed(x)'
    BY <1>5 DEF MarkAbsent, Missed
  <2>5. NothingSought
    BY <1>2, <2>4 DEF NothingSought
  <2>6. PICK i \in Rows :
          /\ ~Exists(i)
          /\ rows' = [rows EXCEPT ![i] = [emp |-> a, status |-> "ABSENT", in |-> None,
                                          out |-> None, worked |-> 0, overtime |-> 0]]
    BY <1>5, <2>1 DEF MarkAbsent
  <2>7. PICK row : row = [emp |-> a, status |-> "ABSENT", in |-> None, out |-> None,
                          worked |-> 0, overtime |-> 0]
    OBVIOUS
  <2>10. row.emp = a
    BY <2>7
  <2>8. raced' = raced
    BY <1>5 DEF MarkAbsent
  <2>9. raced \/ \A q \in Procs : ~Creating(q, a)'
    BY <1>2, <2>3
  <2> QED BY <2>3, <2>4, <2>5, <2>6, <2>7, <2>8, <2>9, <2>10, CreatedDay
<1> QED BY <1>3, <1>4, <1>5

LEMMA OtherDay ==
  ASSUME IInv, RowsKept, OneRowPerDay, LookupsHold,
         \/ StartMarking \/ EndMarking \/ AbortMarking \/ StartClosing \/ EndClosing
         \/ Midnight \/ (\E r \in Rows : CloseRow(r)) \/ (\E e \in Employees : Approve(e))
         \/ UNCHANGED vars
  PROVE  OneRowPerDay' /\ LookupsHold'
<1>1. handler' = handler /\ (raced => raced')
  <2>1. handler' = handler
    BY DEF StartMarking, EndMarking, AbortMarking, StartClosing, EndClosing, Midnight,
           CloseRow, Approve, vars, JobStep
  <2>2. raced => raced'
    <3>1. StartClosing => (raced => raced')
      BY DEF StartClosing
    <3>2. StartClosing \/ raced' = raced
      BY DEF StartMarking, EndMarking, AbortMarking, EndClosing, Midnight, CloseRow, Approve,
             vars
    <3> QED BY <3>1, <3>2
  <2> QED BY <2>1, <2>2
<1>2. \A x : Missed(x)' => Missed(x)
  <2>1. marking' = marking \/ marking'.pc \in {"on", "off"}
    BY DEF StartMarking, EndMarking, AbortMarking, StartClosing, EndClosing, Midnight,
           CloseRow, Approve, vars, Off
  <2> QED BY <2>1 DEF Missed
<1>3. NothingSought
  BY <1>1, <1>2 DEF NothingSought, Creating
<1>4. NoNewRows
  <2>1. CASE rows' = rows
    BY <2>1, UnchangedRows
  <2>2. ASSUME NEW r \in Rows, CloseRow(r) PROVE NoNewRows
    <3>1. Exists(r)
      BY <2>2, ClosingFields DEF CloseRow, IInv, HandlersKnow
    <3>2. \A s \in Rows : s # r => rows'[s] = rows[s]
      BY <2>2 DEF CloseRow, IInv, TypeOK
    <3> QED BY <3>1, <3>2, OldRowWritten
  <2> QED BY <2>1, <2>2 DEF StartMarking, EndMarking, AbortMarking, StartClosing, EndClosing,
              Midnight, Approve, vars
<1> QED BY <1>1, <1>3, <1>4, QuietDay

LEMMA StepDay ==
  ASSUME IInv, OneRowPerDay, LookupsHold, [Next]_vars
  PROVE  OneRowPerDay' /\ LookupsHold'
<1>1. CASE UNCHANGED vars
  <2>1. RowsKept
    BY <1>1 DEF vars, RowsKept, Exists
  <2> QED BY <1>1, <2>1, OtherDay
<1>2. CASE Next
  <2>1. RowsKept
    BY <1>2, RowStep
  <2>2. CASE \E p \in Procs :
               \/ \E e \in Employees :
                   \/ \E t \in Tokens, fails \in RedisFaults : ReadNonce(p, e, t, fails)
                   \/ FindForCheckIn(p, e)
                   \/ FindForCheckOut(p, e)
               \/ \E fails \in RedisFaults : SetNonce(p, fails)
               \/ \E t \in Times : CommitCheckIn(p, t) \/ CommitCheckOut(p, t)
    BY <2>1, <2>2, ScanDay, LookUpDay, WriteDay
  <2>3. CASE (\E e \in Employees : LookForRow(e)) \/ LookForLeave \/ MarkAbsent
    BY <2>3, MarkingDay
  <2> QED BY <1>2, <2>1, <2>2, <2>3, OtherDay DEF Next
<1> QED BY <1>1, <1>2

(* checkIn, checkOut and handleAbsentMarking keep to one row per employee and *)
(* day, as long as no two of them are at the same employee at once.           *)
THEOREM RowIsUnique == Spec => []OneRowPerDay
<1>1. Init => OneRowPerDay /\ LookupsHold
  <2>1. SUFFICES ASSUME Init PROVE OneRowPerDay /\ LookupsHold
    OBVIOUS
  <2>2. OneRowPerDay
    BY <2>1 DEF Init, OneRowPerDay, Exists
  <2>3. LookupsHold
    BY <2>1 DEF Init, LookupsHold, Creating, Missed, Idle, Off
  <2> QED BY <2>2, <2>3
<1> QED BY <1>1, AlwaysIInv, StepDay, PTL DEF Spec

-----------------------------------------------------------------------------
(* A token serves once: while Redis answers and scans of it do not overlap,  *)
(* a token that is not in Redis has let nobody pass, and one that is being   *)
(* scanned is not in Redis.                                                  *)

ScansHold ==
    ~rescanned => \A t \in Tokens :
        /\ scans[t] <= 1
        /\ t \notin nonces => scans[t] = 0
        /\ \A p \in Scanning(t) : t \notin nonces
        /\ \A p, q \in Scanning(t) : p = q

LEMMA ReadNonceScans ==
  ASSUME IInv, ScansHold, NEW p \in Procs, NEW e, NEW t \in Tokens, NEW fails \in RedisFaults,
         ReadNonce(p, e, t, fails)
  PROVE  ScansHold'
<1>1. nonces' = nonces /\ scans' = scans
  BY DEF ReadNonce
<1>2. PICK h : h.pc = "scanned" /\ h.token = t /\ Goto(p, h)
  BY DEF ReadNonce
<1>3. \A q \in Procs : handler'[q] = IF q = p THEN h ELSE handler[q]
  BY <1>2 DEF Goto, IInv, TypeOK
<1>4. handler[p].pc # "scanned"
  BY DEF ReadNonce
<1>5. /\ Scanning(t)' = Scanning(t) \cup {p}
      /\ \A u \in Tokens : u # t => Scanning(u)' = Scanning(u)
  BY <1>2, <1>3, <1>4 DEF Scanning
<1>6. CASE rescanned'
  BY <1>6 DEF ScansHold
<1>7. CASE ~rescanned'
  <2>1. ~rescanned /\ Scanning(t) = {} /\ t \notin nonces
    BY <1>7 DEF ReadNonce
  <2> QED BY <1>1, <1>5, <2>1 DEF ScansHold
<1> QED BY <1>6, <1>7

LEMMA SetNonceScans ==
  ASSUME IInv, ScansHold, NEW p \in Procs, NEW fails \in RedisFaults, SetNonce(p, fails)
  PROVE  ScansHold'
<1>1. PICK t \in Tokens : t = handler[p].token /\ p \in Scanning(t)
  BY HandlerFields DEF SetNonce, IInv, Scanning
<1>2. PICK h : h.pc = "cleared" /\ Goto(p, h)
  BY DEF SetNonce
<1>3. \A q \in Procs : handler'[q] = IF q = p THEN h ELSE handler[q]
  BY <1>2 DEF Goto, IInv, TypeOK
<1>4. \A u \in Tokens : Scanning(u)' = Scanning(u) \ {p}
  BY <1>2, <1>3 DEF Scanning
<1>5. scans' = [scans EXCEPT ![t] = scans[t] + 1]
  BY <1>1 DEF SetNonce
<1>6. CASE rescanned'
  BY <1>6 DEF ScansHold
<1>7. CASE ~rescanned'
  <2>1. ~rescanned /\ nonces' = nonces \cup {t}
    BY <1>1, <1>7 DEF SetNonce, Used
  <2>2. t \notin nonces /\ scans[t] = 0 /\ Scanning(t) = {p}
    BY <1>1, <2>1 DEF ScansHold
  <2>3. scans'[t] = 1 /\ \A u \in Tokens : u # t => scans'[u] = scans[u]
    BY <1>5, <2>2 DEF IInv, TypeOK
  <2> QED BY <1>4, <2>1, <2>2, <2>3 DEF ScansHold
<1> QED BY <1>6, <1>7

(* No other step touches the nonces, and none of them begins a scan. *)
LEMMA OtherScans ==
  ASSUME IInv, ScansHold, nonces' = nonces, scans' = scans, rescanned' = rescanned,
         \/ handler' = handler
         \/ \E p \in Procs : \E h : Goto(p, h) /\ h.pc # "scanned"
  PROVE  ScansHold'
<1>1. \A t : Scanning(t)' \subseteq Scanning(t)
  <2>1. CASE handler' = handler
    BY <2>1 DEF Scanning
  <2>2. ASSUME NEW p \in Procs, NEW h, Goto(p, h), h.pc # "scanned"
        PROVE  \A t : Scanning(t)' \subseteq Scanning(t)
    <3>1. \A q \in Procs : handler'[q] = IF q = p THEN h ELSE handler[q]
      BY <2>2 DEF Goto, IInv, TypeOK
    <3> QED BY <2>2, <3>1 DEF Scanning
  <2> QED BY <2>1, <2>2
<1> QED BY <1>1 DEF ScansHold

LEMMA StepScans ==
  ASSUME IInv, ScansHold, [Next]_vars
  PROVE  ScansHold'
<1>1. ASSUME NEW p \in Procs, NEW e,
             \/ FindForCheckIn(p, e) \/ FindForCheckOut(p, e)
             \/ \E t \in Times : CommitCheckIn(p, t) \/ CommitCheckOut(p, t)
      PROVE  ScansHold'
  <2>1. nonces' = nonces /\ scans' = scans /\ rescanned' = rescanned
    BY <1>1 DEF FindForCheckIn, FindForCheckOut, LookUpStep, CommitCheckIn, CommitCheckOut
  <2>2. \E h : Goto(p, h) /\ h.pc # "scanned"
    <3>1. \/ Goto(p, Idle)
          \/ Goto(p, [pc |-> "entering", emp |-> e, row |-> None])
          \/ \E r \in RowsOf(e) :
                \/ Goto(p, [pc |-> "entering", emp |-> e, row |-> r])
                \/ Goto(p, [pc |-> "leaving", emp |-> e, row |-> r, in |-> rows[r].in])
      BY <1>1 DEF FindForCheckIn, FindForCheckOut, CommitCheckIn, CommitCheckOut
    <3>2. Idle.pc # "scanned"
      BY DEF Idle
    <3>3. CASE Goto(p, Idle)
      BY <3>2, <3>3
    <3>4. ASSUME NEW h, Goto(p, h), h.pc \in {"entering", "leaving"}
          PROVE  \E k : Goto(p, k) /\ k.pc # "scanned"
      BY <3>4
    <3> QED BY <3>1, <3>3, <3>4
  <2> QED BY <2>1, <2>2, OtherScans
<1>2. ASSUME \/ \E e \in Employees : LookForRow(e) \/ Approve(e)
             \/ LookForLeave \/ MarkAbsent \/ StartMarking \/ EndMarking \/ AbortMarking
             \/ StartClosing \/ (\E r \in Rows : CloseRow(r)) \/ EndClosing
             \/ Midnight \/ UNCHANGED vars
      PROVE  ScansHold'
  <2>1. nonces' = nonces /\ scans' = scans /\ rescanned' = rescanned /\ handler' = handler
    BY <1>2 DEF LookForRow, Approve, LookForLeave, MarkAbsent, StartMarking, EndMarking,
            AbortMarking, StartClosing, CloseRow, EndClosing, Midnight, vars, JobStep
  <2> QED BY <2>1, OtherScans
<1> QED BY <1>1, <1>2, ReadNonceScans, SetNonceScans DEF Next

(* As long as Redis answers and no two requests scan a token at once, the     *)
(* token lets one of them pass.                                               *)
THEOREM TokenIsSpent == Spec => []TokenServesOnce
<1>1. Init => ScansHold
  BY DEF Init, ScansHold, Scanning, Idle
<1>2. ScansHold => TokenServesOnce
  BY DEF ScansHold, TokenServesOnce
<1> QED BY <1>1, <1>2, AlwaysIInv, StepScans, PTL DEF Spec

-----------------------------------------------------------------------------
(* Hours add up: without a race a handler is alone at its employee, so that  *)
(* the check-in it has read is still the one of the row it writes.           *)

Writing(h) == h.pc \in {"entering", "leaving"}

\* It is going to write a row that was found.
Found(h) == h.pc = "leaving" \/ (h.pc = "entering" /\ h.row # None)

AloneThere ==
    ~raced => \A p, q \in Procs :
        Writing(handler[p]) /\ Writing(handler[q]) /\ handler[p].emp = handler[q].emp => p = q

FoundTheirs == \A p \in Procs : Found(handler[p]) => rows[handler[p].row].emp = handler[p].emp

InIsTrue ==
    ~raced => \A p \in Procs :
        handler[p].pc = "leaving" => rows[handler[p].row].in = handler[p].in

Alone == AloneThere /\ FoundTheirs /\ InIsTrue

LEMMA FoundRow ==
  ASSUME IInv, NEW p \in Procs, Found(handler[p])
  PROVE  handler[p].row \in Rows /\ Exists(handler[p].row)
  BY HandlerFields DEF IInv, HandlersKnow, AllKnow, Knows, Found

(* A handler goes on to h, and writes to no row that another one has read. *)
LEMMA AloneStep ==
  ASSUME IInv, Alone, RowsKept, raced => raced', NEW p \in Procs, NEW h, Goto(p, h),
         Writing(h) => raced' \/ ~Busy(h.emp),
         Found(h) => rows'[h.row].emp = h.emp,
         h.pc = "leaving" => rows'[h.row].in = h.in,
         \A q \in Procs : q # p /\ handler[q].pc = "leaving" /\ ~raced' =>
            rows'[handler[q].row].in = rows[handler[q].row].in
  PROVE  Alone'
<1>1. \A q \in Procs : handler'[q] = IF q = p THEN h ELSE handler[q]
  BY DEF Goto, IInv, TypeOK
<1>2. \A q \in Procs : Writing(handler[q]) => raced' \/ ~Writing(h) \/ handler[q].emp # h.emp
  BY DEF Writing, Busy
<1>3. \A q, r \in Procs :
         ~raced' /\ Writing(handler'[q]) /\ Writing(handler'[r])
                 /\ handler'[q].emp = handler'[r].emp => q = r
  BY <1>1, <1>2 DEF Alone, AloneThere
<1>4. ASSUME NEW q \in Procs, Found(handler'[q])
      PROVE  rows'[handler'[q].row].emp = handler'[q].emp
  <2>1. CASE q = p
    BY <2>1, <1>1, <1>4
  <2>2. CASE q # p
    <3>1. handler'[q] = handler[q]
      BY <2>2, <1>1
    <3>2. handler[q].row \in Rows /\ Exists(handler[q].row)
      BY <3>1, <1>4, FoundRow
    <3> QED BY <3>1, <3>2, <1>4 DEF Alone, FoundTheirs, RowsKept
  <2> QED BY <2>1, <2>2
<1>5. ASSUME NEW q \in Procs, ~raced', handler'[q].pc = "leaving"
      PROVE  rows'[handler'[q].row].in = handler'[q].in
  BY <1>1, <1>5 DEF Alone, InIsTrue
<1> QED BY <1>3, <1>4, <1>5 DEF Alone, AloneThere, FoundTheirs, InIsTrue, Writing, Found

(* Jobs change no check-in. *)
LEMMA AloneAside ==
  ASSUME IInv, Alone, RowsKept, raced => raced', handler' = handler,
         \A r \in Rows : Exists(r) => rows'[r].in = rows[r].in
  PROVE  Alone'
<1>1. AloneThere'
  BY DEF Alone, AloneThere, Writing
<1>2. \A p \in Procs : Found(handler[p]) => handler[p].row \in Rows /\ Exists(handler[p].row)
  BY FoundRow
<1>3. FoundTheirs'
  BY <1>2 DEF Alone, FoundTheirs, Found, RowsKept
<1>4. InIsTrue'
  BY <1>2 DEF Alone, InIsTrue, Found
<1> QED BY <1>1, <1>3, <1>4 DEF Alone

LEMMA IdleIsApart == ~Writing(Idle) /\ ~Found(Idle) /\ Idle.pc # "leaving"
  BY DEF Writing, Found, Idle

LEMMA ScanAlone ==
  ASSUME IInv, Alone, NEW p \in Procs, NEW e, NEW t, NEW fails,
         ReadNonce(p, e, t, fails) \/ SetNonce(p, fails)
  PROVE  Alone'
<1>1. rows' = rows /\ raced' = raced
  BY DEF ReadNonce, SetNonce
<1>2. PICK h : Goto(p, h) /\ h.pc \in {"scanned", "cleared"}
  BY DEF ReadNonce, SetNonce
<1>3. ~Writing(h) /\ ~Found(h) /\ h.pc # "leaving"
  BY <1>2 DEF Writing, Found
<1>4. RowsKept
  BY <1>1 DEF RowsKept, Exists
<1> QED BY <1>1, <1>2, <1>3, <1>4, AloneStep

LEMMA LookUpAlone ==
  ASSUME IInv, Alone, NEW p \in Procs, NEW e \in Employees,
         FindForCheckIn(p, e) \/ FindForCheckOut(p, e)
  PROVE  Alone'
<1>1. rows' = rows /\ (raced => raced') /\ (Busy(e) => raced')
  BY DEF FindForCheckIn, FindForCheckOut, LookUpStep
<1>2. RowsKept
  BY <1>1 DEF RowsKept, Exists
<1>3. CASE Goto(p, Idle)
  BY <1>1, <1>2, <1>3, IdleIsApart, AloneStep
<1>4. ASSUME NEW h, Goto(p, h), h = [pc |-> "entering", emp |-> e, row |-> None]
      PROVE  Alone'
  <2>1. h.emp = e /\ ~Found(h) /\ h.pc # "leaving"
    BY <1>4 DEF Found
  <2> QED BY <2>1, <1>1, <1>2, <1>4, AloneStep
<1>5. ASSUME NEW r \in RowsOf(e), NEW h, Goto(p, h),
             \/ h = [pc |-> "entering", emp |-> e, row |-> r]
             \/ h = [pc |-> "leaving", emp |-> e, row |-> r, in |-> rows[r].in]
      PROVE  Alone'
  <2>1. h.emp = e /\ h.row = r /\ (h.pc = "leaving" => h.in = rows[r].in)
    BY <1>5
  <2>2. rows[r].emp = e
    BY DEF RowsOf
  <2> QED BY <2>1, <2>2, <1>1, <1>2, <1>5, AloneStep
<1> QED BY <1>3, <1>4, <1>5 DEF FindForCheckIn, FindForCheckOut

(* The row that is written is nobody else's. *)
LEMMA WriteAlone ==
  ASSUME IInv, RowsKept, Alone, NEW p \in Procs, NEW t \in Times,
         CommitCheckIn(p, t) \/ CommitCheckOut(p, t)
  PROVE  Alone'
<1>1. raced' = raced /\ Goto(p, Idle) /\ Writing(handler[p])
  BY DEF CommitCheckIn, CommitCheckOut, Writing
<1>2. ASSUME NEW q \in Procs, q # p, handler[q].pc = "leaving", ~raced
      PROVE  rows'[handler[q].row].in = rows[handler[q].row].in
  <2>1. PICK i : i = handler[q].row
    OBVIOUS
  <2>2. i \in Rows /\ Exists(i) /\ rows[i].emp = handler[q].emp
    BY <2>1, <1>2, FoundRow DEF Found, Alone, FoundTheirs
  <2>3. handler[q].emp # handler[p].emp
    BY <1>1, <1>2 DEF Alone, AloneThere, Writing
  <2>4. CASE Found(handler[p])
    <3>1. handler[p].row # i
      BY <2>2, <2>3, <2>4 DEF Alone, FoundTheirs
    <3>2. rows'[i] = rows[i]
      BY <3>1, <2>2, <2>4 DEF CommitCheckIn, CommitCheckOut, Found, IInv, TypeOK
    <3> QED BY <2>1, <3>2
  <2>5. CASE ~Found(handler[p])
    <3>1. PICK r \in Rows : ~Exists(r) /\ \E row : rows' = [rows EXCEPT ![r] = row]
      BY <2>5 DEF CommitCheckIn, CommitCheckOut, Found
    <3>2. rows'[i] = rows[i]
      BY <3>1, <2>2 DEF IInv, TypeOK
    <3> QED BY <2>1, <3>2
  <2> QED BY <2>4, <2>5
<1> QED BY <1>1, <1>2, IdleIsApart, AloneStep

LEMMA OtherAlone ==
  ASSUME IInv, RowsKept, Alone,
         \/ StartMarking \/ (\E e \in Employees : LookForRow(e)) \/ LookForLeave \/ MarkAbsent
         \/ EndMarking \/ AbortMarking \/ StartClosing \/ EndClosing \/ Midnight
         \/ (\E r \in Rows : CloseRow(r)) \/ (\E e \in Employees : Approve(e))
         \/ UNCHANGED vars
  PROVE  Alone'
<1>1. handler' = handler
  BY DEF StartMarking, LookForRow, LookForLeave, MarkAbsent, EndMarking, AbortMarking,
         StartClosing, EndClosing, Midnight, CloseRow, Approve, vars, JobStep
<1>2. raced => raced'
  <2>1. \A e \in Employees : LookForRow(e) => (raced => raced')
    BY DEF LookForRow
  <2>2. StartClosing => (raced => raced')
    BY DEF StartClosing
  <2>3. \/ \E e \in Employees : LookForRow(e)
        \/ StartClosing
        \/ raced' = raced
    BY DEF StartMarking, LookForLeave, MarkAbsent, EndMarking, AbortMarking, EndClosing,
           Midnight, CloseRow, Approve, vars
  <2> QED BY <2>1, <2>2, <2>3
<1>3. \A r \in Rows : Exists(r) => rows'[r].in = rows[r].in
  <2>1. CASE rows' = rows
    BY <2>1
  <2>2. CASE MarkAbsent
    <3>1. PICK i \in Rows : ~Exists(i) /\ \E row : rows' = [rows EXCEPT ![i] = row]
      BY <2>2 DEF MarkAbsent
    <3> QED BY <3>1 DEF IInv, TypeOK
  <2>3. ASSUME NEW i \in Rows, CloseRow(i), NEW r \in Rows, Exists(r)
        PROVE  rows'[r].in = rows[r].in
    <3>1. rows[r] \in Row
      BY <2>3, RowExists DEF IInv
    <3> QED BY <3>1, <2>3 DEF CloseRow, IInv, TypeOK, Row
  <2>4. \/ rows' = rows
        \/ MarkAbsent
        \/ \E i \in Rows : CloseRow(i)
    BY DEF StartMarking, LookForRow, LookForLeave, EndMarking, AbortMarking,
           StartClosing, EndClosing, Midnight, Approve, vars
  <2> QED BY <2>1, <2>2, <2>3, <2>4
<1> QED BY <1>1, <1>2, <1>3, AloneAside

LEMMA StepAlone ==
  ASSUME IInv, Alone, [Next]_vars
  PROVE  Alone'
<1>1. CASE UNCHANGED vars
  <2>1. RowsKept
    BY <1>1 DEF vars, RowsKept, Exists
  <2> QED BY <1>1, <2>1, OtherAlone
<1>2. CASE Next
  <2>1. RowsKept
    BY <1>2, RowStep
  <2>2. CASE \E p \in Procs :
               \/ \E e \in Employees :
                   \/ \E t \in Tokens, fails \in RedisFaults : ReadNonce(p, e, t, fails)
                   \/ FindForCheckIn(p, e)
                   \/ FindForCheckOut(p, e)
               \/ \E fails \in RedisFaults : SetNonce(p, fails)
               \/ \E t \in Times : CommitCheckIn(p, t) \/ CommitCheckOut(p, t)
    BY <2>1, <2>2, ScanAlone, LookUpAlone, WriteAlone
  <2> QED BY <1>2, <2>1, <2>2, OtherAlone DEF Next
<1> QED BY <1>1, <1>2

LEMMA Remainder ==
  ASSUME NEW D \in Nat, NEW t \in 0..(D - 1)
  PROVE  t % D = t /\ (t + D) % D = t
  OBVIOUS

(* The time between the two, over midnight if need be, ends at the second. *)
LEMMA DayWraps ==
  ASSUME NEW in \in Times, NEW out \in Times
  PROVE  (in + Duration(in, out)) % DayLength = out
<1>1. in \in 0..(DayLength - 1) /\ out \in 0..(DayLength - 1) /\ DayLength \in Nat
  BY AttendanceAssumption DEF AttendanceAssumption
<1>2. in + Duration(in, out) = out \/ in + Duration(in, out) = out + DayLength
  BY <1>1 DEF Duration
<1> QED BY <1>1, <1>2, Remainder

(* What is worked and what is overtime make up the time since the check-in. *)
LEMMA CheckOutAddsUp ==
  ASSUME IInv, Alone, ~raced, NEW p \in Procs, NEW t \in Times, CommitCheckOut(p, t),
         rows[handler[p].row].in # None
  PROVE  (rows[handler[p].row].in + rows'[handler[p].row].worked
            + rows'[handler[p].row].overtime) % DayLength
         = rows'[handler[p].row].out
<1>1. PICK h, i : h = handler[p] /\ i = h.row
  OBVIOUS
<1>2. h.pc = "leaving" /\ h.in \in Times \cup {None}
  BY <1>1, HandlerFields DEF CommitCheckOut, IInv
<1>3. i \in Rows /\ Exists(i) /\ rows[i] \in Row
  BY <1>1, <1>2, FoundRow, RowExists DEF Found, IInv
<1>4. rows[i].in = h.in /\ h.in \in Times
  BY <1>1, <1>2 DEF Alone, InIsTrue
<1>5. PICK n : n = Duration(h.in, t)
  OBVIOUS
<1>6. PICK w, o : w = Shorter(n, WorkDay) /\ o = n - Shorter(n, WorkDay)
  OBVIOUS
<1>7. n \in Nat /\ w \in Nat /\ o \in Nat /\ w + o = n
  <2>1. DayLength \in Nat /\ WorkDay \in Nat
    BY AttendanceAssumption DEF AttendanceAssumption
  <2>2. n \in Nat /\ w \in Nat /\ o \in Nat
    BY <2>1, <1>4, <1>5, <1>6, DurationType
  <2> QED BY <2>2, <1>6
<1>8. rows' = [[[rows EXCEPT ![i].out = t] EXCEPT ![i].worked = w] EXCEPT ![i].overtime = o]
  BY <1>1, <1>4, <1>5, <1>6, AttendanceAssumption DEF CommitCheckOut
<1>9. rows'[i].out = t /\ rows'[i].worked = w /\ rows'[i].overtime = o
  BY <1>3, <1>8 DEF IInv, TypeOK, Row
<1>10. (h.in + n) % DayLength = t
  BY <1>4, <1>5, DayWraps
<1>11. h.in \in Nat
  <2>1. h.in \in 0..(DayLength - 1) /\ DayLength \in Nat
    BY <1>4, AttendanceAssumption DEF AttendanceAssumption
  <2> QED BY <2>1
<1>12. rows[i].in + rows'[i].worked + rows'[i].overtime = h.in + n
  BY <1>4, <1>7, <1>9, <1>11
<1> QED BY <1>1, <1>9, <1>10, <1>12

(* Only a check-out stores one. *)
LEMMA OnlyCheckOut ==
  ASSUME IInv, Next, NEW r \in Rows, Exists(r), rows[r].out = None, rows'[r].out # None
  PROVE  \E p \in Procs, t \in Times : CommitCheckOut(p, t) /\ handler[p].row = r
<1>1. rows[r] \in Row
  BY RowExists DEF IInv
<1>2. rows'[r] # rows[r]
  OBVIOUS
<1>3. ASSUME NEW p \in Procs, NEW t \in Times, CommitCheckOut(p, t)
      PROVE  handler[p].row = r
  <2>1. handler[p].row \in Rows
    BY <1>3, HandlerFields DEF CommitCheckOut, IInv
  <2> QED BY <1>2, <1>3, <2>1 DEF CommitCheckOut, IInv, TypeOK
<1>4. ASSUME NEW p \in Procs, NEW t \in Times, CommitCheckIn(p, t)
      PROVE  FALSE
  <2>1. CASE handler[p].row # None
    <3>1. PICK i, s : i = handler[p].row /\ s = Punctuality(handler[p].emp, t)
      OBVIOUS
    <3>2. rows' = [[rows EXCEPT ![i].in = t] EXCEPT ![i].status = s]
      BY <1>4, <2>1, <3>1 DEF CommitCheckIn
    <3>3. rows'[r].out = rows[r].out
      BY <1>1, <3>2 DEF IInv, TypeOK, Row
    <3> QED BY <3>3
  <2>2. CASE handler[p].row = None
    <3>1. PICK i \in Rows : ~Exists(i) /\ \E row : rows' = [rows EXCEPT ![i] = row]
      BY <1>4, <2>2 DEF CommitCheckIn
    <3> QED BY <1>2, <3>1 DEF IInv, TypeOK
  <2> QED BY <2>1, <2>2
<1>5. ~MarkAbsent
  <2>1. SUFFICES ASSUME MarkAbsent PROVE FALSE
    OBVIOUS
  <2>2. PICK i \in Rows : ~Exists(i) /\ \E row : rows' = [rows EXCEPT ![i] = row]
    BY <2>1 DEF MarkAbsent
  <2> QED BY <1>2, <2>2 DEF IInv, TypeOK
<1>6. ASSUME NEW i \in Rows, CloseRow(i)
      PROVE  FALSE
  <2>1. rows'[r].out = rows[r].out
    BY <1>1, <1>6 DEF CloseRow, IInv, TypeOK, Row
  <2> QED BY <2>1
<1>7. ASSUME rows' # rows, ~MarkAbsent, ~\E i \in Rows : CloseRow(i),
             ~\E p \in Procs, t \in Times : CommitCheckIn(p, t)
      PROVE  \E p \in Procs, t \in Times : CommitCheckOut(p, t)
  BY <1>7 DEF Next, ReadNonce, FindForCheckIn, FindForCheckOut, LookUpStep, SetNonce,
              StartMarking, LookForRow, LookForLeave, EndMarking, AbortMarking, StartClosing,
              EndClosing, Midnight, Approve
<1>8. rows' # rows
  BY <1>2
<1>9. PICK p \in Procs, t \in Times : CommitCheckOut(p, t)
  BY <1>4, <1>5, <1>6, <1>7, <1>8
<1> QED BY <1>3, <1>9

(* Without a race, a check-out after a check-in accounts for all the time between the   *)
(* two, as work or as overtime, over midnight if need be.                               *)
THEOREM CheckOutsAddUp == Spec => HoursAddUp
<1> DEFINE AddsUp ==
        ~raced' => \A r \in Rows :
          /\ Exists(r) /\ rows[r].out = None /\ rows[r].in # None
          /\ rows'[r].out # None
          => (rows[r].in + rows'[r].worked + rows'[r].overtime) % DayLength
                = rows'[r].out
<1>1. Init => Alone
  BY IdleIsApart DEF Init, Alone, AloneThere, FoundTheirs, InIsTrue
<1>2. ASSUME IInv, Alone, Next
      PROVE  AddsUp
  <2>1. SUFFICES ASSUME ~raced', NEW r \in Rows, Exists(r), rows[r].out = None,
                        rows[r].in # None, rows'[r].out # None
                 PROVE  (rows[r].in + rows'[r].worked + rows'[r].overtime) % DayLength
                          = rows'[r].out
    BY DEF AddsUp
  <2>2. PICK p \in Procs, t \in Times : CommitCheckOut(p, t) /\ handler[p].row = r
    BY <1>2, <2>1, OnlyCheckOut
  <2>3. ~raced
    BY <2>1, <2>2 DEF CommitCheckOut
  <2> QED BY <1>2, <2>1, <2>2, <2>3, CheckOutAddsUp
<1>3. IInv /\ Alone /\ [Next]_vars => [AddsUp]_vars
  BY <1>2
<1>4. Spec => [][AddsUp]_vars
  BY <1>1, <1>3, AlwaysIInv, StepAlone, PTL DEF Spec
<1> QED BY <1>4 DEF HoursAddUp

-----------------------------------------------------------------------------
(* AttendanceReports: who came, who did not and what was worked *)

(* As long as rows are not doubled: *)
Single == TypeOK /\ OneRowPerDay /\ ~raced

Came(e) == RowsOf(e) # {}

\* The row of one who came.
RowOf(e) == CHOOSE r \in Rows : Exists(r) /\ rows[r].emp = e

LEMMA TheirRow ==
  ASSUME Single
  PROVE  /\ \A e \in Employees : Came(e) =>
               /\ RowOf(e) \in Rows /\ Exists(RowOf(e)) /\ rows[RowOf(e)].emp = e
               /\ RowsOf(e) = {RowOf(e)}
         /\ \A r \in Rows : Exists(r) =>
               /\ rows[r] \in Row /\ rows[r].emp \in Employees
               /\ Came(rows[r].emp) /\ RowOf(rows[r].emp) = r
<1>1. ASSUME NEW e \in Employees, Came(e)
      PROVE  /\ RowOf(e) \in Rows /\ Exists(RowOf(e)) /\ rows[RowOf(e)].emp = e
             /\ RowsOf(e) = {RowOf(e)}
  <2>1. \E r \in Rows : Exists(r) /\ rows[r].emp = e
    BY <1>1 DEF Came, RowsOf
  <2>2. RowOf(e) \in Rows /\ Exists(RowOf(e)) /\ rows[RowOf(e)].emp = e
    BY <2>1 DEF RowOf
  <2> QED BY <2>2 DEF Single, OneRowPerDay, RowsOf
<1>2. ASSUME NEW r \in Rows, Exists(r)
      PROVE  /\ rows[r] \in Row /\ rows[r].emp \in Employees
             /\ Came(rows[r].emp) /\ RowOf(rows[r].emp) = r
  <2>1. rows[r] \in Row
    BY <1>2, RowExists DEF Single
  <2>2. rows[r].emp \in Employees
    BY <2>1 DEF Row
  <2>3. Came(rows[r].emp) /\ r \in RowsOf(rows[r].emp)
    BY <1>2 DEF Came, RowsOf
  <2> QED BY <1>1, <2>1, <2>2, <2>3
<1> QED BY <1>1, <1>2

LEMMA ListShows ==
  ASSUME Single, NEW f \in RollCalls(Employees)
  PROVE  \A e \in Employees :
            IF Came(e)
            THEN /\ f[e].status = rows[RowOf(e)].status
                 /\ f[e].worked = rows[RowOf(e)].worked
                 /\ f[e].overtime = rows[RowOf(e)].overtime
            ELSE /\ f[e].status = IF Excused(e) THEN "ON_LEAVE" ELSE "ABSENT"
                 /\ f[e].worked = 0 /\ f[e].overtime = 0
<1> SUFFICES ASSUME NEW e \in Employees
             PROVE  IF Came(e)
                    THEN /\ f[e].status = rows[RowOf(e)].status
                         /\ f[e].worked = rows[RowOf(e)].worked
                         /\ f[e].overtime = rows[RowOf(e)].overtime
                    ELSE /\ f[e].status = IF Excused(e) THEN "ON_LEAVE" ELSE "ABSENT"
                         /\ f[e].worked = 0 /\ f[e].overtime = 0
  OBVIOUS
<1>1. f[e] \in Entries(e)
  BY DEF RollCalls
<1>2. CASE Came(e)
  <2>1. RowsOf(e) = {RowOf(e)}
    BY <1>2, TheirRow
  <2>2. f[e] = [status |-> rows[RowOf(e)].status, worked |-> rows[RowOf(e)].worked,
                overtime |-> rows[RowOf(e)].overtime]
    BY <1>1, <2>1 DEF Entries
  <2> QED BY <1>2, <2>2
<1>3. CASE ~Came(e)
  <2>1. f[e] = Virtual(IF Excused(e) THEN "ON_LEAVE" ELSE "ABSENT")
    BY <1>1, <1>3 DEF Entries, Came
  <2> QED BY <1>3, <2>1 DEF Virtual
<1> QED BY <1>2, <1>3

(* Sets whose elements are matched one to one, and a set in two *)
LEMMA OneToOne ==
  ASSUME NEW S, IsFiniteSet(S), NEW T, NEW h, \A x \in S : h[x] \in T,
         \A x, y \in S : h[x] = h[y] => x = y, \A y \in T : \E x \in S : h[x] = y
  PROVE  Cardinality(T) = Cardinality(S)
<1>1. PICK k : k = [x \in S |-> h[x]]
  OBVIOUS
<1>2. k \in Bijection(S, T)
  BY <1>1 DEF Bijection, Injection, Surjection, IsInjective
<1> QED BY <1>2, FS_Bijection DEF ExistsBijection

LEMMA InTwo ==
  ASSUME NEW S, IsFiniteSet(S), NEW A, NEW B, S = A \cup B, A \cap B = {}
  PROVE  /\ Cardinality(S) = Cardinality(A) + Cardinality(B)
         /\ Cardinality(A) \in Nat /\ Cardinality(B) \in Nat
<1>1. IsFiniteSet(A) /\ IsFiniteSet(B)
  BY FS_Subset
<1>2. Cardinality(S) = Cardinality(A) + Cardinality(B) - Cardinality(A \cap B)
  BY <1>1, FS_Union
<1>3. Cardinality(A) \in Nat /\ Cardinality(B) \in Nat
  BY <1>1, FS_CardinalityType
<1>4. Cardinality(A \cap B) = 0
  BY FS_EmptySet
<1> QED BY <1>2, <1>3, <1>4

LEMMA SomeRows ==
  ASSUME NEW S PROVE  IsFiniteSet(With(S)) /\ CountOf(S) \in Nat
<1>1. With(S) \subseteq Rows
  BY DEF With
<1>2. IsFiniteSet(With(S))
  BY <1>1, FS_Subset, AttendanceReportsAssumption
<1> QED BY <1>2, FS_CardinalityType DEF CountOf

(* Who came with a status in S, and how many they are *)
CameWith(S) == {e \in Employees : Came(e) /\ rows[RowOf(e)].status \in S}

LEMMA CameCount == ASSUME Single, NEW S PROVE Cardinality(CameWith(S)) = CountOf(S)
<1>1. PICK h : h = [r \in With(S) |-> rows[r].emp]
  OBVIOUS
<1>2. \A r \in With(S) : r \in Rows /\ Exists(r) /\ rows[r].status \in S
  BY DEF With
<1>3. \A r \in With(S) : h[r] \in CameWith(S)
  BY <1>1, <1>2, TheirRow DEF CameWith
<1>4. \A r, s \in With(S) : h[r] = h[s] => r = s
  BY <1>1, <1>2, TheirRow
<1>5. ASSUME NEW e \in CameWith(S) PROVE \E r \in With(S) : h[r] = e
  <2>1. e \in Employees /\ Came(e) /\ rows[RowOf(e)].status \in S
    BY DEF CameWith
  <2>2. RowOf(e) \in With(S)
    BY <2>1, TheirRow DEF With
  <2> QED BY <1>1, <2>1, <2>2, TheirRow
<1> QED BY <1>3, <1>4, <1>5, SomeRows, OneToOne DEF CountOf

(* What is on the roll call for each status *)
Missing == {e \in Employees : ~Came(e) /\ ~Excused(e)}
Away == {e \in Employees : ~Came(e) /\ Excused(e)}

LEMMA ListCounts ==
  ASSUME Single, NEW f \in RollCalls(Employees)
  PROVE  /\ Cardinality(Listed(f, PresentStatuses)) = CountOf(PresentStatuses)
         /\ Cardinality(Listed(f, {"LATE"})) = CountOf({"LATE"})
         /\ Cardinality(Listed(f, {"ABSENT"})) = CountOf({"ABSENT"}) + Cardinality(Missing)
         /\ Cardinality(Listed(f, {"ON_LEAVE"})) = Cardinality(Away)
         /\ Cardinality(Listed(f, {"DID_NOT_CHECKOUT"})) = CountOf({"DID_NOT_CHECKOUT"})
<1>0. DOMAIN f = Employees
  BY DEF RollCalls
<1>1. Listed(f, PresentStatuses) = CameWith(PresentStatuses)
  BY <1>0, ListShows DEF Listed, CameWith, PresentStatuses
<1>2. Listed(f, {"LATE"}) = CameWith({"LATE"})
  BY <1>0, ListShows DEF Listed, CameWith
<1>3. Listed(f, {"ABSENT"}) = CameWith({"ABSENT"}) \cup Missing
  BY <1>0, ListShows DEF Listed, CameWith, Missing
<1>4. Listed(f, {"ON_LEAVE"}) = Away
  <2>1. ASSUME NEW e \in Employees, Came(e) PROVE rows[RowOf(e)].status # "ON_LEAVE"
    <3>1. rows[RowOf(e)] \in Row
      BY <2>1, TheirRow
    <3> QED BY <3>1 DEF Row
  <2> QED BY <1>0, <2>1, ListShows DEF Listed, Away
<1>5. Cardinality(CameWith({"ABSENT"}) \cup Missing)
        = Cardinality(CameWith({"ABSENT"})) + Cardinality(Missing)
  <2>1. CameWith({"ABSENT"}) \cup Missing \subseteq Employees
    BY DEF CameWith, Missing
  <2>2. CameWith({"ABSENT"}) \cap Missing = {}
    BY DEF CameWith, Missing
  <2>3. IsFiniteSet(CameWith({"ABSENT"}) \cup Missing)
    BY <2>1, FS_Subset, AttendanceReportsAssumption
  <2> QED BY <2>2, <2>3, InTwo
<1>6. Listed(f, {"DID_NOT_CHECKOUT"}) = CameWith({"DID_NOT_CHECKOUT"})
  BY <1>0, ListShows DEF Listed, CameWith
<1> QED BY <1>1, <1>2, <1>3, <1>4, <1>5, <1>6, CameCount

(* Everyone came and is present, absent or unfinished, or is missing, or away.          *)
LEMMA Everybody ==
  ASSUME Single
  PROVE  /\ Cardinality(Employees) = CountOf(PresentStatuses) + CountOf({"ABSENT"})
               + CountOf({"DID_NOT_CHECKOUT"}) + Cardinality(Missing) + Cardinality(Away)
         /\ Cardinality(Employees) \in Nat
         /\ Cardinality(Missing) \in Nat /\ Cardinality(Away) \in Nat
<1> DEFINE P == CameWith(PresentStatuses)
           A == CameWith({"ABSENT"})
           D == CameWith({"DID_NOT_CHECKOUT"})
<1>1. Employees = P \cup (A \cup (D \cup (Missing \cup Away)))
  <2>1. ASSUME NEW e \in Employees
        PROVE  e \in P \/ e \in A \/ e \in D \/ e \in Missing \/ e \in Away
    <3>1. CASE Came(e)
      <4>1. rows[RowOf(e)] \in Row
        BY <3>1, TheirRow
      <4>2. rows[RowOf(e)].status \in {"PRESENT", "LATE", "ABSENT", "DID_NOT_CHECKOUT"}
        BY <4>1 DEF Row
      <4> QED BY <3>1, <4>2 DEF CameWith, PresentStatuses
    <3>2. CASE ~Came(e)
      BY <3>2 DEF Missing, Away
    <3> QED BY <3>1, <3>2
  <2>2. /\ P \subseteq Employees /\ A \subseteq Employees /\ D \subseteq Employees
        /\ Missing \subseteq Employees /\ Away \subseteq Employees
    BY DEF CameWith, Missing, Away
  <2> QED BY <2>1, <2>2
<1>2. /\ P \cap (A \cup (D \cup (Missing \cup Away))) = {}
      /\ A \cap (D \cup (Missing \cup Away)) = {}
      /\ D \cap (Missing \cup Away) = {}
      /\ Missing \cap Away = {}
  BY DEF CameWith, Missing, Away, PresentStatuses
<1>3. /\ Cardinality(P) = CountOf(PresentStatuses)
      /\ Cardinality(A) = CountOf({"ABSENT"})
      /\ Cardinality(D) = CountOf({"DID_NOT_CHECKOUT"})
  BY CameCount
<1>4. /\ CountOf(PresentStatuses) \in Nat /\ CountOf({"ABSENT"}) \in Nat
      /\ CountOf({"DID_NOT_CHECKOUT"}) \in Nat
  BY SomeRows
<1> HIDE DEF P, A, D
<1>5. IsFiniteSet(Employees)
  BY AttendanceReportsAssumption
<1>6. /\ IsFiniteSet(A \cup (D \cup (Missing \cup Away)))
      /\ IsFiniteSet(D \cup (Missing \cup Away))
      /\ IsFiniteSet(Missing \cup Away)
  BY <1>1, <1>5, FS_Subset
<1>7. /\ Cardinality(Employees) = Cardinality(P) + Cardinality(A \cup (D \cup (Missing \cup Away)))
  BY <1>1, <1>2, <1>5, InTwo
<1>8. Cardinality(A \cup (D \cup (Missing \cup Away)))
        = Cardinality(A) + Cardinality(D \cup (Missing \cup Away))
  BY <1>2, <1>6, InTwo
<1>9. Cardinality(D \cup (Missing \cup Away)) = Cardinality(D) + Cardinality(Missing \cup Away)
  BY <1>2, <1>6, InTwo
<1>10. /\ Cardinality(Missing \cup Away) = Cardinality(Missing) + Cardinality(Away)
       /\ Cardinality(Missing) \in Nat /\ Cardinality(Away) \in Nat
  BY <1>2, <1>6, InTwo
<1>11. Cardinality(Employees) \in Nat
  BY <1>5, FS_CardinalityType
<1> QED BY <1>3, <1>4, <1>7, <1>8, <1>9, <1>10, <1>11

(* What was worked: the sum over the rows, and over the employees of the sum over    *)
(* theirs, of which there is one if they came.                                       *)
AllRows == {r \in Rows : Exists(r)}

LEMMA TheirSum ==
  ASSUME Single, NEW w, \A r \in AllRows : w[r] \in Int,
         NEW part, \A e \in Employees : part[e] = IF Came(e) THEN w[RowOf(e)] ELSE 0
  PROVE  SumFunctionOnSet(w, AllRows) = SumFunctionOnSet(part, Employees)
<1>1. PICK h : h = [r \in AllRows |-> rows[r].emp]
  OBVIOUS
<1>2. IsFiniteSet(AllRows) /\ IsFiniteSet(Employees)
  BY FS_Subset, AttendanceReportsAssumption DEF AllRows
<1>3. \A r \in AllRows : h[r] \in Employees
  BY <1>1, TheirRow DEF AllRows
<1>4. ASSUME NEW e \in Employees
      PROVE  part[e] = SumFunctionOnSet(w, Part(AllRows, h, e))
  <2>1. Part(AllRows, h, e) = RowsOf(e)
    BY <1>1 DEF Part, AllRows, RowsOf
  <2>2. CASE Came(e)
    <3>1. PICK r : r = RowOf(e)
      OBVIOUS
    <3>2. RowsOf(e) = {r} /\ r \in AllRows
      BY <2>2, <3>1, TheirRow DEF AllRows
    <3>3. IsFiniteSet({r}) /\ {r} \ {r} = {} /\ \A x \in {r} : w[x] \in Int
      BY <3>2, FS_Singleton
    <3>4. SumFunctionOnSet(w, {r}) = w[r] + SumFunctionOnSet(w, {r} \ {r})
      BY <3>3, SumRemove
    <3>5. SumFunctionOnSet(w, {r}) = w[r]
      BY <3>2, <3>3, <3>4, SumEmpty
    <3> QED BY <2>1, <2>2, <3>1, <3>2, <3>5
  <2>3. CASE ~Came(e)
    BY <2>1, <2>3, SumEmpty DEF Came
  <2> QED BY <2>2, <2>3
<1> QED BY <1>2, <1>3, <1>4, SumOfParts

(* The numbers of the rows, and those of one employee *)
LEMMA SumOver ==
  ASSUME NEW S, IsFiniteSet(S), NEW f, DOMAIN f = S, NEW g, \A x \in S : f[x] = g[x]
  PROVE  SumFunction(f) = SumFunctionOnSet(g, S)
  BY SumSame DEF SumFunction

LEMMA AllStatuses == ASSUME Single PROVE With(Statuses) = AllRows
<1>1. \A r \in AllRows : rows[r].status \in Statuses
  <2>1. \A r \in AllRows : rows[r] \in Row
    BY TheirRow DEF AllRows
  <2> QED BY <2>1 DEF Row, Statuses, PresentStatuses
<1> QED BY <1>1 DEF With, AllRows

LEMMA HoursOfAll ==
  ASSUME Single, NEW f \in RollCalls(Employees)
  PROVE  /\ RollCallSummary(f).totalHoursWorked = Worked(AllRows)
         /\ RollCallSummary(f).totalOvertimeHours = Overtime(AllRows)
<1>1. PICK w, o : /\ w = [r \in AllRows |-> rows[r].worked]
                  /\ o = [r \in AllRows |-> rows[r].overtime]
  OBVIOUS
<1>2. PICK u, v : /\ u = [e \in Employees |-> f[e].worked]
                  /\ v = [e \in Employees |-> f[e].overtime]
  OBVIOUS
<1>3. \A r \in AllRows : w[r] \in Int /\ o[r] \in Int
  <2>1. \A r \in AllRows : rows[r] \in Row
    BY TheirRow DEF AllRows
  <2> QED BY <1>1, <2>1, AttendanceAssumption DEF Row
<1>4. \A e \in Employees : Came(e) => RowOf(e) \in AllRows
  BY TheirRow DEF AllRows
<1>5. \A e \in Employees : /\ u[e] = IF Came(e) THEN w[RowOf(e)] ELSE 0
                           /\ v[e] = IF Came(e) THEN o[RowOf(e)] ELSE 0
  BY <1>1, <1>2, <1>4, ListShows
<1>6. /\ SumFunctionOnSet(w, AllRows) = SumFunctionOnSet(u, Employees)
      /\ SumFunctionOnSet(o, AllRows) = SumFunctionOnSet(v, Employees)
  BY <1>3, <1>5, TheirSum
<1>7. /\ Worked(AllRows) = SumFunctionOnSet(w, AllRows)
      /\ Overtime(AllRows) = SumFunctionOnSet(o, AllRows)
  BY <1>1 DEF Worked, Overtime, SumFunction
<1>8. /\ RollCallSummary(f).totalHoursWorked = SumFunctionOnSet(u, Employees)
      /\ RollCallSummary(f).totalOvertimeHours = SumFunctionOnSet(v, Employees)
  <2>1. DOMAIN f = Employees
    BY DEF RollCalls
  <2> QED BY <1>2, <2>1 DEF RollCallSummary, SumFunction
<1> QED BY <1>6, <1>7, <1>8

(* The own summaries *)
LEMMA OwnRows == ASSUME Single, NEW e \in Employees PROVE MeAttendance(e, Statuses) = RowsOf(e)
  BY AllStatuses DEF MeAttendance, AllRows, RowsOf

LEMMA OwnDays ==
  ASSUME Single, NEW m, m = [e \in Employees |-> MeSummary(e, Statuses)]
  PROVE  SumFunction([e \in Employees |-> m[e].daysPresent]) = CountOf(PresentStatuses)
<1>1. PICK h : h = [r \in With(PresentStatuses) |-> rows[r].emp]
  OBVIOUS
<1>2. PICK d : d = [e \in Employees |-> m[e].daysPresent]
  OBVIOUS
<1>3. \A r \in With(PresentStatuses) : h[r] \in Employees
  BY <1>1, TheirRow DEF With
<1>4. ASSUME NEW e \in Employees
      PROVE  d[e] = Cardinality(Part(With(PresentStatuses), h, e))
  <2>1. d[e] = Cardinality({r \in RowsOf(e) : rows[r].status \in PresentStatuses})
    BY <1>2, OwnRows DEF MeSummary
  <2>2. {r \in RowsOf(e) : rows[r].status \in PresentStatuses} = Part(With(PresentStatuses), h, e)
    BY <1>1 DEF Part, With, RowsOf
  <2> QED BY <2>1, <2>2
<1>5. Cardinality(With(PresentStatuses)) = SumFunctionOnSet(d, Employees)
  BY <1>3, <1>4, SomeRows, AttendanceReportsAssumption, CountOfParts
<1> QED BY <1>2, <1>5 DEF SumFunction, CountOf

LEMMA OwnHours ==
  ASSUME Single, NEW m, m = [e \in Employees |-> MeSummary(e, Statuses)]
  PROVE  /\ SumFunction([e \in Employees |-> m[e].totalHoursWorked]) = Worked(AllRows)
         /\ SumFunction([e \in Employees |-> m[e].totalOvertimeHours]) = Overtime(AllRows)
<1>1. PICK w, o : /\ w = [r \in AllRows |-> rows[r].worked]
                  /\ o = [r \in AllRows |-> rows[r].overtime]
  OBVIOUS
<1>2. PICK u, v : /\ u = [e \in Employees |-> m[e].totalHoursWorked]
                  /\ v = [e \in Employees |-> m[e].totalOvertimeHours]
  OBVIOUS
<1>3. \A r \in AllRows : w[r] \in Int /\ o[r] \in Int
  <2>1. \A r \in AllRows : rows[r] \in Row
    BY TheirRow DEF AllRows
  <2> QED BY <1>1, <2>1, AttendanceAssumption DEF Row
<1>4. PICK h : h = [r \in AllRows |-> rows[r].emp]
  OBVIOUS
<1>5. IsFiniteSet(AllRows) /\ IsFiniteSet(Employees)
  BY FS_Subset, AttendanceReportsAssumption DEF AllRows
<1>6. \A r \in AllRows : h[r] \in Employees
  BY <1>4, TheirRow DEF AllRows
<1>7. ASSUME NEW e \in Employees
      PROVE  /\ u[e] = SumFunctionOnSet(w, Part(AllRows, h, e))
             /\ v[e] = SumFunctionOnSet(o, Part(AllRows, h, e))
  <2>1. PICK T : T = RowsOf(e)
    OBVIOUS
  <2>2. T = Part(AllRows, h, e)
    BY <1>4, <2>1 DEF Part, AllRows, RowsOf
  <2>3. T \subseteq AllRows /\ IsFiniteSet(T)
    BY <1>5, <2>1, FS_Subset DEF AllRows, RowsOf
  <2>4. u[e] = Worked(T) /\ v[e] = Overtime(T)
    BY <1>2, <2>1, OwnRows DEF MeSummary
  <2>5. PICK wt, ot : /\ wt = [r \in T |-> rows[r].worked]
                      /\ ot = [r \in T |-> rows[r].overtime]
    OBVIOUS
  <2>6. /\ DOMAIN wt = T /\ \A r \in T : wt[r] = w[r]
        /\ DOMAIN ot = T /\ \A r \in T : ot[r] = o[r]
    BY <1>1, <2>3, <2>5
  <2>7. SumFunction(wt) = SumFunctionOnSet(w, T) /\ SumFunction(ot) = SumFunctionOnSet(o, T)
    BY <2>3, <2>6, SumOver
  <2>8. Worked(T) = SumFunction(wt) /\ Overtime(T) = SumFunction(ot)
    BY <2>5 DEF Worked, Overtime
  <2> QED BY <2>2, <2>4, <2>7, <2>8
<1>8. /\ SumFunctionOnSet(w, AllRows) = SumFunctionOnSet(u, Employees)
      /\ SumFunctionOnSet(o, AllRows) = SumFunctionOnSet(v, Employees)
  BY <1>3, <1>5, <1>6, <1>7, SumOfParts
<1>9. /\ Worked(AllRows) = SumFunctionOnSet(w, AllRows)
      /\ Overtime(AllRows) = SumFunctionOnSet(o, AllRows)
  BY <1>1 DEF Worked, Overtime, SumFunction
<1> QED BY <1>2, <1>8, <1>9 DEF SumFunction

LEMMA PresentOnes ==
  ASSUME Single
  PROVE  /\ CountOf({"PRESENT", "EARLY_OUT"}) + CountOf({"LATE"}) = CountOf(PresentStatuses)
         /\ CountOf({"PRESENT", "LATE"}) = CountOf(PresentStatuses)
<1>1. /\ With(PresentStatuses) = With({"PRESENT", "EARLY_OUT"}) \cup With({"LATE"})
      /\ With({"PRESENT", "EARLY_OUT"}) \cap With({"LATE"}) = {}
  BY DEF With, PresentStatuses
<1>2. With({"PRESENT", "LATE"}) = With(PresentStatuses)
  <2>1. \A r \in Rows : Exists(r) => rows[r].status # "EARLY_OUT"
    BY TheirRow DEF Row
  <2> QED BY <2>1 DEF With, PresentStatuses
<1>3. IsFiniteSet(With(PresentStatuses))
  BY SomeRows
<1>4. Cardinality(With(PresentStatuses))
        = Cardinality(With({"PRESENT", "EARLY_OUT"})) + Cardinality(With({"LATE"}))
  BY <1>1, <1>3, InTwo
<1> QED BY <1>2, <1>4 DEF CountOf

(* A list in two: who is on the roll, and who is not                                   *)
Joined(D, f, g) == [e \in Employees |-> IF e \in D THEN f[e] ELSE g[e]]

LEMMA SumOfTwo ==
  ASSUME NEW S, IsFiniteSet(S), NEW A, NEW B, S = A \cup B, A \cap B = {},
         NEW w, \A x \in S : w[x] \in Int
  PROVE  SumFunctionOnSet(w, S) = SumFunctionOnSet(w, A) + SumFunctionOnSet(w, B)
<1>1. PICK h : h = [x \in S |-> IF x \in A THEN 1 ELSE 2]
  OBVIOUS
<1>2. PICK part : part = [b \in {1, 2} |-> SumFunctionOnSet(w, Part(S, h, b))]
  OBVIOUS
<1>3. Part(S, h, 1) = A /\ Part(S, h, 2) = B
  BY <1>1 DEF Part
<1>4. IsFiniteSet(A) /\ IsFiniteSet(B)
  BY FS_Subset
<1>5. /\ part[1] = SumFunctionOnSet(w, A) /\ part[1] \in Int
      /\ part[2] = SumFunctionOnSet(w, B) /\ part[2] \in Int
  BY <1>2, <1>3, <1>4, SumInt
<1>6. IsFiniteSet({2}) /\ IsFiniteSet({1, 2})
  <2>1. IsFiniteSet({2})
    BY FS_Singleton
  <2>2. IsFiniteSet({2} \cup {1})
    BY <2>1, FS_AddElement
  <2>3. {2} \cup {1} = {1, 2}
    OBVIOUS
  <2> QED BY <2>1, <2>2, <2>3
<1>7. SumFunctionOnSet(w, S) = SumFunctionOnSet(part, {1, 2})
  <2>1. \A x \in S : h[x] \in {1, 2}
    BY <1>1
  <2>2. \A b \in {1, 2} : part[b] = SumFunctionOnSet(w, Part(S, h, b))
    BY <1>2
  <2> QED BY <1>6, <2>1, <2>2, SumOfParts
<1>8. SumFunctionOnSet(part, {1, 2}) = part[1] + SumFunctionOnSet(part, {2})
  <2>1. {1, 2} \ {1} = {2}
    OBVIOUS
  <2>2. \A b \in {1, 2} : part[b] \in Int
    BY <1>5
  <2>3. \A b \in {1, 2} :
          SumFunctionOnSet(part, {1, 2}) = part[b] + SumFunctionOnSet(part, {1, 2} \ {b})
    BY <1>6, <2>2, SumRemove
  <2>4. SumFunctionOnSet(part, {1, 2}) = part[1] + SumFunctionOnSet(part, {1, 2} \ {1})
    BY <2>3
  <2> QED BY ONLY <2>1, <2>4
<1>9. SumFunctionOnSet(part, {2}) = part[2]
  <2>1. {2} \ {2} = {}
    OBVIOUS
  <2>2. \A b \in {2} : part[b] \in Int
    BY <1>5
  <2>3. \A b \in {2} : SumFunctionOnSet(part, {2}) = part[b] + SumFunctionOnSet(part, {2} \ {b})
    BY <1>6, <2>2, SumRemove
  <2>4. SumFunctionOnSet(part, {2}) = part[2] + SumFunctionOnSet(part, {2} \ {2})
    BY <2>3
  <2>5. SumFunctionOnSet(part, {2}) = part[2] + SumFunctionOnSet(part, {})
    BY ONLY <2>1, <2>4
  <2> QED BY <1>5, <2>5, SumEmpty
<1> QED BY ONLY <1>5, <1>7, <1>8, <1>9

LEMMA JoinedList ==
  ASSUME NEW D, D \subseteq Employees,
         NEW f \in RollCalls(D), NEW g \in RollCalls(Employees \ D)
  PROVE  Joined(D, f, g) \in RollCalls(Employees)
<1>1. \A e \in Employees : Joined(D, f, g)[e] \in Entries(e)
  BY DEF Joined, RollCalls
<1>2. DOMAIN Joined(D, f, g) = Employees /\ Joined(D, f, g) = [e \in Employees |-> Joined(D, f, g)[e]]
  BY DEF Joined
<1>3. \A e \in Employees : Joined(D, f, g)[e] \in UNION {Entries(x) : x \in Employees}
  BY <1>1
<1> QED BY <1>1, <1>2, <1>3 DEF RollCalls

LEMMA ListedInTwo ==
  ASSUME NEW D, D \subseteq Employees, NEW S,
         NEW f \in RollCalls(D), NEW g \in RollCalls(Employees \ D)
  PROVE  /\ Cardinality(Listed(Joined(D, f, g), S))
              = Cardinality(Listed(f, S)) + Cardinality(Listed(g, S))
         /\ Cardinality(Listed(f, S)) \in Nat /\ Cardinality(Listed(g, S)) \in Nat
<1>1. DOMAIN f = D /\ DOMAIN g = Employees \ D /\ DOMAIN Joined(D, f, g) = Employees
  BY DEF RollCalls, Joined
<1>2. Listed(Joined(D, f, g), S) = Listed(f, S) \cup Listed(g, S)
  BY <1>1 DEF Listed, Joined
<1>3. Listed(f, S) \cap Listed(g, S) = {}
  BY <1>1 DEF Listed
<1>4. IsFiniteSet(Listed(Joined(D, f, g), S))
  <2>1. Listed(Joined(D, f, g), S) \subseteq Employees
    BY <1>1 DEF Listed
  <2> QED BY <2>1, FS_Subset, AttendanceReportsAssumption
<1> QED BY <1>2, <1>3, <1>4, InTwo

LEMMA HoursInTwo ==
  ASSUME Single, NEW D, D \subseteq Employees,
         NEW f \in RollCalls(D), NEW g \in RollCalls(Employees \ D)
  PROVE  /\ RollCallSummary(Joined(D, f, g)).totalHoursWorked
              = RollCallSummary(f).totalHoursWorked + RollCallSummary(g).totalHoursWorked
<1>1. PICK k : k = Joined(D, f, g)
  OBVIOUS
<1>2. k \in RollCalls(Employees)
  BY <1>1, JoinedList
<1>3. /\ DOMAIN f = D /\ DOMAIN g = Employees \ D /\ DOMAIN k = Employees
      /\ \A e \in D : k[e] = f[e]
      /\ \A e \in Employees \ D : k[e] = g[e]
  BY <1>1 DEF RollCalls, Joined
<1>4. PICK w, u, v : /\ w = [e \in Employees |-> k[e].worked]
                     /\ u = [e \in D |-> f[e].worked]
                     /\ v = [e \in Employees \ D |-> g[e].worked]
  OBVIOUS
<1>5. \A e \in Employees : w[e] \in Int
  <2>1. ASSUME NEW e \in Employees PROVE k[e].worked \in Int
    <3>1. CASE Came(e)
      <4>1. rows[RowOf(e)] \in Row
        BY <3>1, TheirRow
      <4> QED BY <1>2, <3>1, <4>1, ListShows, AttendanceAssumption DEF Row
    <3>2. CASE ~Came(e)
      BY <1>2, <3>2, ListShows
    <3> QED BY <3>1, <3>2
  <2> QED BY <1>4, <2>1
<1>6. IsFiniteSet(Employees) /\ IsFiniteSet(D) /\ IsFiniteSet(Employees \ D)
  BY FS_Subset, AttendanceReportsAssumption
<1>7. Employees = D \cup (Employees \ D) /\ D \cap (Employees \ D) = {}
  OBVIOUS
<1>8. SumFunctionOnSet(w, Employees)
        = SumFunctionOnSet(w, D) + SumFunctionOnSet(w, Employees \ D)
  BY <1>5, <1>6, <1>7, SumOfTwo
<1>9. SumFunctionOnSet(w, D) = SumFunctionOnSet(u, D)
  BY <1>3, <1>4, <1>6, SumSame
<1>10. SumFunctionOnSet(w, Employees \ D) = SumFunctionOnSet(v, Employees \ D)
  BY <1>3, <1>4, <1>6, SumSame
<1>11. /\ RollCallSummary(k).totalHoursWorked = SumFunctionOnSet(w, Employees)
       /\ RollCallSummary(f).totalHoursWorked = SumFunctionOnSet(u, D)
       /\ RollCallSummary(g).totalHoursWorked = SumFunctionOnSet(v, Employees \ D)
  BY <1>3, <1>4 DEF RollCallSummary, SumFunction
<1> QED BY <1>1, <1>8, <1>9, <1>10, <1>11

(* Everyone on a list is present, absent, on leave or unfinished.                      *)
LEMMA ListIsWhole ==
  ASSUME Single, NEW D, D \subseteq Employees, NEW f \in RollCalls(D)
  PROVE  Cardinality(D) = Cardinality(Listed(f, PresentStatuses))
            + Cardinality(Listed(f, {"ABSENT"})) + Cardinality(Listed(f, {"ON_LEAVE"}))
            + Cardinality(Listed(f, {"DID_NOT_CHECKOUT"}))
<1> DEFINE P == Listed(f, PresentStatuses)
           A == Listed(f, {"ABSENT"})
           L == Listed(f, {"ON_LEAVE"})
           U == Listed(f, {"DID_NOT_CHECKOUT"})
<1>1. DOMAIN f = D
  BY DEF RollCalls
<1>2. ASSUME NEW e \in D
      PROVE  f[e].status \in PresentStatuses \cup {"ABSENT", "ON_LEAVE", "DID_NOT_CHECKOUT"}
  <2>1. f[e] \in Entries(e)
    BY DEF RollCalls
  <2>2. CASE Came(e)
    <3>1. RowsOf(e) = {RowOf(e)}
      BY <2>2, TheirRow
    <3>2. f[e].status = rows[RowOf(e)].status
      BY <2>1, <3>1 DEF Entries
    <3>3. rows[RowOf(e)] \in Row
      BY <2>2, TheirRow
    <3> QED BY <3>2, <3>3 DEF Row, PresentStatuses
  <2>3. CASE ~Came(e)
    <3>1. f[e] = Virtual(IF Excused(e) THEN "ON_LEAVE" ELSE "ABSENT")
      BY <2>1, <2>3 DEF Entries, Came
    <3> QED BY <3>1 DEF Virtual
  <2> QED BY <2>2, <2>3
<1>3. D = P \cup (A \cup (L \cup U))
  BY <1>1, <1>2 DEF Listed
<1>4. P \cap (A \cup (L \cup U)) = {} /\ A \cap (L \cup U) = {} /\ L \cap U = {}
  BY DEF Listed, PresentStatuses
<1> HIDE DEF P, A, L, U
<1>5. IsFiniteSet(D)
  BY FS_Subset, AttendanceReportsAssumption
<1>6. IsFiniteSet(A \cup (L \cup U)) /\ IsFiniteSet(L \cup U)
  BY <1>3, <1>5, FS_Subset
<1>7. /\ Cardinality(D) = Cardinality(P) + Cardinality(A \cup (L \cup U))
      /\ Cardinality(P) \in Nat
  BY <1>3, <1>4, <1>5, InTwo
<1>8. /\ Cardinality(A \cup (L \cup U)) = Cardinality(A) + Cardinality(L \cup U)
      /\ Cardinality(A) \in Nat
  BY <1>4, <1>6, InTwo
<1>9. /\ Cardinality(L \cup U) = Cardinality(L) + Cardinality(U)
      /\ Cardinality(L) \in Nat /\ Cardinality(U) \in Nat
  BY <1>4, <1>6, InTwo
<1>10. Cardinality(D) = Cardinality(P) + Cardinality(A) + Cardinality(L) + Cardinality(U)
  BY <1>7, <1>8, <1>9
<1> QED BY <1>10 DEF P, A, L, U

(* The figures of a roll call: what every report is held against                        *)
LEMMA Told ==
  ASSUME NEW f
  PROVE  /\ RollCallSummary(f).daysPresent = Cardinality(Listed(f, PresentStatuses))
         /\ RollCallSummary(f).lateCount = Cardinality(Listed(f, {"LATE"}))
         /\ RollCallSummary(f).daysAbsent = Cardinality(Listed(f, {"ABSENT"}))
         /\ RollCallSummary(f).daysOnLeave = Cardinality(Listed(f, {"ON_LEAVE"}))
  BY DEF RollCallSummary

(* Those on the roll and those off it make up all the rows and leaves.                  *)
LEMMA TwoRolls ==
  ASSUME Single, NEW D, D \subseteq Employees,
         NEW f \in RollCalls(D), NEW g \in RollCalls(Employees \ D),
         NEW s, s = RollCallSummary(f), NEW o, o = RollCallSummary(g),
         NEW u, u = Cardinality(Listed(f, {"DID_NOT_CHECKOUT"})),
         NEW v, v = Cardinality(Listed(g, {"DID_NOT_CHECKOUT"}))
  PROVE  /\ s.daysPresent \in Nat /\ s.daysAbsent \in Nat /\ s.daysOnLeave \in Nat
         /\ o.daysPresent \in Nat /\ o.daysAbsent \in Nat /\ o.daysOnLeave \in Nat
         /\ u \in Nat /\ v \in Nat
         /\ Cardinality(D) = s.daysPresent + s.daysAbsent + s.daysOnLeave + u
         /\ s.daysPresent + o.daysPresent = CountOf(PresentStatuses)
         /\ s.lateCount + o.lateCount = CountOf({"LATE"})
         /\ s.daysAbsent + o.daysAbsent = CountOf({"ABSENT"}) + Cardinality(Missing)
         /\ s.daysOnLeave + o.daysOnLeave = Cardinality(Away)
         /\ u + v = CountOf({"DID_NOT_CHECKOUT"})
         /\ s.totalHoursWorked + o.totalHoursWorked = Worked(AllRows)
<1>1. PICK k : k = Joined(D, f, g)
  OBVIOUS
<1>2. k \in RollCalls(Employees)
  BY <1>1, JoinedList
<1>3. \A S : /\ Cardinality(Listed(k, S)) = Cardinality(Listed(f, S)) + Cardinality(Listed(g, S))
             /\ Cardinality(Listed(f, S)) \in Nat /\ Cardinality(Listed(g, S)) \in Nat
  BY <1>1, ListedInTwo
<1>4. /\ s.daysPresent = Cardinality(Listed(f, PresentStatuses))
      /\ s.lateCount = Cardinality(Listed(f, {"LATE"}))
      /\ s.daysAbsent = Cardinality(Listed(f, {"ABSENT"}))
      /\ s.daysOnLeave = Cardinality(Listed(f, {"ON_LEAVE"}))
  BY Told
<1>5. /\ o.daysPresent = Cardinality(Listed(g, PresentStatuses))
      /\ o.lateCount = Cardinality(Listed(g, {"LATE"}))
      /\ o.daysAbsent = Cardinality(Listed(g, {"ABSENT"}))
      /\ o.daysOnLeave = Cardinality(Listed(g, {"ON_LEAVE"}))
  BY Told
<1>6. Cardinality(D) = s.daysPresent + s.daysAbsent + s.daysOnLeave + u
  BY <1>4, ListIsWhole
<1>7. s.totalHoursWorked + o.totalHoursWorked = Worked(AllRows)
  BY <1>1, <1>2, HoursInTwo, HoursOfAll
<1> QED BY <1>2, <1>3, <1>4, <1>5, <1>6, <1>7, ListCounts

LEMMA AwayIsLeave == LeaveDays = Cardinality(Away)
<1>1. {e \in Employees : Excused(e) /\ RowsOf(e) = {}} = Away
  BY DEF Away, Came
<1> QED BY <1>1 DEF LeaveDays

(* Who is missing for a report that expects so many days of work, explained by the      *)
(* roll call of those in D and by that of the others                                    *)
Explained(n, absent) == IF n > absent THEN n ELSE absent

LEMMA AbsencesAre ==
  ASSUME Single, NEW D, D \subseteq Employees,
         NEW f \in RollCalls(D), NEW g \in RollCalls(Employees \ D), NEW expected \in Nat
  PROVE  Absences(expected)
           = Explained(RollCallSummary(f).daysAbsent
                         + Cardinality(Listed(f, {"DID_NOT_CHECKOUT"}))
                         + (expected - Cardinality(D))
                         - (RollCallSummary(g).daysPresent + RollCallSummary(g).daysOnLeave),
                       CountOf({"ABSENT"}))
<1>1. PICK s, o, u, v : /\ s = RollCallSummary(f) /\ o = RollCallSummary(g)
                        /\ u = Cardinality(Listed(f, {"DID_NOT_CHECKOUT"}))
                        /\ v = Cardinality(Listed(g, {"DID_NOT_CHECKOUT"}))
  OBVIOUS
<1>2. PICK present, absent, leave, roll :
        /\ present = CountOf(PresentStatuses) /\ absent = CountOf({"ABSENT"})
        /\ leave = LeaveDays /\ roll = Cardinality(D)
  OBVIOUS
<1>3. /\ s.daysPresent \in Nat /\ s.daysAbsent \in Nat /\ s.daysOnLeave \in Nat
      /\ o.daysPresent \in Nat /\ o.daysOnLeave \in Nat /\ u \in Nat
      /\ roll = s.daysPresent + s.daysAbsent + s.daysOnLeave + u
      /\ s.daysPresent + o.daysPresent = present
      /\ s.daysOnLeave + o.daysOnLeave = leave
  BY <1>1, <1>2, TwoRolls, AwayIsLeave
<1>4. absent \in Nat
  BY <1>2, SomeRows
<1>5. PICK left : left = expected - present - leave - absent
  OBVIOUS
<1>6. PICK n : n = s.daysAbsent + u + (expected - roll) - (o.daysPresent + o.daysOnLeave)
  OBVIOUS
<1>7. n = left + absent /\ left \in Int /\ n \in Int
  BY ONLY <1>3, <1>4, <1>5, <1>6, expected \in Nat
<1>8. Absences(expected) = absent + (IF left > 0 THEN left ELSE 0)
  BY <1>2, <1>5 DEF Absences
<1>9. Absences(expected) = Explained(n, absent)
  BY ONLY <1>4, <1>7, <1>8 DEF Explained
<1> QED BY <1>1, <1>2, <1>6, <1>9

(* The figures that do not depend on who is expected                                    *)
LEMMA Dashboard ==
  ASSUME Single, NEW D, D \subseteq Employees,
         NEW f \in RollCalls(D), NEW g \in RollCalls(Employees \ D),
         NEW s, s = RollCallSummary(f), NEW o, o = RollCallSummary(g),
         NEW u, u = Cardinality(Listed(f, {"DID_NOT_CHECKOUT"})),
         NEW v, v = Cardinality(Listed(g, {"DID_NOT_CHECKOUT"}))
  PROVE  /\ Stats.presentToday = s.daysPresent + o.daysPresent
         /\ Stats.absentToday <= (s.daysAbsent + u) + (o.daysAbsent + v)
         /\ TodayState.presentCount = s.daysPresent + o.daysPresent
         /\ TrendItem.present = s.daysPresent + o.daysPresent
         /\ TrendItem.late = s.lateCount + o.lateCount
         /\ TrendItem.absent <= s.daysAbsent + o.daysAbsent
<1>1. PICK present, late, absent, unfinished, missing, away, all, on :
        /\ present = CountOf(PresentStatuses) /\ late = CountOf({"LATE"})
        /\ absent = CountOf({"ABSENT"}) /\ unfinished = CountOf({"DID_NOT_CHECKOUT"})
        /\ missing = Cardinality(Missing) /\ away = Cardinality(Away)
        /\ all = Cardinality(Employees) /\ on = Cardinality(onLeave)
  OBVIOUS
<1>2. /\ s.daysPresent + o.daysPresent = present
      /\ s.lateCount + o.lateCount = late
      /\ s.daysAbsent + o.daysAbsent = absent + missing
      /\ u + v = unfinished
      /\ s.daysAbsent \in Nat /\ o.daysAbsent \in Nat /\ u \in Nat /\ v \in Nat
  BY <1>1, TwoRolls
<1>3. /\ all = present + absent + unfinished + missing + away
      /\ present \in Nat /\ absent \in Nat /\ unfinished \in Nat
      /\ missing \in Nat /\ away \in Nat /\ all \in Nat
  BY <1>1, Everybody, SomeRows
<1>4. on \in Nat /\ away <= on
  <2>1. Away \subseteq onLeave /\ onLeave \subseteq Employees
    BY DEF Away, Excused, Single, TypeOK
  <2>2. IsFiniteSet(onLeave)
    BY <2>1, FS_Subset, AttendanceReportsAssumption
  <2> QED BY <1>1, <2>1, <2>2, FS_Subset, FS_CardinalityType
<1>5. Stats.presentToday = present
  BY <1>1 DEF Stats
<1>6. Stats.absentToday = IF all - present - on > 0 THEN all - present - on ELSE 0
  BY <1>1 DEF Stats
<1>7. Stats.absentToday <= absent + missing + unfinished
  BY <1>3, <1>4, <1>6
<1>8. TodayState.presentCount = present
  BY <1>1, PresentOnes DEF TodayState
<1>9. TrendItem.present = present /\ TrendItem.late = late /\ TrendItem.absent = absent
  BY <1>1 DEF TrendItem
<1>10. (s.daysAbsent + u) + (o.daysAbsent + v) = absent + missing + unfinished
  BY ONLY <1>2
<1> QED BY ONLY <1>2, <1>3, <1>5, <1>7, <1>8, <1>9, <1>10

LEMMA ReportsAre == ASSUME TypeOK, OneRowPerDay PROVE ReportsAgree
<1> SUFFICES ASSUME ~raced, NEW statusOf \in [Employees -> EmployeeStatus],
                    NEW f \in RollCalls(OnRoll(statusOf)),
                    NEW g \in RollCalls(Employees \ OnRoll(statusOf))
             PROVE  LET s == RollCallSummary(f)
                        o == RollCallSummary(g)
                        unfinished(h) == Cardinality(Listed(h, {"DID_NOT_CHECKOUT"}))
                        roll == Cardinality(OnRoll(statusOf))
                        missing(expected) ==
                            LET n == s.daysAbsent + unfinished(f) + (expected - roll)
                                       - (o.daysPresent + o.daysOnLeave)
                                absent == AttendanceSummary("ABSENT")
                            IN  IF n > absent THEN n ELSE absent
                        report == AttendanceReport(statusOf)
                        long == LongRollCall(32, Statuses, statusOf)
                        own == [e \in Employees |-> MeSummary(e, Statuses)]
                    IN  /\ s.daysPresent + s.daysAbsent + s.daysOnLeave + unfinished(f) = roll
                        /\ report.presentDays + report.lateDays = s.daysPresent + o.daysPresent
                        /\ report.leaveDays = s.daysOnLeave + o.daysOnLeave
                        /\ report.absentDays = missing(2 * roll)
                        /\ long.daysPresent = s.daysPresent + o.daysPresent
                        /\ long.daysOnLeave = s.daysOnLeave + o.daysOnLeave
                        /\ long.daysAbsent = missing(33 * Cardinality(Active(statusOf)))
                        /\ long.totalHoursWorked = s.totalHoursWorked + o.totalHoursWorked
                        /\ Stats.presentToday = s.daysPresent + o.daysPresent
                        /\ Stats.absentToday
                              <= (s.daysAbsent + unfinished(f)) + (o.daysAbsent + unfinished(g))
                        /\ TodayState.presentCount = s.daysPresent + o.daysPresent
                        /\ TrendItem.present = s.daysPresent + o.daysPresent
                        /\ TrendItem.late = s.lateCount + o.lateCount
                        /\ TrendItem.absent <= s.daysAbsent + o.daysAbsent
                        /\ SumFunction([e \in Employees |-> own[e].daysPresent])
                              = s.daysPresent + o.daysPresent
                        /\ SumFunction([e \in Employees |-> own[e].totalHoursWorked])
                              = s.totalHoursWorked + o.totalHoursWorked
                        /\ SumFunction([e \in Employees |-> own[e].totalOvertimeHours])
                              = report.totalOvertimeHours
  BY DEF ReportsAgree
<1>1. Single
  BY DEF Single
<1>2. PICK D : D = OnRoll(statusOf)
  OBVIOUS
<1>3. D \subseteq Employees /\ f \in RollCalls(D) /\ g \in RollCalls(Employees \ D)
  BY <1>2 DEF OnRoll
<1>4. PICK s, o, u, v, roll, active :
        /\ s = RollCallSummary(f) /\ o = RollCallSummary(g)
        /\ u = Cardinality(Listed(f, {"DID_NOT_CHECKOUT"}))
        /\ v = Cardinality(Listed(g, {"DID_NOT_CHECKOUT"}))
        /\ roll = Cardinality(D) /\ active = Cardinality(Active(statusOf))
  OBVIOUS
<1>5. roll \in Nat /\ active \in Nat
  <2>1. Active(statusOf) \subseteq Employees
    BY DEF Active
  <2>2. IsFiniteSet(D) /\ IsFiniteSet(Active(statusOf))
    BY <1>3, <2>1, FS_Subset, AttendanceReportsAssumption
  <2> QED BY <1>4, <2>2, FS_CardinalityType
<1>6. PICK m : m = [e \in Employees |-> MeSummary(e, Statuses)]
  OBVIOUS
<1>7. PICK report, long : /\ report = AttendanceReport(statusOf)
                          /\ long = LongRollCall(32, Statuses, statusOf)
  OBVIOUS
<1>8. Expected(statusOf) = D
  BY <1>2 DEF Expected, OnRoll
<1>9. PICK missing : \A expected \in Nat :
        missing[expected] = Explained(s.daysAbsent + u + (expected - roll)
                                        - (o.daysPresent + o.daysOnLeave),
                                      AttendanceSummary("ABSENT"))
  <2>1. \E x : x = [expected \in Nat |->
                      Explained(s.daysAbsent + u + (expected - roll)
                                  - (o.daysPresent + o.daysOnLeave),
                                AttendanceSummary("ABSENT"))]
    OBVIOUS
  <2> QED BY <2>1
<1>10. \A expected \in Nat : Absences(expected) = missing[expected]
  BY <1>1, <1>3, <1>4, <1>9, AbsencesAre DEF AttendanceSummary
<1>11. /\ s.daysPresent + s.daysAbsent + s.daysOnLeave + u = roll
       /\ s.daysPresent + o.daysPresent = CountOf(PresentStatuses)
       /\ s.daysOnLeave + o.daysOnLeave = LeaveDays
       /\ s.totalHoursWorked + o.totalHoursWorked = Worked(AllRows)
  BY <1>1, <1>3, <1>4, TwoRolls, AwayIsLeave
<1>12. /\ report.presentDays + report.lateDays = s.daysPresent + o.daysPresent
       /\ report.leaveDays = s.daysOnLeave + o.daysOnLeave
       /\ report.absentDays = missing[2 * roll]
       /\ report.totalOvertimeHours = Overtime(AllRows)
  <2>1. RangeDaysCount(1) = 2 /\ roll * 2 = 2 * roll /\ 2 * roll \in Nat
    BY <1>5 DEF RangeDaysCount
  <2>2. report.absentDays = Absences(2 * roll)
    BY <1>4, <1>7, <1>8, <2>1 DEF AttendanceReport
  <2>3. /\ report.presentDays + report.lateDays = CountOf(PresentStatuses)
        /\ report.leaveDays = LeaveDays /\ report.totalOvertimeHours = Overtime(AllRows)
    BY <1>1, <1>7, PresentOnes DEF AttendanceReport, AllRows
  <2> QED BY <1>10, <1>11, <2>1, <2>2, <2>3
<1>13. /\ long.daysPresent = s.daysPresent + o.daysPresent
       /\ long.daysOnLeave = s.daysOnLeave + o.daysOnLeave
       /\ long.daysAbsent = missing[33 * active]
       /\ long.totalHoursWorked = s.totalHoursWorked + o.totalHoursWorked
  <2>1. RangeDaysCount(32) = 33 /\ active * 33 = 33 * active /\ 33 * active \in Nat
    BY <1>5 DEF RangeDaysCount
  <2>2. long.daysAbsent = Absences(33 * active)
    BY <1>4, <1>7, <2>1 DEF LongRollCall
  <2>3. /\ long.daysPresent = CountOf(PresentStatuses) /\ long.daysOnLeave = LeaveDays
        /\ long.totalHoursWorked = Worked(AllRows)
    BY <1>1, <1>7, AllStatuses DEF LongRollCall
  <2> QED BY <1>10, <1>11, <2>1, <2>2, <2>3
<1>14. /\ Stats.presentToday = s.daysPresent + o.daysPresent
       /\ Stats.absentToday <= (s.daysAbsent + u) + (o.daysAbsent + v)
       /\ TodayState.presentCount = s.daysPresent + o.daysPresent
       /\ TrendItem.present = s.daysPresent + o.daysPresent
       /\ TrendItem.late = s.lateCount + o.lateCount
       /\ TrendItem.absent <= s.daysAbsent + o.daysAbsent
  BY <1>1, <1>3, <1>4, Dashboard
<1>15. /\ SumFunction([e \in Employees |-> m[e].daysPresent]) = s.daysPresent + o.daysPresent
       /\ SumFunction([e \in Employees |-> m[e].totalHoursWorked])
            = s.totalHoursWorked + o.totalHoursWorked
       /\ SumFunction([e \in Employees |-> m[e].totalOvertimeHours]) = report.totalOvertimeHours
  BY <1>1, <1>6, <1>11, <1>12, OwnDays, OwnHours
<1>16. /\ missing[2 * roll] = Explained(s.daysAbsent + u + (2 * roll - roll)
                                          - (o.daysPresent + o.daysOnLeave),
                                        AttendanceSummary("ABSENT"))
       /\ missing[33 * active] = Explained(s.daysAbsent + u + (33 * active - roll)
                                             - (o.daysPresent + o.daysOnLeave),
                                           AttendanceSummary("ABSENT"))
  <2>1. 2 * roll \in Nat /\ 33 * active \in Nat
    BY <1>5
  <2> QED BY <1>9, <2>1
<1> QED BY <1>2, <1>4, <1>6, <1>7, <1>11, <1>12, <1>13, <1>14, <1>15, <1>16 DEF Explained

(* Whatever the status of each employee, the roll call and that of those off the roll  *)
(* explain the reports, the dashboard and the employees' own summaries, as long as no  *)
(* two requests or jobs are at one employee at once, for any finite sets of employees  *)
(* and rows.                                                                           *)
THEOREM DayIsToldTheSame == Spec => []ReportsAgree
<1>1. TypeOK /\ OneRowPerDay => ReportsAgree
  BY ReportsAre
<1> QED BY <1>1, TypeCorrect, RowIsUnique, PTL
====
