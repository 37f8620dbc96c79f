----------------------------- MODULE Attendance -----------------------------
(***************************************************************************)
(* The attendances table: AttendancesService.checkIn and checkOut with the *)
(* QR tokens of QrManagerService, and the two cron jobs of                 *)
(* AutomationService, handleAbsentMarking (18:00) and handleAutoCheckout   *)
(* (23:59).                                                                *)
(*                                                                         *)
(* Requests and jobs run at once and each of their queries is a step: what *)
(* a lookup found may be out of date when the write comes.  Nothing in the *)
(* schema makes (employee_id, date) unique.  The rows are those of one     *)
(* date: handlers and jobs fix the date they work on in their first step,  *)
(* look rows up by it and write them by id, so that dates are independent. *)
(* Times of day are hours (or any other unit) that wrap around after       *)
(* DayLength.  A nonce is kept for as long as a token is valid, so that    *)
(* the expiry of either makes no difference.                               *)
(***************************************************************************)
EXTENDS Integers, FiniteSets

CONSTANTS
    Employees,      \* ids of the employees that are not deleted, whatever their status:
                    \* isActive, which handleAbsentMarking asks for, is never cleared
    Times,          \* times of day a client or the server clock can give
    DayLength,      \* 24 hours
    WorkDay,        \* standardWorkHours
    DueAt,          \* start of each employee's shift, grace period included
    Tokens,         \* QR tokens the kiosk has issued
    KindOf,         \* "IN" or "OUT", what each token is for
    RedisFaults,    \* {FALSE}, or BOOLEAN when a GET or SET of Redis may fail
    MaxScans,       \* bound: how often a token is let pass
    Rows,           \* bound: the attendance ids that can be created
    Procs           \* bound: the request handlers in flight at once

None == -1

ASSUME AttendanceAssumption ==
    /\ DayLength \in Nat /\ WorkDay \in 0..DayLength
    /\ Times \subseteq 0..(DayLength - 1)
    /\ DueAt \in [Employees -> Nat]
    /\ KindOf \in [Tokens -> {"IN", "OUT"}]
    /\ RedisFaults \subseteq BOOLEAN
    /\ MaxScans \in Nat
    /\ None \notin Rows

VARIABLES
    rows,       \* attendances by id
    nonces,     \* qr_nonce keys in Redis: the tokens that have been used
    handler,    \* what each handler in flight has read and will write
    marking,    \* handleAbsentMarking
    marked,     \* history: it has run to its end
    closing,    \* handleAutoCheckout
    clock,      \* how far the day is
    onLeave,    \* employees with an approved leave over the day
    scans,      \* history: how often verifyToken has let each token pass
    raced,      \* history: two of them were at one employee at once
    rescanned   \* history: two scans of a token overlapped, or Redis failed

vars == <<rows, nonces, handler, marking, marked, closing, clock, onLeave,
          scans, raced, rescanned>>

NoRow == [status |-> "none"]
Idle == [pc |-> "idle"]
Off == [pc |-> "off"]

Row == [emp : Employees,
        status : {"PRESENT", "LATE", "ABSENT", "DID_NOT_CHECKOUT"},
        in : Times \cup {None}, out : Times \cup {None},
        worked : 0..WorkDay, overtime : 0..DayLength]

Kinds == {"IN", "OUT"}

Handler ==
    [pc : {"scanned"}, emp : Employees, kind : Kinds, token : Tokens]
    \cup [pc : {"cleared"}, emp : Employees, kind : Kinds]
    \cup [pc : {"entering"}, emp : Employees, row : Rows \cup {None}]
    \cup [pc : {"leaving"}, emp : Employees, row : Rows, in : Times \cup {None}]

Marking ==
    [pc : {"on"}, todo : SUBSET Employees]
    \cup [pc : {"looked"}, todo : SUBSET Employees, emp : Employees, present : BOOLEAN]
    \cup [pc : {"absent"}, todo : SUBSET Employees, emp : Employees]

Closing == [pc : {"on"}, todo : SUBSET Rows]

\* Before 18:00, before 23:59, before midnight, and after it.
Phases == {"day", "evening", "night", "over"}

TypeOK ==
    /\ rows \in [Rows -> Row \cup {NoRow}]
    /\ nonces \subseteq Tokens
    /\ handler \in [Procs -> Handler \cup {Idle}]
    /\ marking \in Marking \cup {Off}
    /\ marked \in BOOLEAN
    /\ closing \in Closing \cup {Off}
    /\ clock \in Phases
    /\ onLeave \subseteq Employees
    /\ scans \in [Tokens -> Nat]
    /\ raced \in BOOLEAN
    /\ rescanned \in BOOLEAN

Init ==
    /\ rows = [r \in Rows |-> NoRow]
    /\ nonces = {}
    /\ handler = [p \in Procs |-> Idle]
    /\ marking = Off
    /\ marked = FALSE
    /\ closing = Off
    /\ clock = "day"
    /\ onLeave = {}
    /\ scans = [t \in Tokens |-> 0]
    /\ raced = FALSE
    /\ rescanned = FALSE

-----------------------------------------------------------------------------

Exists(r) == rows[r] # NoRow

\* Faulty variant: only rows with a check-in are found.
RowsCheckedIn(e) == {r \in Rows : Exists(r) /\ rows[r].emp = e /\ rows[r].in # None}

\* The rows that findFirst may return for an employee and the day.
RowsOf(e) == {r \in Rows : Exists(r) /\ rows[r].emp = e}

\* A handler has looked up the employee's day and is about to write.
Busy(e) ==
    \E q \in Procs : handler[q].pc \in {"entering", "leaving"} /\ handler[q].emp = e

\* handleAbsentMarking has found no row for the employee's day.
Missed(e) ==
    /\ marking.pc = "absent" \/ (marking.pc = "looked" /\ ~marking.present)
    /\ marking.emp = e

\* bound: a row id is left for everyone who may create one.
IdLeft ==
    Cardinality({r \in Rows : ~Exists(r)})
        > Cardinality({q \in Procs : handler[q].pc = "entering" /\ handler[q].row = None})
          + (IF marking.pc \in {"looked", "absent"} THEN 1 ELSE 0)

Goto(p, h) == handler' = [handler EXCEPT ![p] = h]

RequestStep == UNCHANGED <<marking, marked, closing, clock, onLeave>>

-----------------------------------------------------------------------------
(* checkIn and checkOut: authorisation                                       *)

Scanning(t) == {q \in Procs : handler[q].pc = "scanned" /\ handler[q].token = t}

\* verifyToken asks Redis for the nonce; a GET that fails answers null.
ReadNonce(p, e, t, fails) ==
    /\ handler[p].pc = "idle"
    /\ fails \in RedisFaults
    /\ t \notin nonces \/ fails
    /\ scans[t] + Cardinality(Scanning(t)) < MaxScans
    /\ Goto(p, [pc |-> "scanned", emp |-> e, kind |-> KindOf[t], token |-> t])
    /\ rescanned' = (rescanned \/ fails \/ Scanning(t) # {})
    /\ RequestStep
    /\ UNCHANGED <<rows, nonces, scans, raced>>

\* Faulty variant: the nonce of a check-in is not stored.
UsedForCheckOut(t) == IF KindOf[t] = "OUT" THEN nonces \cup {t} ELSE nonces

Used(t) == nonces \cup {t}

\* verifyToken stores the nonce, whoever stored it in between; that the SET failed
\* is not noticed.
SetNonce(p, fails) ==
    LET h == handler[p]
    IN  /\ h.pc = "scanned"
        /\ fails \in RedisFaults
        /\ nonces' = IF fails THEN nonces ELSE Used(h.token)
        /\ scans' = [scans EXCEPT ![h.token] = @ + 1]
        /\ Goto(p, [pc |-> "cleared", emp |-> h.emp, kind |-> h.kind])
        /\ rescanned' = (rescanned \/ fails)
        /\ RequestStep
        /\ UNCHANGED <<rows, raced>>

\* A token has let the request pass, or there is none and the performer is an
\* administrator or HR manager.
Authorised(p, e, k) ==
    \/ handler[p].pc = "idle"
    \/ handler[p].pc = "cleared" /\ handler[p].emp = e /\ handler[p].kind = k

-----------------------------------------------------------------------------
(* checkIn *)

LookUpStep(e, race) ==
    /\ clock # "over"
    /\ raced' = (raced \/ Busy(e) \/ race)
    /\ RequestStep
    /\ UNCHANGED <<rows, nonces, scans, rescanned>>

\* Look for today's row: there must be none, or one without a check-in.
FindForCheckIn(p, e) ==
    /\ Authorised(p, e, "IN")
    /\ \/ /\ RowsOf(e) = {}
          /\ IdLeft
          /\ Goto(p, [pc |-> "entering", emp |-> e, row |-> None])
          /\ LookUpStep(e, Missed(e))
       \/ \E r \in RowsOf(e) :
             /\ IF rows[r].in = None
                THEN Goto(p, [pc |-> "entering", emp |-> e, row |-> r])
                ELSE Goto(p, Idle)
             /\ LookUpStep(e, FALSE)

Punctuality(e, t) == IF t > DueAt[e] THEN "LATE" ELSE "PRESENT"

\* Update the row that was found or create one; t is clientTime, or the server's.
CommitCheckIn(p, t) ==
    LET h == handler[p]
        s == Punctuality(h.emp, t)
    IN  /\ h.pc = "entering"
        /\ IF h.row # None
           THEN rows' = [rows EXCEPT ![h.row].in = t, ![h.row].status = s]
           ELSE \E r \in Rows :
                   /\ ~Exists(r)
                   /\ rows' = [rows EXCEPT ![r] =
                         [emp |-> h.emp, status |-> s, in |-> t, out |-> None,
                          worked |-> 0, overtime |-> 0]]
        /\ Goto(p, Idle)
        /\ RequestStep
        /\ UNCHANGED <<nonces, scans, raced, rescanned>>

-----------------------------------------------------------------------------
(* checkOut *)

\* Look for today's row: there must be one without a check-out.  Whether it has a
\* check-in is not looked at.
FindForCheckOut(p, e) ==
    /\ Authorised(p, e, "OUT")
    /\ \/ /\ RowsOf(e) = {}
          /\ Goto(p, Idle)
          /\ LookUpStep(e, FALSE)
       \/ \E r \in RowsOf(e) :
             /\ IF rows[r].out = None
                THEN Goto(p, [pc |-> "leaving", emp |-> e, row |-> r, in |-> rows[r].in])
                ELSE Goto(p, Idle)
             /\ LookUpStep(e, closing.pc = "on" /\ r \in closing.todo)

Shorter(m, n) == IF m < n THEN m ELSE n

\* Faulty variants: a shift over midnight counts the hours the wrong way round; it
\* counts less than nothing.
DurationWithinDay(in, out) == IF out < in THEN in - out ELSE out - in
DurationWithoutWrap(in, out) == out - in

\* Minutes between the two times of day, over midnight if need be.
Duration(in, out) == IF out < in THEN out - in + DayLength ELSE out - in

CommitCheckOut(p, t) ==
    LET h == handler[p]
        n == IF h.in = None THEN 0 ELSE Duration(h.in, t)
    IN  /\ h.pc = "leaving"
        /\ rows' = [rows EXCEPT ![h.row].out = t,
                                ![h.row].worked = Shorter(n, WorkDay),
                                ![h.row].overtime = n - Shorter(n, WorkDay)]
        /\ Goto(p, Idle)
        /\ RequestStep
        /\ UNCHANGED <<nonces, scans, raced, rescanned>>

-----------------------------------------------------------------------------
(* handleAbsentMarking *)

JobStep == UNCHANGED <<nonces, handler, clock, onLeave, scans, rescanned>>

StartMarking ==
    /\ clock = "day"
    /\ clock' = "evening"
    /\ marking' = [pc |-> "on", todo |-> Employees]
    /\ UNCHANGED <<rows, nonces, handler, marked, closing, onLeave, scans, raced, rescanned>>

\* The next employee: is there a row of the day?
LookForRow(e) ==
    /\ marking.pc = "on"
    /\ e \in marking.todo
    /\ IdLeft
    /\ marking' = [pc |-> "looked", todo |-> marking.todo \ {e}, emp |-> e,
                   present |-> RowsOf(e) # {}]
    /\ raced' = (raced \/ (RowsOf(e) = {} /\ Busy(e)))
    /\ JobStep
    /\ UNCHANGED <<rows, marked, closing>>

Excused(e) == e \in onLeave

\* Is there an approved leave over the day?
LookForLeave ==
    LET m == marking
    IN  /\ m.pc = "looked"
        /\ marking' = IF m.present \/ Excused(m.emp)
                      THEN [pc |-> "on", todo |-> m.todo]
                      ELSE [pc |-> "absent", todo |-> m.todo, emp |-> m.emp]
        /\ JobStep
        /\ UNCHANGED <<rows, marked, closing, raced>>

\* Create the row.  The notification after it cannot fail the job.
MarkAbsent ==
    LET m == marking
    IN  /\ m.pc = "absent"
        /\ \E r \in Rows :
              /\ ~Exists(r)
              /\ rows' = [rows EXCEPT ![r] =
                    [emp |-> m.emp, status |-> "ABSENT", in |-> None, out |-> None,
                     worked |-> 0, overtime |-> 0]]
        /\ marking' = [pc |-> "on", todo |-> m.todo]
        /\ JobStep
        /\ UNCHANGED <<marked, closing, raced>>

\* Faulty variant: the job returns where it should go on.
EndMarkingEarly ==
    /\ marking.pc = "on"
    /\ marking' = Off
    /\ marked' = TRUE
    /\ JobStep
    /\ UNCHANGED <<rows, closing, raced>>

EndMarking ==
    /\ marking.pc = "on" /\ marking.todo = {}
    /\ marking' = Off
    /\ marked' = TRUE
    /\ JobStep
    /\ UNCHANGED <<rows, closing, raced>>

\* A query that fails ends the job: nobody is left to catch it.
AbortMarking ==
    /\ marking # Off
    /\ marking' = Off
    /\ JobStep
    /\ UNCHANGED <<rows, marked, closing, raced>>

-----------------------------------------------------------------------------
(* handleAutoCheckout *)

Unfinished == {r \in Rows : Exists(r) /\ rows[r].out = None}

StartClosing ==
    /\ clock = "evening"
    /\ clock' = "night"
    /\ closing' = [pc |-> "on", todo |-> Unfinished]
    /\ raced' = (raced \/ \E q \in Procs : handler[q].pc = "leaving")
    /\ UNCHANGED <<rows, nonces, handler, marking, marked, onLeave, scans, rescanned>>

\* The next row of the selection, with no second look at its check-out.
CloseRow(r) ==
    /\ closing.pc = "on"
    /\ r \in closing.todo
    /\ rows' = [rows EXCEPT ![r].status = "DID_NOT_CHECKOUT"]
    /\ closing' = [closing EXCEPT !.todo = @ \ {r}]
    /\ JobStep
    /\ UNCHANGED <<marking, marked, raced>>

\* At the end of the selection, or at a query that fails.
EndClosing ==
    /\ closing.pc = "on"
    /\ closing' = Off
    /\ JobStep
    /\ UNCHANGED <<rows, marking, marked, raced>>

-----------------------------------------------------------------------------
(* The clock, and LeavesService *)

\* Lookups are for the next day now.
Midnight ==
    /\ clock = "night"
    /\ clock' = "over"
    /\ UNCHANGED <<rows, nonces, handler, marking, marked, closing, onLeave, scans, raced,
                   rescanned>>

Approve(e) ==
    /\ ~Excused(e)
    /\ onLeave' = onLeave \cup {e}
    /\ UNCHANGED <<rows, nonces, handler, marking, marked, closing, clock, scans, raced,
                   rescanned>>

Next ==
    \/ \E p \in Procs :
        \/ \E e \in Employees :
            \/ \E t \in Tokens, fails \in RedisFaults : ReadNonce(p, e, t, fails)
            \/ FindForCheckIn(p, e)
            \/ FindForCheckOut(p, e)
        \/ \E fails \in RedisFaults : SetNonce(p, fails)
        \/ \E t \in Times : CommitCheckIn(p, t) \/ CommitCheckOut(p, t)
    \/ StartMarking
    \/ \E e \in Employees : LookForRow(e)
    \/ LookForLeave
    \/ MarkAbsent
    \/ EndMarking
    \/ AbortMarking
    \/ StartClosing
    \/ \E r \in Rows : CloseRow(r)
    \/ EndClosing
    \/ Midnight
    \/ \E e \in Employees : Approve(e)

Spec == Init /\ [][Next]_vars

-----------------------------------------------------------------------------
(* Properties *)

\* As long as no two of them are at the same employee, checkIn, checkOut
\* and handleAbsentMarking keep to one row per employee and day.
OneRowPerDay ==
    ~raced => \A r, s \in Rows :
        /\ Exists(r) /\ Exists(s)
        /\ rows[r].emp = rows[s].emp
        => r = s

\* A token lets one request pass, unless two scans of it overlap or Redis fails.
TokenServesOnce == ~rescanned => \A t \in Tokens : scans[t] <= 1

\* When handleAbsentMarking has run to its end, every employee has a row of the
\* day or an approved leave over it, whoever checked in meanwhile.
EveryoneAccountedFor ==
    marked => \A e \in Employees :
        \/ \E r \in Rows : Exists(r) /\ rows[r].emp = e
        \/ e \in onLeave

\* Absent a race, a check-out after a check-in accounts for all the time between
\* the two, as work or as overtime, also when a client's clock is past midnight.
HoursAddUp ==
    [][ ~raced' => \A r \in Rows :
          /\ Exists(r) /\ rows[r].out = None /\ rows[r].in # None
          /\ rows'[r].out # None
          => (rows[r].in + rows'[r].worked + rows'[r].overtime) % DayLength
                = rows'[r].out ]_vars

\* "Please check in first.": nobody checks out who has not checked in.
CheckOutNeedsCheckIn ==
    \A r \in Rows : Exists(r) /\ rows[r].out # None => rows[r].in # None
=============================================================================
