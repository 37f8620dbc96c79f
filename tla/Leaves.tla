------------------------------- MODULE Leaves -------------------------------
(***************************************************************************)
(* Leave requests and leave balances: LeavesService (create, decide,       *)
(* delete) and LeaveBalancesService (initialise, create, bulk create,      *)
(* update, delete), over the tables leave_requests and leave_balances.     *)
(*                                                                         *)
(* A handler of LeavesService reads before its transaction and writes in   *)
(* it, so it is a process with one step per database round trip that       *)
(* another handler can fall between.  A transaction whose writes depend on *)
(* nothing it read is one step.  Time of day is kept only as far as it     *)
(* changes the number of days a request books: see Booked.                 *)
(***************************************************************************)
EXTENDS Integers, FiniteSetsExt

CONSTANTS
    Employees,      \* employee ids
    LeaveTypes,     \* members of enum LeaveType
    Unpaid,         \* LeaveType.UNPAID_LEAVE
    Days,           \* calendar days a request can name, today or later
    YearOf,         \* the year of each day
    PartDays,       \* {0}: dates only; 1: the end's time of day is the later
    OtherStatuses,  \* statuses a decision can name besides the three below
    DefaultDays,    \* defaultBalances: allocation per default leave type
    Totals,         \* bound: the allocations HR gives
    DeleteModes,    \* what client.delete does to a row: "soft" or "hard"
    MaxContentions, \* bound: how often a request is taken up while it is held
    Requests,       \* bound: the request ids that can be created
    Procs           \* bound: the request handlers in flight at once

Statuses == {"PENDING", "APPROVED", "REJECTED"} \cup OtherStatuses

ASSUME LeavesAssumption ==
    /\ Unpaid \in LeaveTypes
    /\ Days \subseteq Int
    /\ PartDays \subseteq {0, 1}
    /\ DOMAIN YearOf = Days
    /\ Totals \subseteq Nat
    /\ MaxContentions \in Nat
    /\ IsFiniteSet(Requests)
    /\ DOMAIN DefaultDays \subseteq LeaveTypes
    /\ \A t \in DOMAIN DefaultDays : DefaultDays[t] \in Nat
    /\ DeleteModes \subseteq {"soft", "hard"}

Years == {YearOf[d] : d \in Days}

\* leave_balances is unique on (employee_id, leave_type, year).
Keys == Employees \X LeaveTypes \X Years

\* What a client asks for: createAsync has refused an end before the start.
Leaves == {l \in [emp : Employees, type : LeaveTypes,
                  from : Days, to : Days, part : PartDays] : l.from <= l.to}

KeyOf(l) == <<l.emp, l.type, YearOf[l.from]>>

\* requestedDays of updateStatusAsync and deleteAsync: from the stored dates.
Released(l) == l.to - l.from + 1

\* requestedDays of createAsync: Math.ceil over the timestamps sent, one more
\* when the end's time of day is later than the start's.
Booked(l) == Released(l) + l.part

VARIABLES
    requests,   \* leave_requests by id
    balances,   \* leave_balances by unique key
    handler,    \* what each handler in flight has read and will do next
    contentions,\* history: how often two handlers came to hold one request
    crowded     \* history: during a createAsync another one, or HR, wrote

vars == <<requests, balances, handler, contentions, crowded>>

Idle == [pc |-> "idle"]
NoRequest == [row |-> "none"]
Purged == [row |-> "purged"]
NoBalance == [row |-> "none", total |-> 0, used |-> 0, pending |-> 0]

Balance == [row : {"none", "live", "deleted"},
            total : Nat, used : Nat, pending : Int]

Request == [row : {"live", "deleted"}, leave : Leaves, status : Statuses]

Handler ==
    [pc : {"checked"}, leave : Leaves]
    \cup [pc : {"booking"}, leave : Leaves, found : BOOLEAN]
    \cup [pc : {"deciding"}, req : Requests, leave : Leaves, to : Statuses]
    \cup [pc : {"deleting"}, req : Requests, leave : Leaves]

TypeOK ==
    /\ requests \in [Requests -> Request \cup {NoRequest, Purged}]
    /\ balances \in [Keys -> Balance]
    /\ handler \in [Procs -> Handler \cup {Idle}]
    /\ contentions \in Nat
    /\ crowded \in BOOLEAN

Init ==
    /\ requests = [r \in Requests |-> NoRequest]
    /\ balances = [k \in Keys |-> NoBalance]
    /\ handler = [p \in Procs |-> Idle]
    /\ contentions = 0
    /\ crowded = FALSE

-----------------------------------------------------------------------------
(* What queries see.  Reads hide the rows marked deleted, writes do not.   *)

Stored(r) == requests[r].row \in {"live", "deleted"}
Visible(r) == requests[r].row = "live"

\* Faulty variant: a request that was decided can be taken up again.
IsUndecided(r) == Visible(r)

IsPending(r) == Visible(r) /\ requests[r].status = "PENDING"

Intersect(l, m) ==
    /\ l.emp = m.emp
    /\ l.from <= m.to
    /\ m.from <= l.to

\* Faulty variant: only requests still to decide are looked at.
OverlapsPending(l) ==
    \E r \in Requests : IsPending(r) /\ Intersect(requests[r].leave, l)

\* The overlap query of createAsync: only REJECTED requests are out of the way.
Overlaps(l) ==
    \E r \in Requests : /\ Visible(r)
                        /\ requests[r].status # "REJECTED"
                        /\ Intersect(requests[r].leave, l)

\* Faulty variant: the pending days are forgotten.
AvailableWithoutPending(k) == balances[k].total - balances[k].used

Available(k) == balances[k].total - balances[k].used - balances[k].pending

Holds(p, r) ==
    /\ handler[p].pc \in {"deciding", "deleting"}
    /\ handler[p].req = r

Creating(e) ==
    \E q \in Procs : /\ handler[q].pc \in {"checked", "booking"}
                    /\ handler[q].leave.emp = e

\* bound: a request id is left for every createAsync in flight.
IdLeft ==
    Cardinality({r \in Requests : requests[r] = NoRequest})
        > Cardinality({q \in Procs : handler[q].pc \in {"checked", "booking"}})

Goto(p, h) == handler' = [handler EXCEPT ![p] = h]

-----------------------------------------------------------------------------
(* LeavesService.createAsync *)

\* Validate the dates and look for an overlap, outside the transaction.
CheckOverlap(p, l) ==
    /\ handler[p].pc = "idle"
    /\ IdLeft
    /\ ~Overlaps(l)
    /\ Goto(p, [pc |-> "checked", leave |-> l])
    /\ crowded' = (crowded \/ Creating(l.emp))
    /\ UNCHANGED <<requests, balances, contentions>>

\* The transaction reads the balance row, without locking it, and refuses the
\* request or goes on to write.
ReadBalance(p) ==
    LET l == handler[p].leave
        k == KeyOf(l)
        found == balances[k].row = "live"
        accepted == IF found THEN Available(k) >= Booked(l) ELSE l.type = Unpaid
    IN  /\ handler[p].pc = "checked"
        /\ IF accepted
           THEN Goto(p, [pc |-> "booking", leave |-> l, found |-> found])
           ELSE Goto(p, Idle)
        /\ UNCHANGED <<requests, balances, contentions, crowded>>

\* Book the days on the row that was found, or create the tracking row.
BookedBalance(k, l, found) ==
    IF found
    THEN [balances[k] EXCEPT !.pending = @ + Booked(l)]
    ELSE [row |-> "live", total |-> 0, used |-> 0, pending |-> Booked(l)]

\* The transaction's writes.  Creating the tracking row fails, and rolls the
\* request back, when the unique key is taken, be it by a deleted row.
CommitBooking(p) ==
    LET l == handler[p].leave
        k == KeyOf(l)
        found == handler[p].found
    IN  /\ handler[p].pc = "booking"
        /\ Goto(p, Idle)
        /\ IF found \/ balances[k].row = "none"
           THEN /\ balances' = [balances EXCEPT ![k] = BookedBalance(k, l, found)]
                /\ \E r \in Requests :
                      /\ requests[r] = NoRequest
                      /\ requests' = [requests EXCEPT ![r] =
                            [row |-> "live", leave |-> l, status |-> "PENDING"]]
           ELSE UNCHANGED <<requests, balances>>
        /\ UNCHANGED <<contentions, crowded>>

-----------------------------------------------------------------------------
(* LeavesService.updateStatusAsync and deleteAsync *)

Claim(p, r, h) ==
    /\ handler[p].pc = "idle"
    /\ IsPending(r)
    /\ Goto(p, h)
    /\ contentions' = IF \E q \in Procs : Holds(q, r)
                      THEN contentions + 1 ELSE contentions
    /\ contentions' <= MaxContentions
    /\ UNCHANGED <<requests, balances, crowded>>

\* Read the request and insist on PENDING, outside the transaction.
ReadForDecision(p, r, s) ==
    Claim(p, r, [pc |-> "deciding", req |-> r,
                 leave |-> requests[r].leave, to |-> s])

\* Faulty variants: an approval that does not charge the days; a rejection that
\* keeps them pending; a rejection that takes them back from the used ones.
DecidedUncharged(b, n, s) ==
    IF s \in {"APPROVED", "REJECTED"} THEN [b EXCEPT !.pending = @ - n] ELSE b
DecidedUnreleased(b, n, s) ==
    IF s = "APPROVED" THEN [b EXCEPT !.pending = @ - n, !.used = @ + n] ELSE b
DecidedRefund(b, n, s) ==
    CASE s = "APPROVED" -> [b EXCEPT !.pending = @ - n, !.used = @ + n]
      [] s = "REJECTED" -> [b EXCEPT !.used = @ - n]
      [] OTHER          -> b

\* A decision other than APPROVED and REJECTED leaves the balance alone.
DecidedBalance(b, n, s) ==
    CASE s = "APPROVED" -> [b EXCEPT !.pending = @ - n, !.used = @ + n]
      [] s = "REJECTED" -> [b EXCEPT !.pending = @ - n]
      [] OTHER          -> b

\* The transaction does not look at the status again.  Updating a row that is
\* no longer stored throws and rolls the balance back.
CommitDecision(p) ==
    LET h == handler[p]
        k == KeyOf(h.leave)
    IN  /\ h.pc = "deciding"
        /\ Goto(p, Idle)
        /\ IF Stored(h.req)
           THEN /\ balances' = [balances EXCEPT ![k] =
                                   DecidedBalance(@, Released(h.leave), h.to)]
                /\ requests' = [requests EXCEPT ![h.req].status = h.to]
           ELSE UNCHANGED <<requests, balances>>
        /\ UNCHANGED <<contentions, crowded>>

ReadForDeletion(p, r) ==
    Claim(p, r, [pc |-> "deleting", req |-> r, leave |-> requests[r].leave])

CommitDeletion(p) ==
    LET h == handler[p]
        k == KeyOf(h.leave)
    IN  /\ h.pc = "deleting"
        /\ Goto(p, Idle)
        /\ IF Stored(h.req)
           THEN /\ balances' = [balances EXCEPT ![k].pending =
                                   @ - Released(h.leave)]
                /\ \/ /\ "soft" \in DeleteModes
                      /\ requests' = [requests EXCEPT ![h.req].row = "deleted"]
                   \/ /\ "hard" \in DeleteModes
                      /\ requests' = [requests EXCEPT ![h.req] = Purged]
           ELSE UNCHANGED <<requests, balances>>
        /\ UNCHANGED <<contentions, crowded>>

-----------------------------------------------------------------------------
(* LeaveBalancesService: every write is blind, so each operation is a step. *)

Allocation(n) == [row |-> "live", total |-> n, used |-> 0, pending |-> 0]

SetBalances(e, f) ==
    /\ balances' = f
    /\ crowded' = (crowded \/ Creating(e))
    /\ UNCHANGED <<requests, handler, contentions>>

\* upsert with update: {}: a default allocation for every type without a row.
InitializeDefaultBalances(e, y) ==
    SetBalances(e, [k \in Keys |->
        IF /\ k[1] = e /\ k[3] = y
           /\ k[2] \in DOMAIN DefaultDays
           /\ balances[k].row = "none"
        THEN Allocation(DefaultDays[k[2]])
        ELSE balances[k]])

\* A row with the key, deleted or not, makes the insert fail.
CreateBalance(k, n) ==
    /\ balances[k].row = "none"
    /\ SetBalances(k[1], [balances EXCEPT ![k] = Allocation(n)])

\* upsert: a new row, or a new total on the old row, deleted or not.
Allocated(k, n) ==
    IF balances[k].row = "none"
    THEN Allocation(n) ELSE [balances[k] EXCEPT !.total = n]

\* One transaction of upserts, f giving the total of each type it names.
CreateBulk(e, y, f) ==
    SetBalances(e, [k \in Keys |->
        IF k[1] = e /\ k[3] = y /\ k[2] \in DOMAIN f
        THEN Allocated(k, f[k[2]])
        ELSE balances[k]])

\* The new total is not compared with what is used or pending.
UpdateBalance(k, n) ==
    /\ balances[k].row = "live"
    /\ SetBalances(k[1], [balances EXCEPT ![k].total = n])

DeleteBalance(k) ==
    /\ balances[k].row = "live"
    /\ SetBalances(k[1], [balances EXCEPT ![k].row = "deleted"])

-----------------------------------------------------------------------------

Next ==
    \/ \E p \in Procs :
        \/ \E l \in Leaves : CheckOverlap(p, l)
        \/ ReadBalance(p)
        \/ CommitBooking(p)
        \/ \E r \in Requests, s \in Statuses : ReadForDecision(p, r, s)
        \/ CommitDecision(p)
        \/ \E r \in Requests : ReadForDeletion(p, r)
        \/ CommitDeletion(p)
    \/ \E e \in Employees, y \in Years :
        \/ InitializeDefaultBalances(e, y)
        \/ \E T \in SUBSET LeaveTypes : \E f \in [T -> Totals] : CreateBulk(e, y, f)
    \/ \E k \in Keys :
        \/ \E n \in Totals : CreateBalance(k, n) \/ UpdateBalance(k, n)
        \/ DeleteBalance(k)

Spec == Init /\ [][Next]_vars

-----------------------------------------------------------------------------
(* Properties *)

\* The days that the requests S of a table name, each request for itself.
DaysNamed(table, S) == UNION {{r} \X (table[r].leave.from .. table[r].leave.to) : r \in S}

DaysOf(S) == Cardinality(DaysNamed(requests, S))

\* Stored requests that book on key k and have a status in S.
OnKey(k, S) == {r \in Requests : /\ Stored(r)
                                 /\ KeyOf(requests[r].leave) = k
                                 /\ requests[r].status \in S}

\* Every request that is stored books on a balance row that exists, so that the
\* updateMany of a decision never matches nothing (updateStatusAsync reports
\* success either way).
RequestsHaveBalance ==
    \A r \in Requests :
        Stored(r) => balances[KeyOf(requests[r].leave)].row # "none"

\* However handlers interleave, the used days of a balance cover every approved
\* request: the increments of updateStatusAsync lose no update, and a second
\* decision on a request never takes used days back.
ApprovedAreCharged ==
    \A k \in Keys : balances[k].used >= DaysOf(OnKey(k, {"APPROVED"}))

\* The same for one request: the days of an approved request are in used.
EachApprovedIsCharged ==
    \A r \in Requests :
        Stored(r) /\ requests[r].status = "APPROVED" =>
            balances[KeyOf(requests[r].leave)].used >= Released(requests[r].leave)

\* As long as no two handlers hold the same request, the ledger is exact whatever
\* else runs at once: pendingDays is the days of the requests still to decide and
\* usedDays the days of the approved ones.
\* (With a part day in PartDays it does not hold: see PendingIsFreed.)
LedgerIsExact ==
    contentions = 0 =>
        \A k \in Keys :
            /\ balances[k].used = DaysOf(OnKey(k, {"APPROVED"}))
            /\ balances[k].pending =
                  DaysOf({r \in OnKey(k, Statuses \ {"APPROVED", "REJECTED"}) :
                            Visible(r)})

\* createAsync refuses overlapping requests: absent another createAsync for the
\* employee in flight and a request decided twice, no two requests that are not
\* rejected share a day.
NoOverlap ==
    ~crowded /\ contentions = 0 =>
        \A r, s \in Requests :
            /\ r # s /\ Visible(r) /\ Visible(s)
            /\ "REJECTED" \notin {requests[r].status, requests[s].status}
            => ~Intersect(requests[r].leave, requests[s].leave)

\* createAsync books no more than is left of the allocation, unless it creates
\* the tracking row of unpaid leave, when nothing else writes meanwhile.
NeverOverbooks ==
    [][ ~crowded =>
          \A k \in Keys :
              balances[k].row = "live" /\ balances'[k].pending > balances[k].pending
              => balances'[k].used + balances'[k].pending <= balances'[k].total ]_vars

\* The tables without the handlers, as LeaveDesk sees them.
Contended == contentions > 0

Desk == INSTANCE LeaveDesk WITH contended <- Contended

\* The handlers read in one round trip and write in a later one, and still every write
\* is one of the atomic operations that LeaveDesk promises.
DeskIsKept == Desk!Spec

\* "Return from Pending (free up)" and "Restore Pending Balance": once every request
\* on a balance is decided or deleted, each by one handler, no days are pending.
PendingIsFreed ==
    contentions = 0 =>
        \A k \in Keys :
            (\A r \in OnKey(k, Statuses) :
                ~Visible(r) \/ requests[r].status \in {"APPROVED", "REJECTED"})
            => balances[k].pending = 0

\* "Only PENDING requests can be processed." (updateStatusAsync)
OnlyPendingProcessed ==
    [][ \A r \in Requests :
          Stored(r) /\ Stored(r)' /\ requests'[r].status # requests[r].status
          => requests[r].status = "PENDING" ]_vars
=============================================================================
