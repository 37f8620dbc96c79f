------------------------------ MODULE LeaveDesk ------------------------------
(***************************************************************************)
(* What LeavesService and LeaveBalancesService promise of their tables, as *)
(* if each operation were one step: a leave is booked where no other is in *)
(* its way and enough days are left, it is decided or deleted while it is  *)
(* PENDING, and each of these moves its days on the one balance that they  *)
(* are on.                                                                 *)
(*                                                                         *)
(* Two things that the services do not prevent are part of the promise.    *)
(* Once two requests to the API have held one leave at the same time, a    *)
(* decision or a deletion may come late, and the other leaves may be in    *)
(* its way.  Once another creation for the employee, or HR, wrote during a *)
(* creation, a leave may be booked where one is in its way or where not    *)
(* enough days are left.  Whatever happens, a booking, a decision and a    *)
(* deletion move the days of a leave on its balance and nothing else, and  *)
(* HR never touches the days that are used or pending.                     *)
(***************************************************************************)
EXTENDS Integers

CONSTANTS
    Employees,
    Requests,
    Statuses,
    Leaves,
    Keys,
    Unpaid,
    KeyOf(_),           \* the balance a leave is on
    Booked(_),          \* the days it takes when it is asked for
    Released(_),        \* those it takes when it is decided or deleted
    Intersect(_, _),    \* whether two leaves are in each other's way
    NoRequest,
    Purged,
    NoBalance

VARIABLES
    requests,   \* leave_requests by id
    balances,   \* leave_balances by unique key
    contended,  \* two requests to the API have held one leave at the same time
    crowded     \* another creation, or HR, wrote during a creation

vars == <<requests, balances, contended, crowded>>

Init ==
    /\ requests = [r \in Requests |-> NoRequest]
    /\ balances = [k \in Keys |-> NoBalance]
    /\ contended = FALSE
    /\ crowded = FALSE

Stored(r) == requests[r].row \in {"live", "deleted"}
Listed(r) == requests[r].row = "live"
Open(r) == Listed(r) /\ requests[r].status = "PENDING"

InTheWay(r, l) ==
    /\ Listed(r)
    /\ requests[r].status # "REJECTED"
    /\ Intersect(requests[r].leave, l)

\* The days used and pending on key k change by these, those on no other do.
Moves(k, used, pending) ==
    /\ balances'[k].used = balances[k].used + used
    /\ balances'[k].pending = balances[k].pending + pending
    /\ \A j \in Keys \ {k} : balances'[j] = balances[j]

\* Unpaid leave is booked without an allocation when there is no balance for it.
Book(r, l) ==
    LET b == balances[KeyOf(l)]
    IN  /\ requests[r] = NoRequest
        /\ crowded \/ contended \/ \A s \in Requests : ~InTheWay(s, l)
        /\ IF b.row = "none"
           THEN l.type = Unpaid /\ balances'[KeyOf(l)].total = 0
           ELSE /\ crowded \/ (b.row = "live" /\ b.total - b.used - b.pending >= Booked(l))
                /\ balances'[KeyOf(l)].total = b.total
        /\ balances'[KeyOf(l)].row = IF b.row = "none" THEN "live" ELSE b.row
        /\ Moves(KeyOf(l), 0, Booked(l))
        /\ requests' = [requests EXCEPT ![r] =
                           [row |-> "live", leave |-> l, status |-> "PENDING"]]
        /\ UNCHANGED <<contended, crowded>>

\* A decision or a deletion leaves the allocation as it is.
Settle(r, used, pending) ==
    LET k == KeyOf(requests[r].leave)
    IN  /\ Open(r) \/ (contended /\ Stored(r))
        /\ balances'[k].row = balances[k].row
        /\ balances'[k].total = balances[k].total
        /\ Moves(k, used, pending)
        /\ UNCHANGED <<contended, crowded>>

Decide(r, s) ==
    LET days == Released(requests[r].leave)
    IN  /\ Settle(r, IF s = "APPROVED" THEN days ELSE 0,
                     IF s \in {"APPROVED", "REJECTED"} THEN -days ELSE 0)
        /\ requests' = [requests EXCEPT ![r].status = s]

Delete(r) ==
    /\ Settle(r, 0, -Released(requests[r].leave))
    /\ requests' \in {[requests EXCEPT ![r].row = "deleted"],
                      [requests EXCEPT ![r] = Purged]}

\* HR opens, raises, lowers and closes the balances of an employee.
Administer(e) ==
    /\ \A k \in Keys :
          /\ balances'[k].used = balances[k].used
          /\ balances'[k].pending = balances[k].pending
          /\ balances'[k].row = "none" => balances[k].row = "none"
          /\ k[1] # e => balances'[k] = balances[k]
    /\ UNCHANGED <<requests, contended>>
    /\ crowded => crowded'

Contend == contended' = TRUE /\ UNCHANGED <<requests, balances, crowded>>

Crowd == crowded' = TRUE /\ UNCHANGED <<requests, balances, contended>>

Next ==
    \/ \E r \in Requests :
        \/ \E l \in Leaves : Book(r, l)
        \/ \E s \in Statuses : Decide(r, s)
        \/ Delete(r)
    \/ \E e \in Employees : Administer(e)
    \/ Contend
    \/ Crowd

Spec == Init /\ [][Next]_vars
=============================================================================
