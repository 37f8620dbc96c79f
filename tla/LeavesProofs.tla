---------------------------- MODULE LeavesProofs ----------------------------
(***************************************************************************)
(* Theorems of Leaves, for any number of employees, days, requests and     *)
(* handlers.                                                               *)
(*                                                                         *)
(* IInv is what the handlers know: one that decides or deletes a request   *)
(* remembers the leave that is still stored, and the balance row that      *)
(* createAsync found is still there when it writes.  Ledger adds to it     *)
(* that days add up, Creation that creations do not meet.  Days are added  *)
(* up as the number of pairs of a request and a day, so that facts on the  *)
(* cardinality of finite sets apply.                                       *)
(***************************************************************************)
EXTENDS LeaveReports, SumTheorems, TLAPS, FiniteSetTheorems

Knows(h) ==
    /\ h.pc = "booking" /\ h.found => balances[KeyOf(h.leave)].row # "none"
    /\ h.pc \in {"deciding", "deleting"} =>
          /\ requests[h.req] # NoRequest
          /\ Stored(h.req) => requests[h.req].leave = h.leave

HandlersKnow == \A p \in Procs : Knows(handler[p])

IInv == TypeOK /\ RequestsHaveBalance /\ EachApprovedIsCharged /\ HandlersKnow

(* The key of a leave is the key of a balance. *)
LEMMA KeyOfType == ASSUME NEW l \in Leaves PROVE KeyOf(l) \in Keys
  BY LeavesAssumption DEF Leaves, KeyOf, Keys, Years

(* A request releases at least one day and books at least as many. *)
LEMMA DaysType ==
  ASSUME NEW l \in Leaves
  PROVE  Released(l) \in Nat /\ Booked(l) \in Nat
<1>1. /\ l.from \in Int /\ l.to \in Int /\ l.from <= l.to
      /\ l.part \in {0, 1}
  BY LeavesAssumption DEF Leaves
<1>2. Released(l) \in Nat
  BY <1>1 DEF Released
<1> QED BY <1>1, <1>2 DEF Booked

-----------------------------------------------------------------------------
(* Type correctness *)

(* What a handler has read is of the right kind for the step it is at. *)
LEMMA HandlerFields ==
  ASSUME TypeOK, NEW p \in Procs, handler[p] # Idle
  PROVE  /\ handler[p].leave \in Leaves
         /\ handler[p].pc \in {"deciding", "deleting"} => handler[p].req \in Requests
         /\ handler[p].pc = "deciding" => handler[p].to \in Statuses
         /\ handler[p].pc = "booking" => handler[p].found \in BOOLEAN
         /\ handler[p].pc # "idle"
<1>1. handler[p] \in Handler
  BY DEF TypeOK
<1> QED BY <1>1 DEF Handler

LEMMA StoredType ==
  ASSUME TypeOK, NEW r \in Requests
  PROVE  Stored(r) <=> requests[r] \in Request
  BY DEF TypeOK, Stored, Request, NoRequest, Purged

LEMMA GotoType ==
  ASSUME TypeOK, NEW p \in Procs, NEW h \in Handler \cup {Idle}, Goto(p, h)
  PROVE  handler' \in [Procs -> Handler \cup {Idle}]
  BY DEF TypeOK, Goto

LEMMA BookedType ==
  ASSUME TypeOK, NEW l \in Leaves, NEW found \in BOOLEAN
  PROVE  BookedBalance(KeyOf(l), l, found) \in Balance
<1>1. KeyOf(l) \in Keys /\ Booked(l) \in Nat
  BY KeyOfType, DaysType
<1>2. balances[KeyOf(l)] \in Balance
  BY <1>1 DEF TypeOK
<1> QED BY <1>1, <1>2 DEF BookedBalance, Balance

LEMMA DecidedType ==
  ASSUME NEW b \in Balance, NEW n \in Nat, NEW s \in Statuses
  PROVE  DecidedBalance(b, n, s) \in Balance
<1>1. CASE s = "APPROVED"
  <2>1. DecidedBalance(b, n, s) = [b EXCEPT !.pending = b.pending - n, !.used = b.used + n]
    BY <1>1 DEF DecidedBalance
  <2>2. b.pending - n \in Int /\ b.used + n \in Nat
    BY DEF Balance
  <2> QED BY <2>1, <2>2 DEF Balance
<1>2. CASE s = "REJECTED"
  BY <1>2 DEF DecidedBalance, Balance
<1>3. CASE s \notin {"APPROVED", "REJECTED"}
  BY <1>3 DEF DecidedBalance, Balance
<1> QED BY <1>1, <1>2, <1>3

LEMMA AllocationType == ASSUME NEW n \in Nat PROVE Allocation(n) \in Balance
  BY DEF Allocation, Balance

(* LeaveBalancesService writes balances only. *)
LEMMA SetBalancesType ==
  ASSUME TypeOK, NEW e \in Employees, NEW f \in [Keys -> Balance], SetBalances(e, f)
  PROVE  TypeOK'
  BY DEF TypeOK, SetBalances, Creating

LEMMA StepType == ASSUME TypeOK, [Next]_vars PROVE TypeOK'
<1> USE DEF TypeOK
<1>1. ASSUME NEW p \in Procs, NEW l \in Leaves, CheckOverlap(p, l)
      PROVE TypeOK'
  <2>1. [pc |-> "checked", leave |-> l] \in Handler
    BY DEF Handler
  <2> QED BY <1>1, <2>1, GotoType DEF CheckOverlap, Creating
<1>2. ASSUME NEW p \in Procs, ReadBalance(p) PROVE TypeOK'
  <2> DEFINE h(b) == [pc |-> "booking", leave |-> handler[p].leave, found |-> b]
  <2>1. handler[p].leave \in Leaves
    BY <1>2, HandlerFields DEF ReadBalance, Idle
  <2>2. \A b \in BOOLEAN : h(b) \in Handler \cup {Idle}
    BY <2>1 DEF Handler
  <2>3. \E x \in Handler \cup {Idle} : Goto(p, x)
    BY <1>2, <2>2 DEF ReadBalance
  <2> QED BY <1>2, <2>3, GotoType DEF ReadBalance
<1>3. ASSUME NEW p \in Procs, CommitBooking(p) PROVE TypeOK'
  <2>1. handler[p].leave \in Leaves /\ handler[p].found \in BOOLEAN
    BY <1>3, HandlerFields DEF CommitBooking, Idle
  <2>2. handler' \in [Procs -> Handler \cup {Idle}]
    BY <1>3, GotoType DEF CommitBooking
  <2>3. balances' \in [Keys -> Balance]
    BY <1>3, <2>1, KeyOfType, BookedType DEF CommitBooking
  <2>4. [row |-> "live", leave |-> handler[p].leave, status |-> "PENDING"] \in Request
    BY <2>1 DEF Request, Statuses
  <2>5. requests' \in [Requests -> Request \cup {NoRequest, Purged}]
    BY <1>3, <2>4 DEF CommitBooking
  <2> QED BY <1>3, <2>2, <2>3, <2>5 DEF CommitBooking
<1>4. ASSUME NEW p \in Procs, NEW r \in Requests, NEW h, Claim(p, r, h),
             requests[r].leave \in Leaves => h \in Handler
      PROVE TypeOK'
  <2>1. requests[r].leave \in Leaves
    BY <1>4, StoredType DEF Claim, IsPending, Visible, Stored, Request
  <2> QED BY <1>4, <2>1, GotoType DEF Claim
<1>5. ASSUME NEW p \in Procs, NEW r \in Requests, NEW s \in Statuses,
             ReadForDecision(p, r, s)
      PROVE TypeOK'
  <2>1. requests[r].leave \in Leaves =>
          [pc |-> "deciding", req |-> r, leave |-> requests[r].leave, to |-> s] \in Handler
    BY DEF Handler
  <2> QED BY <1>4, <1>5, <2>1 DEF ReadForDecision
<1>6. ASSUME NEW p \in Procs, CommitDecision(p) PROVE TypeOK'
  <2>1. /\ handler[p].leave \in Leaves /\ handler[p].req \in Requests
        /\ handler[p].to \in Statuses
    BY <1>6, HandlerFields DEF CommitDecision, Idle
  <2>2. handler' \in [Procs -> Handler \cup {Idle}]
    BY <1>6, GotoType DEF CommitDecision
  <2>3. balances' \in [Keys -> Balance]
    BY <1>6, <2>1, KeyOfType, DaysType, DecidedType DEF CommitDecision
  <2>4. requests' \in [Requests -> Request \cup {NoRequest, Purged}]
    <3>1. CASE Stored(handler[p].req)
      <4>1. requests[handler[p].req] \in Request
        BY <2>1, <3>1, StoredType
      <4>2. [requests[handler[p].req] EXCEPT !.status = handler[p].to] \in Request
        BY <2>1, <4>1 DEF Request
      <4> QED BY <1>6, <2>1, <3>1, <4>2 DEF CommitDecision
    <3> QED BY <1>6, <3>1 DEF CommitDecision
  <2> QED BY <1>6, <2>2, <2>3, <2>4 DEF CommitDecision
<1>7. ASSUME NEW p \in Procs, NEW r \in Requests, ReadForDeletion(p, r)
      PROVE TypeOK'
  <2>1. requests[r].leave \in Leaves =>
          [pc |-> "deleting", req |-> r, leave |-> requests[r].leave] \in Handler
    BY DEF Handler
  <2> QED BY <1>4, <1>7, <2>1 DEF ReadForDeletion
<1>8. ASSUME NEW p \in Procs, CommitDeletion(p) PROVE TypeOK'
  <2>1. handler[p].leave \in Leaves /\ handler[p].req \in Requests
    BY <1>8, HandlerFields DEF CommitDeletion, Idle
  <2>2. handler' \in [Procs -> Handler \cup {Idle}]
    BY <1>8, GotoType DEF CommitDeletion
  <2>3. balances' \in [Keys -> Balance]
    <3>1. KeyOf(handler[p].leave) \in Keys /\ Released(handler[p].leave) \in Nat
      BY <2>1, KeyOfType, DaysType
    <3>2. \A b \in Balance, n \in Nat : [b EXCEPT !.pending = @ - n] \in Balance
      BY DEF Balance
    <3> QED BY <1>8, <3>1, <3>2 DEF CommitDeletion
  <2>4. requests' \in [Requests -> Request \cup {NoRequest, Purged}]
    <3>1. CASE Stored(handler[p].req)
      <4>1. requests[handler[p].req] \in Request
        BY <2>1, <3>1, StoredType
      <4>2. [requests[handler[p].req] EXCEPT !.row = "deleted"] \in Request
        BY <4>1 DEF Request
      <4> QED BY <1>8, <2>1, <3>1, <4>2 DEF CommitDeletion
    <3> QED BY <1>8, <3>1 DEF CommitDeletion
  <2> QED BY <1>8, <2>2, <2>3, <2>4 DEF CommitDeletion
<1>9. ASSUME NEW e \in Employees, NEW y \in Years,
             \/ InitializeDefaultBalances(e, y)
             \/ \E T \in SUBSET LeaveTypes : \E f \in [T -> Totals] : CreateBulk(e, y, f)
      PROVE TypeOK'
  <2>1. CASE InitializeDefaultBalances(e, y)
    <3>1. \A t \in DOMAIN DefaultDays : Allocation(DefaultDays[t]) \in Balance
      BY LeavesAssumption, AllocationType
    <3> QED BY <2>1, <3>1, SetBalancesType DEF InitializeDefaultBalances
  <2>2. ASSUME NEW T \in SUBSET LeaveTypes, NEW f \in [T -> Totals], CreateBulk(e, y, f)
        PROVE TypeOK'
    <3>1. \A t \in T : f[t] \in Nat /\ Allocation(f[t]) \in Balance
      BY LeavesAssumption, AllocationType
    <3>2. \A b \in Balance, n \in Nat : [b EXCEPT !.total = n] \in Balance
      BY DEF Balance
    <3>3. \A k \in Keys : balances[k] \in Balance
      OBVIOUS
    <3> HIDE DEF TypeOK
    <3> DEFINE g(k) == IF k[1] = e /\ k[3] = y /\ k[2] \in DOMAIN f
                       THEN Allocated(k, f[k[2]]) ELSE balances[k]
    <3>4. ASSUME NEW k \in Keys PROVE g(k) \in Balance
      <4>1. k[2] \in DOMAIN f => f[k[2]] \in Nat /\ Allocation(f[k[2]]) \in Balance
        BY <3>1
      <4> QED BY <3>2, <3>3, <4>1 DEF Allocated
    <3>5. [k \in Keys |-> g(k)] \in [Keys -> Balance]
      BY <3>4
    <3> QED BY <2>2, <3>5, SetBalancesType DEF CreateBulk
  <2> QED BY <1>9, <2>1, <2>2
<1>10. ASSUME NEW k \in Keys,
              \/ \E n \in Totals : CreateBalance(k, n) \/ UpdateBalance(k, n)
              \/ DeleteBalance(k)
       PROVE TypeOK'
  <2>1. k[1] \in Employees
    BY DEF Keys
  <2>2. \A n \in Totals : n \in Nat /\ Allocation(n) \in Balance
    BY LeavesAssumption, AllocationType
  <2>3. \A b \in Balance : /\ \A n \in Nat : [b EXCEPT !.total = n] \in Balance
                           /\ [b EXCEPT !.row = "deleted"] \in Balance
    BY DEF Balance
  <2>7. \A b \in Balance : [balances EXCEPT ![k] = b] \in [Keys -> Balance]
    OBVIOUS
  <2>8. balances[k] \in Balance
    OBVIOUS
  <2> HIDE DEF TypeOK
  <2>4. ASSUME NEW n \in Totals, CreateBalance(k, n) PROVE TypeOK'
    BY <2>1, <2>2, <2>4, <2>7, SetBalancesType DEF CreateBalance
  <2>5. ASSUME NEW n \in Totals, UpdateBalance(k, n) PROVE TypeOK'
    BY <2>1, <2>2, <2>3, <2>5, <2>7, <2>8, SetBalancesType DEF UpdateBalance
  <2>6. CASE DeleteBalance(k)
    BY <2>1, <2>3, <2>6, <2>7, <2>8, SetBalancesType DEF DeleteBalance
  <2> QED BY <1>10, <2>4, <2>5, <2>6
<1>11. CASE UNCHANGED vars
  BY <1>11 DEF vars
<1> QED BY <1>1, <1>2, <1>3, <1>5, <1>6, <1>7, <1>8, <1>9, <1>10, <1>11 DEF Next

LEMMA InitType == Init => TypeOK
<1>1. NoBalance \in Balance
  BY DEF NoBalance, Balance
<1>2. Init => requests \in [Requests -> Request \cup {NoRequest, Purged}]
  BY DEF Init
<1>3. Init => balances \in [Keys -> Balance]
  BY <1>1 DEF Init
<1>4. Init => handler \in [Procs -> Handler \cup {Idle}]
  BY DEF Init
<1>5. Init => contentions \in Nat
  BY DEF Init
<1>6. Init => crowded \in BOOLEAN
  BY DEF Init
<1> QED BY <1>2, <1>3, <1>4, <1>5, <1>6 DEF TypeOK

(* The tables and the handlers keep their shape: no step writes a balance with *)
(* fewer than no used days, a row of another shape, or an unknown status.      *)
THEOREM TypeCorrect == Spec => []TypeOK
<1>1. Init => TypeOK
  BY InitType
<1>2. TypeOK /\ [Next]_vars => TypeOK'
  BY StepType
<1> QED BY <1>1, <1>2, PTL DEF Spec

-----------------------------------------------------------------------------
(* Requests and their balances *)

(* What every step respects: a balance row that exists stays and its used days *)
(* never shrink; a request that exists keeps its leave as long as it is stored.  *)
BalancesGrow ==
    \A k \in Keys : balances[k].row # "none" =>
        /\ balances'[k].row # "none"
        /\ balances'[k].used >= balances[k].used

RequestsStay ==
    \A r \in Requests : requests[r] # NoRequest =>
        /\ requests'[r] # NoRequest
        /\ Stored(r)' => Stored(r) /\ requests'[r].leave = requests[r].leave

(* A request in a state is served: it has a balance row, which covers its days  *)
(* once it is approved.                                                         *)
Served(r) ==
    Stored(r) =>
        LET l == requests[r].leave
        IN  /\ balances[KeyOf(l)].row # "none"
            /\ requests[r].status = "APPROVED" => balances[KeyOf(l)].used >= Released(l)

LEMMA ServedIsInv ==
  ASSUME TypeOK', HandlersKnow', \A r \in Requests : Served(r)'
  PROVE  IInv'
  BY DEF IInv, Served, RequestsHaveBalance, EachApprovedIsCharged

LEMMA InvIsServed == ASSUME IInv, NEW r \in Requests PROVE Served(r)
  BY DEF IInv, Served, RequestsHaveBalance, EachApprovedIsCharged

LEMMA StoredFacts ==
  ASSUME TypeOK, NEW r \in Requests, Stored(r)
  PROVE  /\ requests[r].leave \in Leaves
         /\ KeyOf(requests[r].leave) \in Keys
         /\ Released(requests[r].leave) \in Nat
  BY StoredType, KeyOfType, DaysType DEF Request

(* A request that a step leaves as it was is served afterwards.                 *)
LEMMA StaysServed ==
  ASSUME IInv, TypeOK', BalancesGrow, NEW r \in Requests,
         Stored(r)' => /\ Stored(r)
                       /\ requests'[r].leave = requests[r].leave
                       /\ requests'[r].status = "APPROVED" =>
                             requests[r].status = "APPROVED"
  PROVE  Served(r)'
<1> SUFFICES ASSUME Stored(r)' PROVE Served(r)'
  BY DEF Served
<1> DEFINE k == KeyOf(requests[r].leave)
           n == Released(requests[r].leave)
<1>1. k \in Keys /\ n \in Nat
  BY StoredFacts DEF IInv
<1>2. /\ balances[k].row # "none"
      /\ requests[r].status = "APPROVED" => balances[k].used >= n
  BY InvIsServed DEF Served
<1>3. balances'[k].row # "none" /\ balances'[k].used >= balances[k].used
  BY <1>1, <1>2 DEF BalancesGrow
<1>4. balances'[k].used \in Nat /\ balances[k].used \in Nat
  BY <1>1 DEF IInv, TypeOK, Balance
<1>5. /\ balances'[k].row # "none"
      /\ requests'[r].status = "APPROVED" => balances'[k].used >= n
  BY <1>1, <1>2, <1>3, <1>4
<1>6. KeyOf(requests'[r].leave) = k /\ Released(requests'[r].leave) = n
  OBVIOUS
<1> QED BY <1>5, <1>6 DEF Served, KeyOf, Released

(* What a handler knows stays true while it waits.                              *)
LEMMA StillKnows ==
  ASSUME IInv, BalancesGrow, RequestsStay, NEW p \in Procs
  PROVE  Knows(handler[p])'  \/ handler'[p] # handler[p]
<1> SUFFICES ASSUME handler'[p] = handler[p] PROVE Knows(handler[p])'
  OBVIOUS
<1>1. CASE handler[p] = Idle
  BY <1>1 DEF Knows, Idle
<1>2. CASE handler[p] # Idle
  <2>1. /\ handler[p].leave \in Leaves /\ KeyOf(handler[p].leave) \in Keys
        /\ handler[p].pc \in {"deciding", "deleting"} => handler[p].req \in Requests
    BY <1>2, HandlerFields, KeyOfType DEF IInv
  <2>2. Knows(handler[p])
    BY DEF IInv, HandlersKnow
  <2>3. handler[p].pc = "booking" /\ handler[p].found =>
          balances'[KeyOf(handler[p].leave)].row # "none"
    BY <2>1, <2>2 DEF Knows, BalancesGrow
  <2>4. handler[p].pc \in {"deciding", "deleting"} =>
          /\ requests'[handler[p].req] # NoRequest
          /\ requests'[handler[p].req].row \in {"live", "deleted"} =>
                requests'[handler[p].req].leave = handler[p].leave
    BY <2>1, <2>2 DEF Knows, RequestsStay, Stored
  <2> QED BY <2>3, <2>4 DEF Knows, Stored, KeyOf
<1> QED BY <1>1, <1>2

(* A handler moves on: it is enough that it knows what it then claims to.       *)
LEMMA KnowledgeKept ==
  ASSUME IInv, BalancesGrow, RequestsStay, NEW p \in Procs, NEW h, Goto(p, h),
         Knows(h)'
  PROVE  HandlersKnow'
<1>1. ASSUME NEW q \in Procs PROVE Knows(handler[q])'
  <2>1. CASE q = p
    <3>1. handler'[q] = h
      BY <2>1 DEF Goto, IInv, TypeOK
    <3> QED BY <3>1 DEF Knows, Stored, KeyOf
  <2>2. CASE q # p
    BY <2>2, StillKnows DEF Goto, IInv, TypeOK
  <2> QED BY <2>1, <2>2
<1> QED BY <1>1 DEF HandlersKnow

LEMMA IdleKnows == Knows(Idle)'
  BY DEF Knows, Idle

LEMMA NoGrowth ==
  ASSUME TypeOK, UNCHANGED balances PROVE BalancesGrow
  BY DEF TypeOK, BalancesGrow, Balance

LEMMA NoRequestChange ==
  ASSUME UNCHANGED requests PROVE RequestsStay
  BY DEF RequestsStay, Stored

(* A step that changes no request, and lets balances only grow.                 *)
LEMMA RequestsUntouched ==
  ASSUME IInv, TypeOK', BalancesGrow, UNCHANGED requests, HandlersKnow'
  PROVE  IInv'
<1>1. \A r \in Requests : Served(r)'
  BY StaysServed DEF Stored
<1> QED BY <1>1, ServedIsInv

(* One lemma per operation of LeavesService; LeaveBalancesService follows.      *)

LEMMA CheckOverlapInv ==
  ASSUME IInv, TypeOK', NEW p \in Procs, NEW l \in Leaves, CheckOverlap(p, l)
  PROVE  IInv'
<1> DEFINE h == [pc |-> "checked", leave |-> l]
<1>1. Goto(p, h) /\ Knows(h)' /\ UNCHANGED <<requests, balances>>
  BY DEF CheckOverlap, Knows
<1> QED BY <1>1, NoGrowth, NoRequestChange, KnowledgeKept, RequestsUntouched DEF IInv

LEMMA ReadBalanceInv ==
  ASSUME IInv, TypeOK', NEW p \in Procs, ReadBalance(p)
  PROVE  IInv'
<1> DEFINE h == [pc |-> "booking", leave |-> handler[p].leave,
                 found |-> balances[KeyOf(handler[p].leave)].row = "live"]
<1>1. UNCHANGED <<requests, balances>>
  BY DEF ReadBalance
<1>2. CASE Goto(p, Idle)
  BY <1>1, <1>2, IdleKnows, NoGrowth, NoRequestChange, KnowledgeKept,
     RequestsUntouched DEF IInv
<1>3. CASE Goto(p, h)
  <2>1. PICK x : x = h
    OBVIOUS
  <2>2. Knows(x)'
    BY <1>1, <2>1 DEF Knows, KeyOf
  <2>3. Goto(p, x)
    BY <1>3, <2>1
  <2> QED BY <1>1, <2>2, <2>3, NoGrowth, NoRequestChange, KnowledgeKept,
             RequestsUntouched DEF IInv
<1> QED BY <1>2, <1>3 DEF ReadBalance

LEMMA CommitBookingInv ==
  ASSUME IInv, TypeOK', NEW p \in Procs, CommitBooking(p)
  PROVE  IInv'
<1> DEFINE l == handler[p].leave
           k == KeyOf(l)
           new == [row |-> "live", leave |-> l, status |-> "PENDING"]
<1>1. /\ l \in Leaves /\ k \in Keys /\ Booked(l) \in Nat
      /\ handler[p].found \in BOOLEAN
      /\ Goto(p, Idle)
  BY HandlerFields, KeyOfType, DaysType DEF CommitBooking, Idle, IInv
<1>2. CASE UNCHANGED <<requests, balances>>
  BY <1>1, <1>2, IdleKnows, NoGrowth, NoRequestChange, KnowledgeKept,
     RequestsUntouched DEF IInv
<1>3. ASSUME handler[p].found \/ balances[k].row = "none",
             balances' = [balances EXCEPT ![k] = BookedBalance(k, l, handler[p].found)],
             NEW r \in Requests, requests[r] = NoRequest,
             requests' = [requests EXCEPT ![r] = new]
      PROVE IInv'
  <2>1. handler[p].found => balances[k].row # "none"
    BY DEF IInv, HandlersKnow, Knows, CommitBooking
  <2>2. balances[k] \in Balance /\ balances'[k] = BookedBalance(k, l, handler[p].found)
    BY <1>1, <1>3 DEF IInv, TypeOK
  <2>3. /\ balances'[k].row # "none"
        /\ balances[k].row # "none" => balances'[k].used = balances[k].used
    BY <1>3, <2>1, <2>2 DEF BookedBalance, Balance
  <2>4. BalancesGrow
    BY <1>1, <1>3, <2>3 DEF BalancesGrow, IInv, TypeOK, Balance
  <2>5. requests'[r] = new /\ \A s \in Requests \ {r} : requests'[s] = requests[s]
    BY <1>3 DEF IInv, TypeOK
  <2>6. RequestsStay
    BY <1>3, <2>5 DEF RequestsStay, NoRequest, Stored
  <2>7. HandlersKnow'
    BY <1>1, <2>4, <2>6, IdleKnows, KnowledgeKept
  <2>8. Served(r)'
    BY <2>3, <2>5 DEF Served, KeyOf
  <2>9. \A s \in Requests \ {r} : Served(s)'
    BY <2>4, <2>5, StaysServed DEF Stored
  <2> QED BY <2>7, <2>8, <2>9, ServedIsInv
<1> QED BY <1>2, <1>3 DEF CommitBooking

LEMMA ClaimInv ==
  ASSUME IInv, TypeOK', NEW p \in Procs, NEW r \in Requests, NEW h, Claim(p, r, h),
         h.req = r, h.leave = requests[r].leave, h.pc # "booking"
  PROVE  IInv'
<1>1. Goto(p, h) /\ UNCHANGED <<requests, balances>> /\ requests[r] # NoRequest
  BY DEF Claim, IsPending, Visible, NoRequest
<1>2. Knows(h)'
  BY <1>1 DEF Knows, Stored
<1> QED BY <1>1, <1>2, NoGrowth, NoRequestChange, KnowledgeKept,
           RequestsUntouched DEF IInv

LEMMA CommitDecisionInv ==
  ASSUME IInv, TypeOK', NEW p \in Procs, CommitDecision(p)
  PROVE  IInv'
<1>1. PICK r \in Requests, l \in Leaves, s \in Statuses :
        r = handler[p].req /\ l = handler[p].leave /\ s = handler[p].to
  BY HandlerFields DEF CommitDecision, Idle, IInv
<1> DEFINE k == KeyOf(l)
           n == Released(l)
<1>2. k \in Keys /\ n \in Nat /\ Goto(p, Idle)
  BY KeyOfType, DaysType DEF CommitDecision
<1>3. CASE ~Stored(r)
  BY <1>1, <1>2, <1>3, IdleKnows, NoGrowth, NoRequestChange, KnowledgeKept,
     RequestsUntouched DEF IInv, CommitDecision
<1>4. CASE Stored(r)
  <2>1. /\ balances' = [balances EXCEPT ![k] = DecidedBalance(balances[k], n, s)]
        /\ requests' = [requests EXCEPT ![r].status = s]
    BY <1>1, <1>4 DEF CommitDecision
  <2>2. requests[r].leave = l
    BY <1>1, <1>4 DEF IInv, HandlersKnow, Knows, CommitDecision
  <2>3. balances[k] \in Balance /\ balances'[k] = DecidedBalance(balances[k], n, s)
    BY <1>2, <2>1 DEF IInv, TypeOK
  <2>4. /\ balances'[k].row = balances[k].row
        /\ balances'[k].used >= balances[k].used
        /\ s = "APPROVED" => balances'[k].used >= n
    <3>1. CASE s = "APPROVED"
      <4>1. balances'[k].row = balances[k].row /\ balances'[k].used = balances[k].used + n
        BY <2>3, <3>1 DEF DecidedBalance, Balance
      <4> QED BY <1>2, <2>3, <4>1 DEF Balance
    <3>2. CASE s # "APPROVED"
      BY <1>2, <2>3, <3>2 DEF DecidedBalance, Balance
    <3> QED BY <3>1, <3>2
  <2>5. BalancesGrow
    BY <1>2, <2>1, <2>4 DEF BalancesGrow, IInv, TypeOK, Balance
  <2>6. /\ requests[r] \in Request
        /\ requests'[r] = [requests[r] EXCEPT !.status = s]
        /\ \A q \in Requests \ {r} : requests'[q] = requests[q]
    BY <1>4, <2>1, StoredType DEF IInv, TypeOK
  <2>7. /\ requests'[r].row = requests[r].row
        /\ requests'[r].leave = l
        /\ requests'[r].status = s
        /\ requests'[r] # NoRequest
    BY <2>2, <2>6 DEF Request, NoRequest
  <2>8. RequestsStay
    BY <1>4, <2>2, <2>6, <2>7 DEF RequestsStay, Stored
  <2>9. HandlersKnow'
    BY <1>2, <2>5, <2>8, IdleKnows, KnowledgeKept
  <2>10. balances[k].row # "none"
    BY <1>4, <2>2 DEF IInv, RequestsHaveBalance
  <2>11. Served(r)'
    BY <2>4, <2>7, <2>10 DEF Served, KeyOf, Released
  <2>12. \A q \in Requests \ {r} : Served(q)'
    BY <2>5, <2>6, StaysServed DEF Stored
  <2> QED BY <2>9, <2>11, <2>12, ServedIsInv
<1> QED BY <1>3, <1>4

LEMMA CommitDeletionInv ==
  ASSUME IInv, TypeOK', NEW p \in Procs, CommitDeletion(p)
  PROVE  IInv'
<1>1. PICK r \in Requests, l \in Leaves : r = handler[p].req /\ l = handler[p].leave
  BY HandlerFields DEF CommitDeletion, Idle, IInv
<1> DEFINE k == KeyOf(l)
<1>2. k \in Keys /\ Goto(p, Idle)
  BY KeyOfType DEF CommitDeletion
<1>3. CASE ~Stored(r)
  BY <1>1, <1>2, <1>3, IdleKnows, NoGrowth, NoRequestChange, KnowledgeKept,
     RequestsUntouched DEF IInv, CommitDeletion
<1>4. CASE Stored(r)
  <2>1. balances' = [balances EXCEPT ![k].pending = @ - Released(l)]
    BY <1>1, <1>4 DEF CommitDeletion
  <2>2. balances[k] \in Balance
    BY <1>2 DEF IInv, TypeOK
  <2>3. balances'[k].row = balances[k].row /\ balances'[k].used = balances[k].used
    BY <1>2, <2>1, <2>2 DEF Balance, IInv, TypeOK
  <2>4. BalancesGrow
    BY <1>2, <2>1, <2>3 DEF BalancesGrow, IInv, TypeOK, Balance
  <2>5. \/ requests' = [requests EXCEPT ![r].row = "deleted"]
        \/ requests' = [requests EXCEPT ![r] = Purged]
    BY <1>1, <1>4 DEF CommitDeletion
  <2>6. requests[r] \in Request /\ requests' \in [Requests -> Request \cup {NoRequest, Purged}]
    BY <1>4, StoredType DEF IInv, TypeOK
  <2>7. \A q \in Requests \ {r} : requests'[q] = requests[q]
    BY <2>5 DEF IInv, TypeOK
  <2>8. /\ requests'[r] # NoRequest
        /\ Stored(r)' => /\ requests'[r].leave = requests[r].leave
                         /\ requests'[r].status = requests[r].status
    <3>1. CASE requests' = [requests EXCEPT ![r].row = "deleted"]
      <4>1. requests'[r] = [requests[r] EXCEPT !.row = "deleted"]
        BY <3>1 DEF IInv, TypeOK
      <4> QED BY <2>6, <4>1 DEF Request, NoRequest
    <3>2. CASE requests' = [requests EXCEPT ![r] = Purged]
      <4>1. requests'[r] = Purged
        BY <3>2 DEF IInv, TypeOK
      <4> QED BY <4>1 DEF Purged, NoRequest, Stored
    <3> QED BY <2>5, <3>1, <3>2
  <2>9. RequestsStay
    BY <1>4, <2>7, <2>8 DEF RequestsStay, Stored
  <2>10. HandlersKnow'
    BY <1>2, <2>4, <2>9, IdleKnows, KnowledgeKept
  <2>11. Served(r)'
    BY <1>4, <2>4, <2>8, StaysServed
  <2>12. \A q \in Requests \ {r} : Served(q)'
    BY <2>4, <2>7, StaysServed DEF Stored
  <2> QED BY <2>10, <2>11, <2>12, ServedIsInv
<1> QED BY <1>3, <1>4

(* LeaveBalancesService: the rows that exist stay, with the same used days.     *)
LEMMA SetBalancesInv ==
  ASSUME IInv, TypeOK', NEW e, NEW f, SetBalances(e, f),
         \A k \in Keys : balances[k].row # "none" =>
            f[k].row # "none" /\ f[k].used = balances[k].used
  PROVE  IInv'
<1>1. BalancesGrow
  BY DEF SetBalances, BalancesGrow, IInv, TypeOK, Balance
<1>2. UNCHANGED <<requests, handler>>
  BY DEF SetBalances
<1>3. HandlersKnow'
  BY <1>1, <1>2, NoRequestChange, StillKnows DEF HandlersKnow
<1> QED BY <1>1, <1>2, <1>3, RequestsUntouched

LEMMA BalanceOperationsInv ==
  ASSUME IInv, TypeOK', NEW k \in Keys, NEW e \in Employees, NEW y \in Years
  PROVE  /\ InitializeDefaultBalances(e, y) => IInv'
         /\ \A f : CreateBulk(e, y, f) => IInv'
         /\ \A n : CreateBalance(k, n) \/ UpdateBalance(k, n) => IInv'
         /\ DeleteBalance(k) => IInv'
<1>1. \A j \in Keys : balances[j] \in Balance
  BY DEF IInv, TypeOK
<1>2. InitializeDefaultBalances(e, y) => IInv'
  BY SetBalancesInv DEF InitializeDefaultBalances
<1>3. ASSUME NEW f, CreateBulk(e, y, f) PROVE IInv'
  <2>1. \A j \in Keys : \A n : balances[j].row # "none" =>
          Allocated(j, n).row # "none" /\ Allocated(j, n).used = balances[j].used
    BY <1>1 DEF Allocated, Balance
  <2> QED BY <1>3, <2>1, SetBalancesInv DEF CreateBulk
<1>4. ASSUME NEW f, SetBalances(k[1], [balances EXCEPT ![k] = f]),
             balances[k].row # "none" => f.row # "none" /\ f.used = balances[k].used
      PROVE IInv'
  <2>1. \A j \in Keys : balances[j].row # "none" =>
          /\ [balances EXCEPT ![k] = f][j].row # "none"
          /\ [balances EXCEPT ![k] = f][j].used = balances[j].used
    BY <1>4 DEF IInv, TypeOK
  <2> QED BY <1>4, <2>1, SetBalancesInv
<1>5. ASSUME NEW n, CreateBalance(k, n) \/ UpdateBalance(k, n) PROVE IInv'
  <2>1. CASE CreateBalance(k, n)
    BY <1>4, <2>1 DEF CreateBalance
  <2>2. CASE UpdateBalance(k, n)
    <3>1. PICK f : f = [balances[k] EXCEPT !.total = n]
      OBVIOUS
    <3>2. f.row = balances[k].row /\ f.used = balances[k].used
      BY <1>1, <3>1 DEF Balance
    <3> QED BY <1>4, <2>2, <3>1, <3>2 DEF UpdateBalance
  <2> QED BY <1>5, <2>1, <2>2
<1>6. ASSUME DeleteBalance(k) PROVE IInv'
  <2>1. PICK f : f = [balances[k] EXCEPT !.row = "deleted"]
    OBVIOUS
  <2>2. f.row # "none" /\ f.used = balances[k].used
    BY <1>1, <2>1 DEF Balance
  <2> QED BY <1>4, <1>6, <2>1, <2>2 DEF DeleteBalance
<1> QED BY <1>2, <1>3, <1>5, <1>6

LEMMA StepInv == ASSUME IInv, [Next]_vars PROVE IInv'
<1>1. TypeOK'
  BY StepType DEF IInv
<1>2. CASE UNCHANGED vars
  <2>1. UNCHANGED <<requests, balances, handler>>
    BY <1>2 DEF vars
  <2>2. BalancesGrow /\ RequestsStay
    BY <2>1, NoGrowth, NoRequestChange DEF IInv
  <2>3. HandlersKnow'
    BY <2>1, <2>2, StillKnows DEF HandlersKnow
  <2> QED BY <1>1, <2>1, <2>2, <2>3, RequestsUntouched
<1>3. ASSUME NEW p \in Procs, NEW r \in Requests, NEW s \in Statuses,
             ReadForDecision(p, r, s)
      PROVE IInv'
  BY <1>1, <1>3, ClaimInv DEF ReadForDecision
<1>4. ASSUME NEW p \in Procs, NEW r \in Requests, ReadForDeletion(p, r)
      PROVE IInv'
  BY <1>1, <1>4, ClaimInv DEF ReadForDeletion
<1>5. ASSUME NEW e \in Employees, NEW y \in Years,
             \/ InitializeDefaultBalances(e, y)
             \/ \E T \in SUBSET LeaveTypes : \E f \in [T -> Totals] : CreateBulk(e, y, f)
      PROVE IInv'
  <2>1. <<e, Unpaid, y>> \in Keys
    BY LeavesAssumption DEF Keys
  <2> QED BY <1>1, <1>5, <2>1, BalanceOperationsInv
<1>6. ASSUME NEW k \in Keys,
             \/ \E n \in Totals : CreateBalance(k, n) \/ UpdateBalance(k, n)
             \/ DeleteBalance(k)
      PROVE IInv'
  <2>1. k[1] \in Employees /\ k[3] \in Years
    BY DEF Keys
  <2> QED BY <1>1, <1>6, <2>1, BalanceOperationsInv
<1> QED BY <1>1, <1>2, <1>3, <1>4, <1>5, <1>6, CheckOverlapInv, ReadBalanceInv,
           CommitBookingInv, CommitDecisionInv, CommitDeletionInv DEF Next

(* However many handlers interleave, the days of an approved request are part  *)
(* of the used days of a balance row that exists (updateStatusAsync moves them *)
(* there, and no operation takes used days back or removes a row).             *)
THEOREM ApprovalCharges == Spec => [](RequestsHaveBalance /\ EachApprovedIsCharged)
<1>1. Init => IInv
  <2>1. Init => TypeOK
    BY InitType
  <2> QED BY <2>1 DEF Init, IInv, RequestsHaveBalance, EachApprovedIsCharged, HandlersKnow,
                      Knows, Stored, NoRequest, Idle
<1>2. IInv /\ [Next]_vars => IInv'
  BY StepInv
<1>3. IInv => RequestsHaveBalance /\ EachApprovedIsCharged
  BY DEF IInv
<1> QED BY <1>1, <1>2, <1>3, PTL DEF Spec

-----------------------------------------------------------------------------
(* Adding up days *)

(* Days of a finite set of leaves are a number: each leave adds the days it      *)
(* releases.                                                                     *)
LEMMA LeaveDays ==
  ASSUME NEW l \in Leaves, NEW r
  PROVE  /\ IsFiniteSet({r} \X (l.from .. l.to))
         /\ Cardinality({r} \X (l.from .. l.to)) = Released(l)
<1>1. /\ l.from \in Int /\ l.to \in Int /\ l.from <= l.to
  BY LeavesAssumption DEF Leaves
<1>2. /\ IsFiniteSet(l.from .. l.to)
      /\ Cardinality(l.from .. l.to) = l.to - l.from + 1
  BY <1>1, FS_Interval
<1>3. IsFiniteSet({r}) /\ Cardinality({r}) = 1
  BY FS_Singleton
<1>4. /\ IsFiniteSet({r} \X (l.from .. l.to))
      /\ Cardinality({r} \X (l.from .. l.to)) = 1 * (l.to - l.from + 1)
  BY <1>2, <1>3, FS_Product
<1> QED BY <1>1, <1>4 DEF Released

LEMMA DaysFinite ==
  ASSUME NEW table, NEW S \in SUBSET Requests, \A r \in S : table[r].leave \in Leaves
  PROVE  /\ IsFiniteSet(DaysNamed(table, S))
         /\ Cardinality(DaysNamed(table, S)) \in Nat
<1> DEFINE days(r) == {r} \X (table[r].leave.from .. table[r].leave.to)
<1>1. \A T \in {days(r) : r \in S} : IsFiniteSet(T)
  BY LeaveDays
<1>2. IsFiniteSet(S)
  BY LeavesAssumption, FS_Subset
<1>3. IsFiniteSet({days(r) : r \in S})
  <2>1. PICK f : f = [r \in S |-> days(r)]
    OBVIOUS
  <2>2. f \in Surjection(S, {days(r) : r \in S})
    BY <2>1 DEF Surjection
  <2> QED BY <1>2, <2>2, FS_Surjection
<1>4. IsFiniteSet(UNION {days(r) : r \in S})
  BY <1>1, <1>3, FS_UNION
<1>5. DaysNamed(table, S) = UNION {days(r) : r \in S}
  BY DEF DaysNamed
<1> QED BY <1>4, <1>5, FS_CardinalityType

(* The days depend on the leaves of the set only.                                *)
LEMMA DaysSame ==
  ASSUME NEW f, NEW g, NEW S, \A r \in S : f[r].leave = g[r].leave
  PROVE  DaysNamed(f, S) = DaysNamed(g, S)
  BY DEF DaysNamed

LEMMA DaysMonotone ==
  ASSUME NEW f, NEW T \in SUBSET Requests, NEW S \in SUBSET T,
         \A r \in T : f[r].leave \in Leaves
  PROVE  Cardinality(DaysNamed(f, S)) <= Cardinality(DaysNamed(f, T))
<1>1. DaysNamed(f, S) \in SUBSET DaysNamed(f, T)
  BY DEF DaysNamed
<1> QED BY <1>1, DaysFinite, FS_Subset

(* One more request, one more leave.                                             *)
LEMMA DaysAdded ==
  ASSUME NEW f, NEW g, NEW S \in SUBSET Requests, NEW r \in Requests \ S,
         \A s \in S : f[s].leave = g[s].leave /\ f[s].leave \in Leaves,
         g[r].leave \in Leaves
  PROVE  Cardinality(DaysNamed(g, S \cup {r})) =
            Cardinality(DaysNamed(f, S)) + Released(g[r].leave)
<1> DEFINE A == DaysNamed(g, S)
           B == {r} \X (g[r].leave.from .. g[r].leave.to)
<1>1. DaysNamed(g, S \cup {r}) = A \cup B
  BY DEF DaysNamed
<1>2. A \cap B = {}
  BY DEF DaysNamed
<1>3. IsFiniteSet(A) /\ Cardinality(A) \in Nat
  BY DaysFinite
<1>4. IsFiniteSet(B) /\ Cardinality(B) = Released(g[r].leave)
  BY LeaveDays
<1>5. Released(g[r].leave) \in Nat
  BY DaysType
<1>6. Cardinality(A \cup B) = Cardinality(A) + Cardinality(B) - Cardinality(A \cap B)
  BY <1>3, <1>4, FS_Union
<1>7. Cardinality(A \cap B) = 0
  BY <1>2, FS_EmptySet
<1>8. Cardinality(A \cup B) = Cardinality(A) + Released(g[r].leave)
  BY <1>3, <1>4, <1>5, <1>6, <1>7
<1>9. A = DaysNamed(f, S)
  BY DaysSame
<1> QED BY <1>1, <1>8, <1>9

-----------------------------------------------------------------------------
(* The ledger *)

Approved(k) == OnKey(k, {"APPROVED"})
Undecided(k) == {r \in OnKey(k, Statuses \ {"APPROVED", "REJECTED"}) : Visible(r)}

(* While no request is taken up twice, a handler is alone with its request, which *)
(* nobody else decides.                                                           *)
HoldsAlone ==
    contentions = 0 =>
        \A r \in Requests : \A p \in Procs : Holds(p, r) =>
            /\ IsPending(r)
            /\ \A q \in Procs : Holds(q, r) => p = q

(* A key without a row starts from nothing.                                       *)
EmptyRows ==
    \A k \in Keys : balances[k].row = "none" =>
        balances[k].used = 0 /\ balances[k].pending = 0

(* updateStatusAsync keeps usedDays above the approved days come what may, and     *)
(* both sums exact while it is alone with a request.  With a part day, createAsync *)
(* books more than a decision releases.                                           *)
SumsAt(k) ==
    /\ balances[k].used >= DaysOf(Approved(k))
    /\ contentions = 0 =>
          /\ balances[k].used = DaysOf(Approved(k))
          /\ balances[k].pending >= DaysOf(Undecided(k))
          /\ PartDays = {0} => balances[k].pending = DaysOf(Undecided(k))

Sums == \A k \in Keys : SumsAt(k)

Ledger == IInv /\ HoldsAlone /\ EmptyRows /\ Sums

(* What each kind of step does to the tables.                                     *)

(* The effect of a booking, as seen by the ledger: days for a new request.        *)
Books(p, r, l, k) ==
    /\ requests[r] = NoRequest
    /\ requests' = [requests EXCEPT ![r] =
                      [row |-> "live", leave |-> l, status |-> "PENDING"]]
    /\ balances'[k].used = balances[k].used
    /\ balances'[k].pending = balances[k].pending + Booked(l)
    /\ balances'[k].row # "none"
    /\ \/ balances[k].row = "none"
       \/ handler[p].found /\ balances'[k].total = balances[k].total
    /\ \A j \in Keys \ {k} : balances'[j] = balances[j]

LEMMA BookingEffect ==
  ASSUME IInv, EmptyRows, NEW p \in Procs, CommitBooking(p)
  PROVE  /\ Goto(p, Idle)
         /\ UNCHANGED <<contentions, crowded>>
         /\ \E l \in Leaves : \E k \in Keys :
               /\ l = handler[p].leave /\ k = KeyOf(l)
               /\ \/ UNCHANGED <<requests, balances>>
                  \/ \E r \in Requests : Books(p, r, l, k)
<1> USE DEF IInv
<1>1. PICK l \in Leaves : l = handler[p].leave
  BY HandlerFields DEF CommitBooking, Idle
<1>2. PICK k \in Keys : k = KeyOf(l)
  BY KeyOfType
<1>3. /\ Booked(l) \in Nat
      /\ handler[p].found \in BOOLEAN
      /\ balances[k] \in Balance
  BY <1>1, HandlerFields, DaysType DEF CommitBooking, Idle, TypeOK
<1>4. ASSUME handler[p].found \/ balances[k].row = "none",
             balances' = [balances EXCEPT ![k] = BookedBalance(k, l, handler[p].found)],
             NEW r \in Requests, requests[r] = NoRequest,
             requests' = [requests EXCEPT ![r] =
                            [row |-> "live", leave |-> l, status |-> "PENDING"]]
      PROVE  Books(p, r, l, k)
  <2>1. balances'[k] = BookedBalance(k, l, handler[p].found)
    BY <1>3, <1>4 DEF TypeOK
  <2>2. \A j \in Keys \ {k} : balances'[j] = balances[j]
    BY <1>3, <1>4 DEF TypeOK
  <2>3. CASE handler[p].found
    <3>1. balances'[k] = [balances[k] EXCEPT !.pending = balances[k].pending + Booked(l)]
      BY <2>1, <2>3 DEF BookedBalance
    <3>2. balances[k].row # "none"
      BY <1>1, <1>2, <2>3 DEF HandlersKnow, Knows, CommitBooking
    <3>3. /\ balances'[k].used = balances[k].used
          /\ balances'[k].pending = balances[k].pending + Booked(l)
          /\ balances'[k].total = balances[k].total
          /\ balances'[k].row = balances[k].row
      BY <1>3, <3>1 DEF Balance
    <3> QED BY <1>4, <2>2, <2>3, <3>2, <3>3 DEF Books
  <2>4. CASE ~handler[p].found
    <3>1. balances'[k] = [row |-> "live", total |-> 0, used |-> 0, pending |-> Booked(l)]
      BY <2>1, <2>4 DEF BookedBalance
    <3>2. balances[k].used = 0 /\ balances[k].pending = 0
      BY <1>3, <1>4, <2>4 DEF EmptyRows
    <3> QED BY <1>3, <1>4, <2>2, <2>4, <3>1, <3>2 DEF Books
  <2> QED BY <2>3, <2>4
<1> QED BY <1>1, <1>2, <1>4 DEF CommitBooking

(* The effect of a decision s: the days of request r are moved.                   *)
Decides(r, l, k, s) ==
    /\ Stored(r) /\ requests[r].leave = l
    /\ requests' = [requests EXCEPT ![r].status = s]
    /\ balances'[k].row = balances[k].row
    /\ balances'[k].total = balances[k].total
    /\ balances'[k].used =
          balances[k].used + IF s = "APPROVED" THEN Released(l) ELSE 0
    /\ balances'[k].pending =
          balances[k].pending - IF s \in {"APPROVED", "REJECTED"} THEN Released(l) ELSE 0
    /\ \A j \in Keys \ {k} : balances'[j] = balances[j]

LEMMA DecisionEffect ==
  ASSUME IInv, NEW p \in Procs, CommitDecision(p)
  PROVE  /\ Goto(p, Idle)
         /\ UNCHANGED <<contentions, crowded>>
         /\ \E r \in Requests, l \in Leaves, k \in Keys, s \in Statuses :
               /\ k = KeyOf(l) /\ Holds(p, r)
               /\ UNCHANGED <<requests, balances>> \/ Decides(r, l, k, s)
<1>1. PICK r \in Requests, l \in Leaves, s \in Statuses :
        r = handler[p].req /\ l = handler[p].leave /\ s = handler[p].to
  BY HandlerFields DEF CommitDecision, Idle, IInv
<1>2. PICK k \in Keys : k = KeyOf(l)
  BY KeyOfType
<1> DEFINE n == Released(l)
<1>3. n \in Nat /\ balances[k] \in Balance
  BY DaysType DEF IInv, TypeOK
<1>4. ASSUME Stored(r) PROVE Decides(r, l, k, s)
  <2>1. requests[r].leave = l
    BY <1>1, <1>4 DEF IInv, HandlersKnow, Knows, CommitDecision
  <2>2. /\ balances' = [balances EXCEPT ![k] = DecidedBalance(balances[k], n, s)]
        /\ requests' = [requests EXCEPT ![r].status = s]
    BY <1>1, <1>2, <1>4 DEF CommitDecision
  <2>3. balances'[k] = DecidedBalance(balances[k], n, s)
    BY <1>3, <2>2 DEF IInv, TypeOK
  <2>4. \A j \in Keys \ {k} : balances'[j] = balances[j]
    BY <1>3, <2>2 DEF IInv, TypeOK
  <2>5. /\ balances'[k].row = balances[k].row
        /\ balances'[k].total = balances[k].total
        /\ balances'[k].used = balances[k].used + IF s = "APPROVED" THEN n ELSE 0
        /\ balances'[k].pending =
              balances[k].pending - IF s \in {"APPROVED", "REJECTED"} THEN n ELSE 0
    <3>1. PICK b \in Balance : b = balances[k]
      BY <1>3
    <3>2. CASE s = "APPROVED"
      <4>1. balances'[k] = [b EXCEPT !.pending = b.pending - n, !.used = b.used + n]
        BY <2>3, <3>1, <3>2 DEF DecidedBalance
      <4> QED BY <3>1, <3>2, <4>1 DEF Balance
    <3>3. CASE s = "REJECTED"
      <4>1. balances'[k] = [b EXCEPT !.pending = b.pending - n]
        BY <2>3, <3>1, <3>3 DEF DecidedBalance
      <4>2. b.used \in Nat
        BY DEF Balance
      <4> QED BY <3>1, <3>3, <4>1, <4>2 DEF Balance
    <3>4. CASE s \notin {"APPROVED", "REJECTED"}
      <4>1. balances'[k] = b /\ b.used \in Nat /\ b.pending \in Int
        BY <2>3, <3>1, <3>4 DEF DecidedBalance, Balance
      <4> QED BY <3>1, <3>4, <4>1
    <3> QED BY <3>2, <3>3, <3>4
  <2> QED BY <1>4, <2>1, <2>2, <2>4, <2>5 DEF Decides
<1>5. /\ Goto(p, Idle) /\ UNCHANGED <<contentions, crowded>> /\ Holds(p, r)
      /\ ~Stored(r) => UNCHANGED <<requests, balances>>
  BY <1>1 DEF CommitDecision, Holds
<1> QED BY <1>2, <1>4, <1>5

(* The effect of a deletion: the request is no longer seen, its days are not      *)
(* pending.                                                                       *)
Deletes(r, l, k) ==
    /\ Stored(r) /\ requests[r].leave = l
    /\ requests'[r].row # "live"
    /\ Stored(r)' => /\ requests'[r].leave = l
                     /\ requests'[r].status = requests[r].status
    /\ \A q \in Requests \ {r} : requests'[q] = requests[q]
    /\ balances'[k].row = balances[k].row
    /\ balances'[k].total = balances[k].total
    /\ balances'[k].used = balances[k].used
    /\ balances'[k].pending = balances[k].pending - Released(l)
    /\ \A j \in Keys \ {k} : balances'[j] = balances[j]

LEMMA DeletionEffect ==
  ASSUME IInv, NEW p \in Procs, CommitDeletion(p)
  PROVE  /\ Goto(p, Idle)
         /\ UNCHANGED <<contentions, crowded>>
         /\ \E r \in Requests, l \in Leaves, k \in Keys :
               /\ k = KeyOf(l) /\ Holds(p, r)
               /\ UNCHANGED <<requests, balances>> \/ Deletes(r, l, k)
<1>1. PICK r \in Requests, l \in Leaves : r = handler[p].req /\ l = handler[p].leave
  BY HandlerFields DEF CommitDeletion, Idle, IInv
<1>2. PICK k \in Keys : k = KeyOf(l)
  BY KeyOfType
<1> DEFINE n == Released(l)
<1>3. n \in Nat /\ balances[k] \in Balance
  BY DaysType DEF IInv, TypeOK
<1>4. ASSUME Stored(r) PROVE Deletes(r, l, k)
  <2>1. requests[r].leave = l
    BY <1>1, <1>4 DEF IInv, HandlersKnow, Knows, CommitDeletion
  <2>2. /\ balances' = [balances EXCEPT ![k].pending = @ - n]
        /\ \/ requests' = [requests EXCEPT ![r].row = "deleted"]
           \/ requests' = [requests EXCEPT ![r] = Purged]
    BY <1>1, <1>2, <1>4 DEF CommitDeletion
  <2>3. PICK b \in Balance : b = balances[k]
    BY <1>3
  <2>4. balances'[k] = [b EXCEPT !.pending = b.pending - n]
    BY <1>3, <2>2, <2>3 DEF IInv, TypeOK
  <2>5. /\ balances'[k].row = balances[k].row
        /\ balances'[k].total = balances[k].total
        /\ balances'[k].used = balances[k].used
        /\ balances'[k].pending = balances[k].pending - n
    BY <2>3, <2>4 DEF Balance
  <2>6. \A j \in Keys \ {k} : balances'[j] = balances[j]
    BY <1>3, <2>2 DEF IInv, TypeOK
  <2>7. \A q \in Requests \ {r} : requests'[q] = requests[q]
    BY <2>2 DEF IInv, TypeOK
  <2>8. requests[r] \in Request
    BY <1>3, <1>4, StoredType DEF IInv
  <2>9. /\ requests'[r].row # "live"
        /\ Stored(r)' => /\ requests'[r].leave = l
                         /\ requests'[r].status = requests[r].status
    <3>1. CASE requests' = [requests EXCEPT ![r].row = "deleted"]
      <4>1. requests'[r] = [requests[r] EXCEPT !.row = "deleted"]
        BY <1>3, <3>1 DEF IInv, TypeOK
      <4> QED BY <2>1, <2>8, <4>1 DEF Request
    <3>2. CASE requests' = [requests EXCEPT ![r] = Purged]
      <4>1. requests'[r] = Purged
        BY <1>3, <3>2 DEF IInv, TypeOK
      <4> QED BY <4>1 DEF Purged, Stored
    <3> QED BY <2>2, <3>1, <3>2
  <2> QED BY <1>4, <2>1, <2>5, <2>6, <2>7, <2>9 DEF Deletes
<1>5. /\ Goto(p, Idle) /\ UNCHANGED <<contentions, crowded>> /\ Holds(p, r)
      /\ ~Stored(r) => UNCHANGED <<requests, balances>>
  BY <1>1 DEF CommitDeletion, Holds
<1> QED BY <1>2, <1>4, <1>5

(* Everything else leaves what the ledger adds up alone.                          *)
Quiet ==
    /\ UNCHANGED requests
    /\ \A k \in Keys :
          /\ balances'[k].used = balances[k].used
          /\ balances'[k].pending = balances[k].pending
          /\ balances'[k].row = "none" => balances[k].row = "none"

LEMMA BalanceOperationsQuiet ==
  ASSUME IInv, EmptyRows, NEW e, NEW f, SetBalances(e, f),
         \A k \in Keys : \/ f[k] = balances[k]
                         \/ balances[k].row = "none" /\ \E n : f[k] = Allocation(n)
                         \/ \E n : f[k] = [balances[k] EXCEPT !.total = n]
                         \/ f[k] = [balances[k] EXCEPT !.row = "deleted"]
  PROVE  Quiet
<1>1. /\ balances' = f /\ UNCHANGED requests
  BY DEF SetBalances
<1>2. ASSUME NEW k \in Keys
      PROVE  /\ f[k].used = balances[k].used
             /\ f[k].pending = balances[k].pending
             /\ f[k].row = "none" => balances[k].row = "none"
  <2>1. PICK b \in Balance : b = balances[k]
    BY DEF IInv, TypeOK
  <2>2. CASE f[k] = b
    BY <2>1, <2>2
  <2>3. ASSUME b.row = "none", NEW n, f[k] = Allocation(n)
        PROVE  f[k].used = b.used /\ f[k].pending = b.pending
    <3>1. b.used = 0 /\ b.pending = 0
      BY <2>1, <2>3 DEF EmptyRows
    <3> QED BY <2>3, <3>1 DEF Allocation
  <2>4. ASSUME NEW n, f[k] = [b EXCEPT !.total = n]
        PROVE  f[k].used = b.used /\ f[k].pending = b.pending /\ f[k].row = b.row
    BY <2>4 DEF Balance
  <2>5. ASSUME f[k] = [b EXCEPT !.row = "deleted"]
        PROVE  f[k].used = b.used /\ f[k].pending = b.pending /\ f[k].row # "none"
    BY <2>5 DEF Balance
  <2> QED BY <2>1, <2>2, <2>3, <2>4, <2>5
<1> QED BY <1>1, <1>2 DEF Quiet

(* HR's operations.                                                               *)
HR(e) ==
    \/ \E y \in Years :
        \/ InitializeDefaultBalances(e, y)
        \/ \E T \in SUBSET LeaveTypes : \E f \in [T -> Totals] : CreateBulk(e, y, f)
    \/ \E k \in Keys :
        /\ k[1] = e
        /\ \/ \E n \in Totals : CreateBalance(k, n) \/ UpdateBalance(k, n)
           \/ DeleteBalance(k)

LEMMA HREffect ==
  ASSUME IInv, EmptyRows, NEW e \in Employees, HR(e)
  PROVE  /\ Quiet
         /\ UNCHANGED <<handler, contentions>>
         /\ crowded' = (crowded \/ Creating(e))
         /\ \A k \in Keys : k[1] # e => balances'[k] = balances[k]
<1>1. \A f : SetBalances(e, f) =>
        /\ balances' = f
        /\ UNCHANGED <<handler, contentions>>
        /\ crowded' = (crowded \/ Creating(e))
  BY DEF SetBalances
<1>2. ASSUME NEW y \in Years, InitializeDefaultBalances(e, y)
      PROVE  Quiet /\ \E f : /\ SetBalances(e, f)
                             /\ \A k \in Keys : k[1] # e => f[k] = balances[k]
  <2>1. PICK f : /\ SetBalances(e, f)
                 /\ f = [k \in Keys |-> IF /\ k[1] = e /\ k[3] = y
                                           /\ k[2] \in DOMAIN DefaultDays
                                           /\ balances[k].row = "none"
                                        THEN Allocation(DefaultDays[k[2]])
                                        ELSE balances[k]]
    BY <1>2 DEF InitializeDefaultBalances
  <2> QED BY <2>1, BalanceOperationsQuiet
<1>3. ASSUME NEW y \in Years, NEW g, CreateBulk(e, y, g)
      PROVE  Quiet /\ \E f : /\ SetBalances(e, f)
                             /\ \A k \in Keys : k[1] # e => f[k] = balances[k]
  <2>1. PICK f : /\ SetBalances(e, f)
                 /\ f = [k \in Keys |->
                           IF k[1] = e /\ k[3] = y /\ k[2] \in DOMAIN g
                           THEN Allocated(k, g[k[2]])
                           ELSE balances[k]]
    BY <1>3 DEF CreateBulk
  <2>2. \A k \in Keys : \/ f[k] = balances[k]
                        \/ balances[k].row = "none" /\ \E n : f[k] = Allocation(n)
                        \/ \E n : f[k] = [balances[k] EXCEPT !.total = n]
    <3> SUFFICES ASSUME NEW k \in Keys, k[1] = e /\ k[3] = y /\ k[2] \in DOMAIN g
                 PROVE  \/ balances[k].row = "none" /\ \E n : f[k] = Allocation(n)
                        \/ \E n : f[k] = [balances[k] EXCEPT !.total = n]
      BY <2>1
    <3>1. PICK n : n = g[k[2]]
      OBVIOUS
    <3>2. f[k] = Allocated(k, n)
      BY <2>1, <3>1
    <3>3. CASE balances[k].row = "none"
      BY <3>2, <3>3 DEF Allocated
    <3>4. CASE balances[k].row # "none"
      <4>1. f[k] = [balances[k] EXCEPT !.total = n]
        BY <3>2, <3>4, Zenon DEF Allocated
      <4> QED BY <4>1, Zenon
    <3> QED BY <3>3, <3>4
  <2> QED BY <2>1, <2>2, BalanceOperationsQuiet
<1>4. ASSUME NEW k \in Keys, k[1] = e,
             \/ \E n \in Totals : CreateBalance(k, n) \/ UpdateBalance(k, n)
             \/ DeleteBalance(k)
      PROVE  Quiet /\ \E f : /\ SetBalances(e, f)
                             /\ \A j \in Keys : j[1] # e => f[j] = balances[j]
  <2>1. PICK b : /\ SetBalances(e, [balances EXCEPT ![k] = b])
                 /\ \/ balances[k].row = "none" /\ \E n : b = Allocation(n)
                    \/ \E n : b = [balances[k] EXCEPT !.total = n]
                    \/ b = [balances[k] EXCEPT !.row = "deleted"]
    BY <1>4 DEF CreateBalance, UpdateBalance, DeleteBalance
  <2>2. PICK f : f = [balances EXCEPT ![k] = b]
    OBVIOUS
  <2>3. f[k] = b /\ \A j \in Keys \ {k} : f[j] = balances[j]
    BY <2>2 DEF IInv, TypeOK
  <2>4. \A j \in Keys : \/ f[j] = balances[j]
                        \/ balances[j].row = "none" /\ \E n : f[j] = Allocation(n)
                        \/ \E n : f[j] = [balances[j] EXCEPT !.total = n]
                        \/ f[j] = [balances[j] EXCEPT !.row = "deleted"]
    <3> TAKE j \in Keys
    <3>1. CASE j = k
      BY <2>1, <2>3, <3>1
    <3>2. CASE j # k
      BY <2>3, <3>2
    <3> QED BY <3>1, <3>2
  <2>5. SetBalances(e, f)
    BY <2>1, <2>2
  <2>6. Quiet
    BY <2>4, <2>5, BalanceOperationsQuiet
  <2> QED BY <1>4, <2>3, <2>5, <2>6
<1> QED BY <1>1, <1>2, <1>3, <1>4 DEF HR

(* The steps of the system, by their effect.                                      *)
LEMMA Steps ==
  ASSUME [Next]_vars
  PROVE  \/ UNCHANGED vars
         \/ \E e \in Employees : HR(e)
         \/ \E p \in Procs :
              \/ \E l \in Leaves : CheckOverlap(p, l)
              \/ ReadBalance(p)
              \/ CommitBooking(p)
              \/ \E r \in Requests :
                    (\E s \in Statuses : ReadForDecision(p, r, s)) \/ ReadForDeletion(p, r)
              \/ CommitDecision(p)
              \/ CommitDeletion(p)
<1>1. \A k \in Keys : k[1] \in Employees
  BY DEF Keys
<1>2. ASSUME NEW k \in Keys,
             \/ \E n \in Totals : CreateBalance(k, n) \/ UpdateBalance(k, n)
             \/ DeleteBalance(k)
      PROVE  HR(k[1])
  BY <1>2 DEF HR
<1>3. ASSUME NEW e \in Employees, NEW y \in Years,
             \/ InitializeDefaultBalances(e, y)
             \/ \E T \in SUBSET LeaveTypes : \E f \in [T -> Totals] : CreateBulk(e, y, f)
      PROVE  HR(e)
  BY <1>3 DEF HR
<1> QED BY <1>1, <1>2, <1>3 DEF Next

-----------------------------------------------------------------------------
(* Alone with a request *)

(* A handler that goes idle holds nothing; who keeps a request keeps it pending   *)
(* as long as it is not somebody else's.                                          *)
LEMMA HolderGone ==
  ASSUME IInv, HoldsAlone, NEW p \in Procs, Goto(p, Idle), UNCHANGED contentions,
         contentions = 0 =>
            \A r \in Requests : ~Holds(p, r) /\ IsPending(r) => IsPending(r)'
  PROVE  HoldsAlone'
<1> SUFFICES ASSUME contentions = 0, NEW r \in Requests, NEW q \in Procs, Holds(q, r)'
             PROVE  IsPending(r)' /\ \A o \in Procs : Holds(o, r)' => q = o
  BY DEF HoldsAlone
<1>1. handler'[p] = Idle /\ \A o \in Procs \ {p} : handler'[o] = handler[o]
  BY DEF Goto, IInv, TypeOK
<1>2. ~Holds(p, r)' /\ \A o \in Procs \ {p} : Holds(o, r)' => Holds(o, r)
  BY <1>1 DEF Holds, Idle
<1>3. q # p /\ Holds(q, r)
  BY <1>2
<1>4. ~Holds(p, r) /\ IsPending(r)
  BY <1>3 DEF HoldsAlone
<1> QED BY <1>2, <1>3, <1>4 DEF HoldsAlone

LEMMA HoldsStep ==
  ASSUME IInv, EmptyRows, HoldsAlone, [Next]_vars
  PROVE  HoldsAlone'
<1>1. CASE UNCHANGED <<requests, handler, contentions>>
  BY <1>1 DEF HoldsAlone, Holds, IsPending, Visible
<1>2. ASSUME NEW p \in Procs, NEW h, Goto(p, h), h.pc \notin {"deciding", "deleting"},
             UNCHANGED <<requests, contentions>>
      PROVE  HoldsAlone'
  <2>1. handler'[p] = h /\ \A o \in Procs \ {p} : handler'[o] = handler[o]
    BY <1>2 DEF Goto, IInv, TypeOK
  <2>2. \A r : ~Holds(p, r)' /\ \A o \in Procs \ {p} : Holds(o, r)' => Holds(o, r)
    BY <1>2, <2>1 DEF Holds
  <2>3. \A r \in Requests : IsPending(r) => IsPending(r)'
    BY <1>2 DEF IsPending, Visible
  <2> QED BY <1>2, <2>2, <2>3 DEF HoldsAlone
<1>3. ASSUME NEW p \in Procs, NEW r \in Requests, NEW h, Claim(p, r, h), h.req = r
      PROVE  HoldsAlone'
  <2> SUFFICES ASSUME contentions' = 0 PROVE HoldsAlone'
    BY DEF HoldsAlone
  <2>1. handler'[p] = h /\ \A o \in Procs \ {p} : handler'[o] = handler[o]
    BY <1>3 DEF Claim, Goto, IInv, TypeOK
  <2>2. contentions = 0 /\ ~\E q \in Procs : Holds(q, r)
    BY <1>3 DEF Claim, IInv, TypeOK
  <2>3. \A s \in Requests : Holds(p, s)' => s = r
    BY <1>3, <2>1 DEF Holds
  <2>4. \A s \in Requests : \A o \in Procs \ {p} : Holds(o, s)' => Holds(o, s) /\ s # r
    BY <2>1, <2>2 DEF Holds
  <2>5. \A s \in Requests : IsPending(s)' <=> IsPending(s)
    BY <1>3 DEF Claim, IsPending, Visible
  <2>6. IsPending(r)
    BY <1>3 DEF Claim
  <2> QED BY <2>2, <2>3, <2>4, <2>5, <2>6 DEF HoldsAlone
<1>4. ASSUME NEW p \in Procs, CommitBooking(p) PROVE HoldsAlone'
  <2>1. /\ Goto(p, Idle) /\ UNCHANGED contentions
        /\ \/ UNCHANGED requests
           \/ \E r \in Requests, l \in Leaves, k \in Keys : Books(p, r, l, k)
    BY <1>4, BookingEffect
  <2>2. \A r \in Requests : IsPending(r) => IsPending(r)'
    BY <2>1 DEF Books, IsPending, Visible, NoRequest, IInv, TypeOK
  <2> QED BY <2>1, <2>2, HolderGone
<1>5. ASSUME NEW p \in Procs, CommitDecision(p) PROVE HoldsAlone'
  <2>1. /\ Goto(p, Idle) /\ UNCHANGED contentions
        /\ \/ UNCHANGED requests
           \/ \E r \in Requests, l \in Leaves, k \in Keys, s \in Statuses :
                Holds(p, r) /\ Decides(r, l, k, s)
    BY <1>5, DecisionEffect
  <2>2. \A r \in Requests : ~Holds(p, r) /\ IsPending(r) => IsPending(r)'
    BY <2>1 DEF Decides, IsPending, Visible, IInv, TypeOK
  <2> QED BY <2>1, <2>2, HolderGone
<1>6. ASSUME NEW p \in Procs, CommitDeletion(p) PROVE HoldsAlone'
  <2>1. /\ Goto(p, Idle) /\ UNCHANGED contentions
        /\ \/ UNCHANGED requests
           \/ \E r \in Requests, l \in Leaves, k \in Keys :
                Holds(p, r) /\ Deletes(r, l, k)
    BY <1>6, DeletionEffect
  <2>2. \A r \in Requests : ~Holds(p, r) /\ IsPending(r) => IsPending(r)'
    BY <2>1 DEF Deletes, IsPending, Visible, IInv, TypeOK
  <2> QED BY <2>1, <2>2, HolderGone
<1>7. ASSUME NEW e \in Employees, HR(e) PROVE HoldsAlone'
  BY <1>1, <1>7, HREffect DEF Quiet
<1>8. ASSUME NEW p \in Procs, NEW l \in Leaves, CheckOverlap(p, l) PROVE HoldsAlone'
  BY <1>2, <1>8 DEF CheckOverlap
<1>9. ASSUME NEW p \in Procs, ReadBalance(p) PROVE HoldsAlone'
  BY <1>2, <1>9 DEF ReadBalance, Idle
<1>10. ASSUME NEW p \in Procs, NEW r \in Requests,
              (\E s \in Statuses : ReadForDecision(p, r, s)) \/ ReadForDeletion(p, r)
       PROVE  HoldsAlone'
  BY <1>3, <1>10 DEF ReadForDecision, ReadForDeletion
<1>11. CASE UNCHANGED vars
  BY <1>1, <1>11 DEF vars
<1> QED BY <1>4, <1>5, <1>6, <1>7, <1>8, <1>9, <1>10, <1>11, Steps

-----------------------------------------------------------------------------
(* The sums *)

LEMMA SumsType ==
  ASSUME TypeOK, NEW k \in Keys
  PROVE  /\ Approved(k) \in SUBSET Requests /\ Undecided(k) \in SUBSET Requests
         /\ \A r \in Approved(k) \cup Undecided(k) :
               requests[r].leave \in Leaves /\ KeyOf(requests[r].leave) = k
         /\ DaysOf(Approved(k)) \in Nat /\ DaysOf(Undecided(k)) \in Nat
         /\ balances[k].used \in Nat /\ balances[k].pending \in Int
<1>1. /\ Approved(k) \in SUBSET Requests /\ Undecided(k) \in SUBSET Requests
      /\ \A r \in Approved(k) \cup Undecided(k) :
            requests[r].leave \in Leaves /\ KeyOf(requests[r].leave) = k
  BY StoredFacts DEF Approved, Undecided, OnKey
<1>2. DaysOf(Approved(k)) \in Nat /\ DaysOf(Undecided(k)) \in Nat
  BY <1>1, DaysFinite DEF DaysOf
<1> QED BY <1>1, <1>2 DEF TypeOK, Balance

(* A balance whose requests and days stay keeps its sums.                         *)
LEMMA SumsKept ==
  ASSUME TypeOK, Sums, UNCHANGED contentions, NEW k \in Keys,
         balances'[k].used = balances[k].used,
         balances'[k].pending = balances[k].pending,
         Approved(k)' = Approved(k), Undecided(k)' = Undecided(k),
         \A r \in Approved(k) \cup Undecided(k) : requests'[r].leave = requests[r].leave
  PROVE  SumsAt(k)'
<1>1. DaysNamed(requests', Approved(k)) = DaysNamed(requests, Approved(k))
  BY DaysSame
<1>2. DaysNamed(requests', Undecided(k)) = DaysNamed(requests, Undecided(k))
  BY DaysSame
<1>3. /\ DaysOf(Approved(k))' = DaysOf(Approved(k))
      /\ DaysOf(Undecided(k))' = DaysOf(Undecided(k))
  BY <1>1, <1>2 DEF DaysOf
<1>4. SumsAt(k)
  BY DEF Sums
<1> QED BY <1>3, <1>4 DEF SumsAt

(* The sums hold again when they do for one key, and its request is all that      *)
(* changed.                                                                       *)
LEMMA SumsElsewhere ==
  ASSUME IInv, Sums, UNCHANGED contentions, NEW r \in Requests, NEW k \in Keys,
         \A q \in Requests \ {r} : requests'[q] = requests[q],
         \A j \in Keys \ {k} : balances'[j] = balances[j],
         Stored(r) => KeyOf(requests[r].leave) = k,
         Stored(r)' => KeyOf(requests'[r].leave) = k,
         SumsAt(k)'
  PROVE  Sums'
<1>1. ASSUME NEW j \in Keys \ {k}
      PROVE  /\ Approved(j)' = Approved(j) /\ Undecided(j)' = Undecided(j)
             /\ \A q \in Approved(j) \cup Undecided(j) :
                   requests'[q].leave = requests[q].leave
  <2>1. \A q \in Requests \ {r} : /\ Stored(q)' = Stored(q) /\ Visible(q)' = Visible(q)
                                  /\ KeyOf(requests'[q].leave) = KeyOf(requests[q].leave)
    BY DEF Stored, Visible, KeyOf
  <2>2. /\ r \notin Approved(j) /\ r \notin Undecided(j)
        /\ ~(Stored(r)' /\ KeyOf(requests'[r].leave) = j)
    BY DEF Approved, Undecided, OnKey
  <2>3. \A q \in Requests : /\ q \in Approved(j)' <=> q \in Approved(j)
                            /\ q \in Undecided(j)' <=> q \in Undecided(j)
    BY <2>1, <2>2 DEF Approved, Undecided, OnKey, KeyOf
  <2>4. /\ Approved(j) \subseteq Requests /\ Undecided(j) \subseteq Requests
        /\ Approved(j)' \subseteq Requests /\ Undecided(j)' \subseteq Requests
    BY DEF Approved, Undecided, OnKey
  <2> QED BY <2>2, <2>3, <2>4
<1>2. \A j \in Keys \ {k} : SumsAt(j)'
  BY <1>1, SumsKept DEF IInv
<1> QED BY <1>2 DEF Sums

LEMMA QuietSums ==
  ASSUME IInv, Sums, Quiet, UNCHANGED contentions
  PROVE  Sums'
<1>1. ASSUME NEW k \in Keys
      PROVE  /\ Approved(k)' = Approved(k) /\ Undecided(k)' = Undecided(k)
             /\ balances'[k].used = balances[k].used
             /\ balances'[k].pending = balances[k].pending
             /\ requests' = requests
  BY DEF Quiet, Approved, Undecided, OnKey, Stored, Visible, KeyOf
<1>2. \A k \in Keys : SumsAt(k)'
  BY <1>1, SumsKept DEF IInv
<1> QED BY <1>2 DEF Sums

LEMMA BookingSums ==
  ASSUME Ledger, TypeOK', NEW p \in Procs, CommitBooking(p)
  PROVE  Sums'
<1> USE DEF Ledger
<1>1. PICK l \in Leaves, k \in Keys :
        /\ k = KeyOf(l)
        /\ \/ UNCHANGED <<requests, balances>>
           \/ \E r \in Requests : Books(p, r, l, k)
  BY BookingEffect
<1>2. UNCHANGED contentions
  BY BookingEffect
<1>3. CASE UNCHANGED <<requests, balances>>
  BY <1>2, <1>3, QuietSums DEF Quiet
<1>4. ASSUME NEW r \in Requests, Books(p, r, l, k) PROVE Sums'
  <2>1. /\ requests'[r] = [row |-> "live", leave |-> l, status |-> "PENDING"]
        /\ \A q \in Requests \ {r} : requests'[q] = requests[q]
    BY <1>4 DEF Books, IInv, TypeOK
  <2>2. ~Stored(r) /\ KeyOf(requests'[r].leave) = k
    BY <1>1, <1>4, <2>1 DEF Books, NoRequest, Stored, KeyOf
  <2>3. Approved(k)' = Approved(k) /\ Undecided(k)' = Undecided(k) \cup {r}
    <3>1. /\ r \notin Approved(k) /\ r \notin Approved(k)'
          /\ r \in Undecided(k)'
      BY <2>1, <2>2 DEF Approved, Undecided, OnKey, Stored, Visible, Statuses, KeyOf
    <3>2. \A q \in Requests \ {r} : /\ q \in Approved(k)' <=> q \in Approved(k)
                                    /\ q \in Undecided(k)' <=> q \in Undecided(k)
      BY <2>1 DEF Approved, Undecided, OnKey, Stored, Visible, KeyOf
    <3>3. /\ Approved(k) \subseteq Requests /\ Undecided(k) \subseteq Requests
          /\ Approved(k)' \subseteq Requests /\ Undecided(k)' \subseteq Requests
      BY DEF Approved, Undecided, OnKey
    <3> QED BY <3>1, <3>2, <3>3
  <2>4. r \notin Undecided(k) /\ r \notin Approved(k)
    BY <2>2 DEF Approved, Undecided, OnKey
  <2>5. /\ Approved(k) \in SUBSET Requests /\ Undecided(k) \in SUBSET Requests
        /\ \A q \in Approved(k) \cup Undecided(k) :
              requests[q].leave \in Leaves /\ requests[q].leave = requests'[q].leave
        /\ requests'[r].leave = l
    BY <2>1, <2>4, SumsType DEF IInv
  <2>6. DaysOf(Approved(k))' = DaysOf(Approved(k))
    BY <2>3, <2>5, DaysSame DEF DaysOf
  <2>7. DaysOf(Undecided(k))' = DaysOf(Undecided(k)) + Released(l)
    <3>1. Cardinality(DaysNamed(requests', Undecided(k) \cup {r})) =
            Cardinality(DaysNamed(requests, Undecided(k))) + Released(requests'[r].leave)
      BY <2>4, <2>5, DaysAdded
    <3> QED BY <2>3, <2>5, <3>1 DEF DaysOf
  <2>8. /\ balances'[k].used = balances[k].used
        /\ balances'[k].pending = balances[k].pending + Booked(l)
    BY <1>4 DEF Books
  <2>9. /\ Released(l) \in Nat /\ Booked(l) \in Nat /\ Booked(l) >= Released(l)
        /\ PartDays = {0} => Booked(l) = Released(l)
    <3>1. l.part \in PartDays /\ l.part \in {0, 1}
      BY LeavesAssumption DEF Leaves
    <3> QED BY <3>1, DaysType DEF Booked
  <2>10. /\ DaysOf(Approved(k)) \in Nat /\ DaysOf(Undecided(k)) \in Nat
         /\ balances[k].used \in Nat /\ balances[k].pending \in Int
    BY SumsType DEF IInv
  <2>11. SumsAt(k)'
    <3>1. SumsAt(k)
      BY DEF Sums
    <3>2. \A a, b, c, d \in Int : a >= b /\ c >= d => a + c >= b + d
      OBVIOUS
    <3> QED BY <1>2, <2>6, <2>7, <2>8, <2>9, <2>10, <3>1 DEF SumsAt
  <2> QED BY <1>2, <1>4, <2>1, <2>2, <2>11, SumsElsewhere DEF Books
<1> QED BY <1>1, <1>3, <1>4

LEMMA DecisionSums ==
  ASSUME Ledger, TypeOK', NEW p \in Procs, CommitDecision(p)
  PROVE  Sums'
<1> USE DEF Ledger
<1>1. PICK r \in Requests, l \in Leaves, k \in Keys, s \in Statuses :
        /\ k = KeyOf(l) /\ Holds(p, r)
        /\ UNCHANGED <<requests, balances>> \/ Decides(r, l, k, s)
  BY DecisionEffect
<1>2. UNCHANGED contentions
  BY DecisionEffect
<1>3. CASE UNCHANGED <<requests, balances>>
  BY <1>2, <1>3, QuietSums DEF Quiet
<1>4. CASE Decides(r, l, k, s)
  <2> DEFINE n == Released(l)
  <2>1. /\ requests[r] \in Request
        /\ requests'[r] = [requests[r] EXCEPT !.status = s]
        /\ \A q \in Requests \ {r} : requests'[q] = requests[q]
    BY <1>4, StoredType DEF Decides, IInv, TypeOK
  <2>2. /\ requests'[r].row = requests[r].row /\ requests'[r].leave = l
        /\ requests'[r].status = s /\ requests[r].leave = l
        /\ Stored(r) /\ Stored(r)'
    BY <1>4, <2>1 DEF Decides, Request, Stored
  <2>3. /\ \A q \in Requests \ {r} : /\ q \in Approved(k)' <=> q \in Approved(k)
                                     /\ q \in Undecided(k)' <=> q \in Undecided(k)
        /\ r \in Approved(k)' <=> s = "APPROVED"
        /\ r \in Undecided(k)' <=> Visible(r) /\ s \notin {"APPROVED", "REJECTED"}
    BY <1>1, <2>1, <2>2 DEF Approved, Undecided, OnKey, Stored, Visible, KeyOf
  <2>4. /\ Approved(k) \in SUBSET Requests /\ Undecided(k) \in SUBSET Requests
        /\ Approved(k)' \in SUBSET Requests /\ Undecided(k)' \in SUBSET Requests
        /\ \A q \in Approved(k) \cup Undecided(k) : requests[q].leave \in Leaves
        /\ \A q \in Approved(k)' \cup Undecided(k)' : requests'[q].leave \in Leaves
        /\ \A q \in Requests : Stored(q) => requests'[q].leave = requests[q].leave
    BY <2>1, <2>2, SumsType DEF IInv, Approved, Undecided, OnKey, DaysOf, Stored, Visible,
                                KeyOf
  <2>5. /\ \A q \in Approved(k) \cup Undecided(k) : Stored(q)
        /\ \A q \in Approved(k)' \cup Undecided(k)' : Stored(q)
    BY <2>1, <2>2 DEF Approved, Undecided, OnKey, Stored
  <2>6. /\ DaysOf(Approved(k)) \in Nat /\ DaysOf(Undecided(k)) \in Nat
        /\ balances[k].used \in Nat /\ balances[k].pending \in Int /\ n \in Nat
    BY SumsType, DaysType DEF IInv
  <2>7. /\ balances'[k].used = balances[k].used + IF s = "APPROVED" THEN n ELSE 0
        /\ balances'[k].pending = balances[k].pending
              - IF s \in {"APPROVED", "REJECTED"} THEN n ELSE 0
    BY <1>4 DEF Decides
  <2>8. SumsAt(k)
    BY DEF Sums
  (* The approved days grow by no more than the used ones. *)
  <2>9. DaysOf(Approved(k))' \in Nat /\ DaysOf(Undecided(k))' \in Nat
    BY <2>4, DaysFinite DEF DaysOf
  <2>10. balances'[k].used >= DaysOf(Approved(k))'
    <3>1. CASE s = "APPROVED" /\ r \notin Approved(k)
      <4>1. Approved(k)' = Approved(k) \cup {r}
        BY <2>3, <2>4, <3>1
      <4>2. Cardinality(DaysNamed(requests', Approved(k) \cup {r})) =
              Cardinality(DaysNamed(requests, Approved(k))) + Released(requests'[r].leave)
        BY <2>2, <2>4, <2>5, <3>1, DaysAdded
      <4>3. DaysOf(Approved(k))' = DaysOf(Approved(k)) + n
        BY <2>2, <4>1, <4>2 DEF DaysOf
      <4> QED BY <2>6, <2>7, <2>8, <3>1, <4>3 DEF SumsAt
    <3>2. CASE ~(s = "APPROVED" /\ r \notin Approved(k))
      <4>1. Approved(k)' \in SUBSET Approved(k)
        BY <2>3, <2>4, <3>2
      <4>2. DaysNamed(requests', Approved(k)') = DaysNamed(requests, Approved(k)')
        BY <2>4, <2>5, DaysSame
      <4>3. Cardinality(DaysNamed(requests, Approved(k)'))
              <= Cardinality(DaysNamed(requests, Approved(k)))
        BY <2>4, <4>1, DaysMonotone
      <4>4. DaysOf(Approved(k))' <= DaysOf(Approved(k))
        BY <4>2, <4>3 DEF DaysOf
      <4> QED BY <2>6, <2>7, <2>8, <2>9, <4>4 DEF SumsAt
    <3> QED BY <3>1, <3>2
  (* Alone with the request, the handler decides what was pending. *)
  <2>11. ASSUME contentions = 0
         PROVE  /\ balances'[k].used = DaysOf(Approved(k))'
                /\ balances'[k].pending >= DaysOf(Undecided(k))'
                /\ PartDays = {0} => balances'[k].pending = DaysOf(Undecided(k))'
    <3>1. IsPending(r)
      BY <1>1, <2>11 DEF HoldsAlone
    <3>2. r \in Undecided(k) /\ r \notin Approved(k) /\ Visible(r)
      BY <1>1, <2>2, <3>1 DEF IsPending, Visible, Undecided, Approved, OnKey, Stored, Statuses
    <3>3. CASE s \in {"APPROVED", "REJECTED"}
      <4>1. r \notin Undecided(k)' /\ Undecided(k) = Undecided(k)' \cup {r}
        BY <2>3, <2>4, <3>2, <3>3
      <4>2. Cardinality(DaysNamed(requests, Undecided(k)' \cup {r})) =
              Cardinality(DaysNamed(requests', Undecided(k)')) + Released(requests[r].leave)
        BY <2>2, <2>4, <2>5, <4>1, DaysAdded
      <4>3. DaysOf(Undecided(k)) = DaysOf(Undecided(k))' + n
        BY <2>2, <4>1, <4>2 DEF DaysOf
      <4>4. DaysOf(Approved(k))' = DaysOf(Approved(k)) + IF s = "APPROVED" THEN n ELSE 0
        <5>1. CASE s = "APPROVED"
          <6>1. Approved(k)' = Approved(k) \cup {r}
            BY <2>3, <2>4, <5>1
          <6>2. Cardinality(DaysNamed(requests', Approved(k) \cup {r})) =
                  Cardinality(DaysNamed(requests, Approved(k))) + Released(requests'[r].leave)
            BY <2>2, <2>4, <2>5, <3>2, DaysAdded
          <6> QED BY <2>2, <5>1, <6>1, <6>2 DEF DaysOf
        <5>2. CASE s # "APPROVED"
          <6>1. Approved(k)' = Approved(k)
            <7>1. \A q \in Requests : q \in Approved(k)' <=> q \in Approved(k)
              BY <2>3, <3>2, <5>2
            <7> QED BY <2>4, <7>1
          <6>2. DaysNamed(requests', Approved(k)) = DaysNamed(requests, Approved(k))
            BY <2>4, <2>5, DaysSame
          <6> QED BY <2>6, <5>2, <6>1, <6>2 DEF DaysOf
        <5> QED BY <5>1, <5>2
      <4> QED BY <2>6, <2>7, <2>8, <2>9, <2>11, <3>3, <4>3, <4>4 DEF SumsAt
    <3>4. CASE s \notin {"APPROVED", "REJECTED"}
      <4>1. Approved(k)' = Approved(k) /\ Undecided(k)' = Undecided(k)
        <5>1. \A q \in Requests : /\ q \in Approved(k)' <=> q \in Approved(k)
                                  /\ q \in Undecided(k)' <=> q \in Undecided(k)
          BY <2>3, <3>2, <3>4
        <5> QED BY <2>4, <5>1
      <4>2. /\ DaysNamed(requests', Approved(k)) = DaysNamed(requests, Approved(k))
            /\ DaysNamed(requests', Undecided(k)) = DaysNamed(requests, Undecided(k))
        BY <2>4, <2>5, DaysSame
      <4>3. /\ DaysOf(Approved(k))' = DaysOf(Approved(k))
            /\ DaysOf(Undecided(k))' = DaysOf(Undecided(k))
        BY <4>1, <4>2 DEF DaysOf
      <4> QED BY <2>6, <2>7, <2>8, <2>11, <3>4, <4>3 DEF SumsAt
    <3> QED BY <3>3, <3>4
  <2>12. SumsAt(k)'
    BY <1>2, <2>10, <2>11 DEF SumsAt
  <2>13. KeyOf(requests[r].leave) = k /\ KeyOf(requests'[r].leave) = k
    BY <1>1, <2>2
  <2> QED BY <1>2, <1>4, <2>1, <2>12, <2>13, SumsElsewhere DEF Decides
<1> QED BY <1>1, <1>3, <1>4

LEMMA DeletionSums ==
  ASSUME Ledger, TypeOK', NEW p \in Procs, CommitDeletion(p)
  PROVE  Sums'
<1> USE DEF Ledger
<1>1. PICK r \in Requests, l \in Leaves, k \in Keys :
        /\ k = KeyOf(l) /\ Holds(p, r)
        /\ UNCHANGED <<requests, balances>> \/ Deletes(r, l, k)
  BY DeletionEffect
<1>2. UNCHANGED contentions
  BY DeletionEffect
<1>3. CASE UNCHANGED <<requests, balances>>
  BY <1>2, <1>3, QuietSums DEF Quiet
<1>4. CASE Deletes(r, l, k)
  <2> DEFINE n == Released(l)
  <2>1. /\ requests[r].leave = l /\ Stored(r)
        /\ requests'[r].row # "live"
        /\ Stored(r)' => /\ requests'[r].leave = l
                         /\ requests'[r].status = requests[r].status
        /\ \A q \in Requests \ {r} : requests'[q] = requests[q]
        /\ balances'[k].used = balances[k].used
        /\ balances'[k].pending = balances[k].pending - n
    BY <1>4 DEF Deletes
  <2>2. /\ \A q \in Requests \ {r} : /\ q \in Approved(k)' <=> q \in Approved(k)
                                     /\ q \in Undecided(k)' <=> q \in Undecided(k)
        /\ r \in Approved(k)' => r \in Approved(k)
        /\ r \notin Undecided(k)'
    BY <1>1, <2>1 DEF Approved, Undecided, OnKey, Stored, Visible, KeyOf
  <2>3. /\ Approved(k) \in SUBSET Requests /\ Undecided(k) \in SUBSET Requests
        /\ Approved(k)' \in SUBSET Requests /\ Undecided(k)' \in SUBSET Requests
        /\ \A q \in Approved(k) \cup Undecided(k) : requests[q].leave \in Leaves
    BY SumsType DEF IInv, Approved, Undecided, OnKey
  <2>4. \A q \in Approved(k)' \cup Undecided(k)' : requests'[q].leave = requests[q].leave
    <3>1. \A q \in Approved(k)' \cup Undecided(k)' : q \in Requests /\ Stored(q)'
      BY DEF Approved, Undecided, OnKey
    <3> QED BY <2>1, <3>1
  <2>5. Approved(k)' \in SUBSET Approved(k) /\ Undecided(k)' \in SUBSET Undecided(k)
    BY <2>2, <2>3
  <2>6. /\ DaysNamed(requests', Approved(k)') = DaysNamed(requests, Approved(k)')
        /\ DaysNamed(requests', Undecided(k)') = DaysNamed(requests, Undecided(k)')
    BY <2>4, DaysSame
  <2>7. /\ DaysOf(Approved(k)) \in Nat /\ DaysOf(Undecided(k)) \in Nat
        /\ balances[k].used \in Nat /\ balances[k].pending \in Int /\ n \in Nat
    BY SumsType, DaysType DEF IInv
  <2>8. DaysOf(Approved(k))' \in Nat /\ DaysOf(Undecided(k))' \in Nat
    <3>1. \A q \in Approved(k)' \cup Undecided(k)' : requests'[q].leave \in Leaves
      BY <2>3, <2>4, <2>5
    <3> QED BY <2>3, <3>1, DaysFinite DEF DaysOf
  <2>9. SumsAt(k)
    BY DEF Sums
  <2>10. DaysOf(Approved(k))' <= DaysOf(Approved(k))
    <3>1. Cardinality(DaysNamed(requests, Approved(k)'))
            <= Cardinality(DaysNamed(requests, Approved(k)))
      BY <2>3, <2>5, DaysMonotone
    <3> QED BY <2>6, <3>1 DEF DaysOf
  <2>11. ASSUME contentions = 0
         PROVE  /\ DaysOf(Approved(k))' = DaysOf(Approved(k))
                /\ DaysOf(Undecided(k)) = DaysOf(Undecided(k))' + n
    <3>1. IsPending(r)
      BY <1>1, <2>11 DEF HoldsAlone
    <3>2. r \in Undecided(k) /\ r \notin Approved(k)
      BY <1>1, <2>1, <3>1 DEF IsPending, Visible, Undecided, Approved, OnKey, Stored, Statuses
    <3>3. Approved(k)' = Approved(k)
      <4>1. \A q \in Requests : q \in Approved(k)' <=> q \in Approved(k)
        BY <2>2, <3>2
      <4> QED BY <2>3, <4>1
    <3>4. Undecided(k) = Undecided(k)' \cup {r}
      <4>1. \A q \in Requests : q \in Undecided(k) <=> q \in Undecided(k)' \/ q = r
        BY <2>2, <3>2
      <4> QED BY <2>3, <4>1
    <3>5. Cardinality(DaysNamed(requests, Undecided(k)' \cup {r})) =
            Cardinality(DaysNamed(requests', Undecided(k)')) + Released(requests[r].leave)
      <4>1. \A q \in Undecided(k)' : /\ requests'[q].leave = requests[q].leave
                                     /\ requests'[q].leave \in Leaves
        BY <2>3, <2>4, <2>5
      <4> QED BY <2>1, <2>2, <2>3, <4>1, DaysAdded
    <3> QED BY <2>1, <2>6, <3>3, <3>4, <3>5 DEF DaysOf
  <2>12. SumsAt(k)'
    BY <1>2, <2>1, <2>7, <2>8, <2>9, <2>10, <2>11 DEF SumsAt
  <2>13. /\ KeyOf(requests[r].leave) = k
         /\ Stored(r)' => KeyOf(requests'[r].leave) = k
    BY <1>1, <2>1
  <2> QED BY <1>2, <1>4, <2>1, <2>12, <2>13, SumsElsewhere DEF Deletes
<1> QED BY <1>1, <1>3, <1>4

LEMMA EmptyRowsStep ==
  ASSUME IInv, EmptyRows, [Next]_vars
  PROVE  EmptyRows'
<1>1. CASE Quiet
  BY <1>1 DEF Quiet, EmptyRows
<1>2. ASSUME UNCHANGED balances PROVE EmptyRows'
  BY <1>2 DEF EmptyRows
<1>3. ASSUME NEW p \in Procs, CommitBooking(p) PROVE EmptyRows'
  BY <1>2, <1>3, BookingEffect DEF Books, EmptyRows
<1>4. ASSUME NEW r \in Requests, NEW l \in Leaves, NEW k \in Keys,
             NEW s \in Statuses, k = KeyOf(l),
             Decides(r, l, k, s) \/ Deletes(r, l, k)
      PROVE  EmptyRows'
  <2>1. balances[k].row # "none"
    BY <1>4 DEF Decides, Deletes, IInv, RequestsHaveBalance
  <2>2. /\ balances'[k].row = balances[k].row
        /\ \A j \in Keys \ {k} : balances'[j] = balances[j]
    BY <1>4 DEF Decides, Deletes
  <2> QED BY <2>1, <2>2 DEF EmptyRows
<1>5. ASSUME NEW p \in Procs, CommitDecision(p) PROVE EmptyRows'
  BY <1>2, <1>4, <1>5, DecisionEffect
<1>6. ASSUME NEW p \in Procs, CommitDeletion(p) PROVE EmptyRows'
  <2>1. "PENDING" \in Statuses
    BY DEF Statuses
  <2> QED BY <1>2, <1>4, <1>6, <2>1, DeletionEffect
<1>7. ASSUME NEW e \in Employees, HR(e) PROVE EmptyRows'
  BY <1>1, <1>7, HREffect
<1> QED BY <1>2, <1>3, <1>5, <1>6, <1>7, Steps
        DEF vars, CheckOverlap, ReadBalance, ReadForDecision, ReadForDeletion, Claim

LEMMA LedgerStep == ASSUME Ledger, [Next]_vars PROVE Ledger'
<1>1. IInv' /\ TypeOK'
  BY StepInv DEF Ledger, IInv
<1>2. HoldsAlone' /\ EmptyRows'
  BY HoldsStep, EmptyRowsStep DEF Ledger
<1>3. ASSUME UNCHANGED <<requests, balances>>, contentions' = 0 => contentions = 0
      PROVE  Sums'
  <2>1. CASE UNCHANGED contentions
    BY <1>3, <2>1, QuietSums DEF Ledger, Quiet
  <2>2. CASE contentions' # 0
    BY <1>3, <2>2 DEF Ledger, Sums, SumsAt, DaysOf, Approved, OnKey, Stored, KeyOf
  <2> QED BY <1>3, <2>1, <2>2 DEF Ledger, IInv, TypeOK
<1>4. ASSUME NEW p \in Procs, NEW r \in Requests,
             (\E s \in Statuses : ReadForDecision(p, r, s)) \/ ReadForDeletion(p, r)
      PROVE  Sums'
  <2>1. \E h : Claim(p, r, h)
    BY <1>4 DEF ReadForDecision, ReadForDeletion
  <2> QED BY <1>3, <2>1 DEF Claim, Ledger, IInv, TypeOK
<1>5. ASSUME NEW e \in Employees, HR(e) PROVE Sums'
  BY <1>5, HREffect, QuietSums DEF Ledger
<1>6. ASSUME UNCHANGED vars PROVE Sums'
  BY <1>3, <1>6 DEF vars
<1>7. ASSUME NEW p \in Procs, NEW l \in Leaves, CheckOverlap(p, l) PROVE Sums'
  BY <1>3, <1>7 DEF CheckOverlap
<1>8. ASSUME NEW p \in Procs, ReadBalance(p) PROVE Sums'
  BY <1>3, <1>8 DEF ReadBalance
<1>9. Sums'
  BY <1>1, <1>4, <1>5, <1>6, <1>7, <1>8, BookingSums, DecisionSums, DeletionSums, Steps
<1> QED BY <1>1, <1>2, <1>9 DEF Ledger

LEMMA LedgerInit == Init => Ledger
<1> SUFFICES ASSUME Init PROVE Ledger
  OBVIOUS
<1>1. TypeOK
  BY InitType
<1>2. IInv
  BY <1>1 DEF Init, IInv, RequestsHaveBalance, EachApprovedIsCharged, HandlersKnow,
              Knows, Stored, NoRequest, Idle
<1>3. HoldsAlone
  BY DEF Init, HoldsAlone, Holds, Idle
<1>4. EmptyRows
  BY DEF Init, EmptyRows, NoBalance
<1>5. ASSUME NEW k \in Keys PROVE SumsAt(k)
  <2>1. Approved(k) = {} /\ Undecided(k) = {}
    BY DEF Init, Approved, Undecided, OnKey, Stored, NoRequest
  <2>2. DaysNamed(requests, {}) = {}
    BY DEF DaysNamed
  <2>3. DaysOf({}) = 0
    BY <2>2, FS_EmptySet DEF DaysOf
  <2>4. balances[k].used = 0 /\ balances[k].pending = 0
    BY DEF Init, NoBalance
  <2> QED BY <2>1, <2>3, <2>4 DEF SumsAt
<1> QED BY <1>2, <1>3, <1>4, <1>5 DEF Ledger, Sums

(* The used days of a balance cover every approved request, however decisions    *)
(* and deletions interleave: no increment of updateStatusAsync is lost.           *)
THEOREM ApprovedDaysAreUsed == Spec => []ApprovedAreCharged
<1>1. Ledger => ApprovedAreCharged
  BY DEF Ledger, Sums, SumsAt, ApprovedAreCharged, Approved
<1> QED BY <1>1, LedgerInit, LedgerStep, PTL DEF Spec

(* When requests are sent as dates, pendingDays and usedDays are exactly the days *)
(* of the requests still to decide and of the approved ones, as long as no two    *)
(* handlers hold one request.                                                     *)
THEOREM BalancesAddUp == ASSUME PartDays = {0} PROVE Spec => []LedgerIsExact
<1>1. Ledger => LedgerIsExact
  BY DEF Ledger, Sums, SumsAt, LedgerIsExact, Approved, Undecided
<1> QED BY <1>1, LedgerInit, LedgerStep, PTL DEF Spec

(* What is pending covers the requests still to decide with part days, too.       *)
PendingIsCovered ==
    contentions = 0 => \A k \in Keys : balances[k].pending >= DaysOf(Undecided(k))

(* Whatever the times of day, createAsync books enough for what a decision will   *)
(* release: pendingDays never runs below the requests still to decide.            *)
THEOREM PendingCovers == Spec => []PendingIsCovered
<1>1. Ledger => PendingIsCovered
  BY DEF Ledger, Sums, SumsAt, PendingIsCovered
<1> QED BY <1>1, LedgerInit, LedgerStep, PTL DEF Spec

-----------------------------------------------------------------------------
(* Creating requests *)

Creates(p) == handler[p].pc \in {"checked", "booking"}

(* Until something else is written for its employee, a createAsync is the only     *)
(* one, and the days it was given are still there.                                *)
LoneCreator ==
    ~crowded => \A p, q \in Procs :
        /\ Creates(p) /\ Creates(q)
        /\ handler[p].leave.emp = handler[q].leave.emp
        => p = q

ToBook(q, l, k) ==
    /\ handler[q].pc = "booking" /\ handler[q].leave = l /\ KeyOf(l) = k
    /\ handler[q].found /\ balances[k].row = "live"

BookingFits ==
    ~crowded => \A q \in Procs, l \in Leaves, k \in Keys :
        ToBook(q, l, k) => Available(k) >= Booked(l)

(* A request in the way of others.                                                *)
Blocks(r) == Visible(r) /\ requests[r].status # "REJECTED"

(* What the overlap query did not find has not come since.                        *)
CheckedFree ==
    ~crowded /\ contentions = 0 => \A p \in Procs :
        Creates(p) => ~Overlaps(handler[p].leave)

Creation == Ledger /\ LoneCreator /\ BookingFits /\ CheckedFree /\ NoOverlap

LEMMA OverlapsBlocks ==
  ASSUME NEW l
  PROVE  Overlaps(l) <=> \E r \in Requests : Blocks(r) /\ Intersect(requests[r].leave, l)
  BY DEF Overlaps, Blocks

LEMMA CreationInit == Init => Creation
<1>1. Init => Ledger
  BY LedgerInit
<1> QED BY <1>1 DEF Init, Creation, LoneCreator, Creates, BookingFits, ToBook, CheckedFree,
                    NoOverlap, Visible, NoRequest, Idle

(* A handler goes idle, and nothing new is in the way.                            *)
LEMMA NothingNew ==
  ASSUME Creation, NEW p \in Procs, UNCHANGED crowded, contentions' = 0 => contentions = 0,
         Goto(p, Idle) \/ UNCHANGED handler,
         contentions = 0 => \A r \in Requests :
            Blocks(r)' => Blocks(r) /\ requests'[r].leave = requests[r].leave
  PROVE  LoneCreator' /\ CheckedFree' /\ NoOverlap'
<1> USE DEF Creation
<1>1. \A q \in Procs : Creates(q)' => handler'[q] = handler[q] /\ Creates(q)
  BY DEF Creates, Goto, Idle, Ledger, IInv, TypeOK
<1>2. LoneCreator'
  BY <1>1 DEF LoneCreator, Creates
<1>3. CheckedFree'
  <2> SUFFICES ASSUME ~crowded, contentions = 0, NEW q \in Procs, Creates(q)',
                      NEW r \in Requests, Blocks(r)',
                      Intersect(requests'[r].leave, handler'[q].leave)
               PROVE  FALSE
    BY DEF CheckedFree, Overlaps, Blocks, Visible, Intersect
  <2>1. Blocks(r) /\ Intersect(requests[r].leave, handler[q].leave) /\ Creates(q)
    BY <1>1
  <2> QED BY <2>1 DEF CheckedFree, Overlaps, Blocks
<1>4. NoOverlap'
  <2> SUFFICES ASSUME ~crowded, contentions = 0, NEW r \in Requests, NEW s \in Requests,
                      r # s, Blocks(r)', Blocks(s)',
                      Intersect(requests'[r].leave, requests'[s].leave)
               PROVE  FALSE
    BY DEF NoOverlap, Blocks, Visible, Intersect
  <2>1. Blocks(r) /\ Blocks(s) /\ Intersect(requests[r].leave, requests[s].leave)
    BY DEF Intersect
  <2> QED BY <2>1 DEF NoOverlap, Blocks
<1> QED BY <1>2, <1>3, <1>4

LEMMA FitsBalances ==
  ASSUME Creation, TypeOK', UNCHANGED crowded,
         ~crowded => \A q \in Procs, l \in Leaves, k \in Keys :
            ToBook(q, l, k)' => ToBook(q, l, k) /\ Available(k)' >= Available(k)
  PROVE  BookingFits'
<1> SUFFICES ASSUME ~crowded, NEW q \in Procs, NEW l \in Leaves, NEW k \in Keys,
                    ToBook(q, l, k)'
             PROVE  Available(k)' >= Booked(l)
  BY DEF BookingFits
<1>1. ToBook(q, l, k) /\ Available(k)' >= Available(k)
  OBVIOUS
<1>2. Available(k) >= Booked(l)
  BY <1>1 DEF Creation, BookingFits
<1>3. Available(k) \in Int /\ Available(k)' \in Int /\ Booked(l) \in Int
  <2>1. balances[k] \in Balance /\ balances'[k] \in Balance
    BY DEF TypeOK, Creation, Ledger, IInv
  <2> QED BY <2>1, DaysType DEF Balance, Available
<1> QED BY <1>1, <1>2, <1>3

LEMMA CreationStep == ASSUME Creation, [Next]_vars PROVE Creation'
<1> USE DEF Creation
<1>1. Ledger' /\ IInv' /\ TypeOK' /\ IInv /\ EmptyRows /\ TypeOK
  BY LedgerStep DEF Ledger, IInv
<1>2. ASSUME UNCHANGED <<requests, balances, crowded>>,
             contentions' = 0 => contentions = 0,
             \E p \in Procs : Goto(p, Idle) \/ UNCHANGED handler
      PROVE  Creation'
  <2>1. LoneCreator' /\ CheckedFree' /\ NoOverlap'
    BY <1>2, NothingNew DEF Blocks, Visible
  <2>2. ~crowded => \A q \in Procs, l \in Leaves, k \in Keys :
          ToBook(q, l, k)' => ToBook(q, l, k) /\ Available(k)' >= Available(k)
    <3>1. \A q \in Procs : handler'[q] = handler[q] \/ handler'[q].pc = "idle"
      BY <1>1, <1>2 DEF Goto, Idle, TypeOK
    <3>2. \A k \in Keys : Available(k)' = Available(k) /\ Available(k) \in Int
      BY <1>1, <1>2 DEF Available, TypeOK, Balance
    <3> QED BY <1>2, <3>1, <3>2 DEF ToBook
  <2>3. BookingFits'
    BY <1>1, <1>2, <2>2, FitsBalances
  <2> QED BY <1>1, <2>1, <2>3
(* A createAsync begins. *)
<1>3. ASSUME NEW p \in Procs, NEW l \in Leaves, CheckOverlap(p, l) PROVE Creation'
  <2>1. /\ handler'[p] = [pc |-> "checked", leave |-> l]
        /\ \A q \in Procs \ {p} : handler'[q] = handler[q]
        /\ ~Creates(p)
    BY <1>1, <1>3 DEF CheckOverlap, Goto, TypeOK, Creates
  <2>2. /\ UNCHANGED <<requests, balances, contentions>>
        /\ ~Overlaps(l)
        /\ ~crowded' => /\ ~crowded
                        /\ \A q \in Procs : Creates(q) => handler[q].leave.emp # l.emp
    BY <1>3 DEF CheckOverlap, Creating, Creates
  <2>3. /\ Creates(p)' /\ handler'[p].leave = l
        /\ \A q \in Procs \ {p} : Creates(q)' <=> Creates(q)
    BY <2>1 DEF Creates
  <2>4. LoneCreator'
    BY <2>1, <2>2, <2>3 DEF LoneCreator
  <2>5. CheckedFree'
    <3>1. \A m : Overlaps(m)' <=> Overlaps(m)
      BY <2>2 DEF Overlaps, Visible, Intersect
    <3> QED BY <2>1, <2>2, <2>3, <3>1 DEF CheckedFree, Overlaps, Visible, Intersect
  <2>6. NoOverlap'
    BY <2>2 DEF NoOverlap, Visible, Intersect
  <2>7. BookingFits'
    BY <2>1, <2>2 DEF BookingFits, ToBook, Available
  <2> QED BY <1>1, <2>4, <2>5, <2>6, <2>7
<1>4. ASSUME NEW p \in Procs, ReadBalance(p) PROVE Creation'
  <2>1. CASE Goto(p, Idle)
    BY <1>2, <1>4, <2>1 DEF ReadBalance
  <2>2. CASE ~Goto(p, Idle)
    <3>1. PICK l \in Leaves, k \in Keys : l = handler[p].leave /\ k = KeyOf(l)
      BY <1>1, <1>4, HandlerFields, KeyOfType DEF ReadBalance, Idle
    <3>2. PICK h : h = [pc |-> "booking", leave |-> l, found |-> balances[k].row = "live"]
      OBVIOUS
    <3>3. /\ Goto(p, h) /\ UNCHANGED <<requests, balances, contentions, crowded>>
          /\ Creates(p)
          /\ balances[k].row = "live" => Available(k) >= Booked(l)
      BY <1>4, <2>2, <3>1, <3>2 DEF ReadBalance, Creates
    <3>4. /\ handler'[p] = h /\ \A q \in Procs \ {p} : handler'[q] = handler[q]
      BY <1>1, <3>3 DEF Goto, TypeOK
    <3>5. /\ \A q \in Procs : Creates(q)' => Creates(q)
          /\ \A q \in Procs : Creates(q)' => handler'[q].leave = handler[q].leave
      BY <3>1, <3>2, <3>3, <3>4 DEF Creates
    <3>6. LoneCreator'
      BY <3>3, <3>5 DEF LoneCreator
    <3>7. CheckedFree'
      BY <3>3, <3>5 DEF CheckedFree, Overlaps, Visible, Intersect
    <3>8. NoOverlap'
      BY <3>3 DEF NoOverlap, Visible, Intersect
    <3>9. BookingFits'
      BY <3>1, <3>2, <3>3, <3>4 DEF BookingFits, ToBook, Available
    <3> QED BY <1>1, <3>6, <3>7, <3>8, <3>9
  <2> QED BY <2>1, <2>2
(* A createAsync ends: its request is in nobody's way, and nobody else books on    *)
(* its balance.                                                                    *)
<1>5. ASSUME NEW p \in Procs, CommitBooking(p) PROVE Creation'
  <2>1. PICK l \in Leaves, k \in Keys :
          /\ l = handler[p].leave /\ k = KeyOf(l)
          /\ \/ UNCHANGED <<requests, balances>>
             \/ \E r \in Requests : Books(p, r, l, k)
    BY <1>1, <1>5, BookingEffect
  <2>2. Goto(p, Idle) /\ UNCHANGED <<contentions, crowded>> /\ Creates(p)
    BY <1>1, <1>5, BookingEffect DEF CommitBooking, Creates
  <2>3. CASE UNCHANGED <<requests, balances>>
    BY <1>2, <2>2, <2>3
  <2>4. ASSUME NEW r \in Requests, Books(p, r, l, k) PROVE Creation'
    <3>1. /\ requests'[r] = [row |-> "live", leave |-> l, status |-> "PENDING"]
          /\ \A q \in Requests \ {r} : requests'[q] = requests[q]
          /\ \A j \in Keys \ {k} : balances'[j] = balances[j]
      BY <1>1, <2>4 DEF Books, TypeOK
    <3>2. /\ handler'[p] = Idle /\ ~Creates(p)'
          /\ \A q \in Procs \ {p} : handler'[q] = handler[q]
      BY <1>1, <2>2 DEF Goto, Idle, Creates, TypeOK
    <3>3. ~crowded => \A q \in Procs \ {p} : Creates(q) => handler[q].leave.emp # l.emp
      BY <2>1, <2>2 DEF LoneCreator
    <3>4. LoneCreator'
      BY <2>2, <3>2 DEF LoneCreator, Creates
    <3>5. \A s \in Requests \ {r} : /\ Blocks(s)' <=> Blocks(s)
                                    /\ requests'[s].leave = requests[s].leave
      BY <3>1 DEF Blocks, Visible
    <3>6. CheckedFree'
      <4> SUFFICES ASSUME ~crowded, contentions = 0, NEW q \in Procs, Creates(q)',
                          NEW s \in Requests, Blocks(s)',
                          Intersect(requests'[s].leave, handler'[q].leave)
                   PROVE  FALSE
        BY <2>2 DEF CheckedFree, Overlaps, Blocks, Visible, Intersect
      <4>1. q # p /\ handler'[q] = handler[q] /\ Creates(q)
        BY <3>2 DEF Creates
      <4>2. CASE s = r
        BY <3>1, <3>3, <4>1, <4>2 DEF Intersect
      <4>3. CASE s # r
        BY <3>5, <4>1, <4>3 DEF CheckedFree, Overlaps, Blocks
      <4> QED BY <4>2, <4>3
    <3>7. NoOverlap'
      <4> SUFFICES ASSUME ~crowded, contentions = 0, NEW s \in Requests, NEW t \in Requests,
                          s # t, Blocks(s)', Blocks(t)',
                          Intersect(requests'[s].leave, requests'[t].leave)
                   PROVE  FALSE
        BY <2>2 DEF NoOverlap, Blocks, Visible, Intersect
      <4>1. \A a \in Requests : Blocks(a) => ~Intersect(requests[a].leave, l)
        BY <2>1, <2>2 DEF CheckedFree, Overlaps, Blocks
      <4>2. CASE s # r /\ t # r
        BY <3>5, <4>2 DEF NoOverlap, Blocks
      <4>3. CASE t = r
        BY <3>1, <3>5, <4>1, <4>3
      <4>4. CASE s = r
        <5>1. Blocks(t) /\ Intersect(l, requests[t].leave)
          BY <3>1, <3>5, <4>4
        <5> QED BY <4>1, <5>1 DEF Intersect
      <4> QED BY <4>2, <4>3, <4>4
    <3>8. BookingFits'
      <4>1. ASSUME ~crowded, NEW q \in Procs, NEW m \in Leaves, NEW j \in Keys,
                   ToBook(q, m, j)'
            PROVE  ToBook(q, m, j) /\ Available(j)' >= Available(j)
        <5>1. q # p /\ handler'[q] = handler[q]
          BY <3>2, <4>1 DEF ToBook, Idle
        <5>2. m.emp # l.emp
          BY <3>3, <4>1, <5>1 DEF ToBook, Creates
        <5>3. j # k
          BY <2>1, <4>1, <5>2 DEF ToBook, KeyOf
        <5>4. balances'[j] = balances[j] /\ balances[j] \in Balance
          BY <1>1, <3>1, <5>3 DEF TypeOK
        <5> QED BY <4>1, <5>1, <5>4 DEF ToBook, Available, Balance
      <4> QED BY <1>1, <2>2, <4>1, FitsBalances
    <3> QED BY <1>1, <3>4, <3>6, <3>7, <3>8
  <2> QED BY <2>1, <2>3, <2>4
(* A handler takes up a request: the creations go on. *)
<1>6. ASSUME NEW p \in Procs, NEW r \in Requests,
             (\E s \in Statuses : ReadForDecision(p, r, s)) \/ ReadForDeletion(p, r)
      PROVE  Creation'
  <2>1. PICK h : Claim(p, r, h) /\ h.pc \in {"deciding", "deleting"}
    <3>1. ASSUME NEW s \in Statuses, ReadForDecision(p, r, s)
          PROVE  \E h : Claim(p, r, h) /\ h.pc \in {"deciding", "deleting"}
      <4>1. PICK h : h = [pc |-> "deciding", req |-> r, leave |-> requests[r].leave, to |-> s]
        OBVIOUS
      <4>2. h.pc = "deciding"
        BY <4>1
      <4> QED BY <3>1, <4>1, <4>2 DEF ReadForDecision
    <3>2. ASSUME ReadForDeletion(p, r)
          PROVE  \E h : Claim(p, r, h) /\ h.pc \in {"deciding", "deleting"}
      <4>1. PICK h : h = [pc |-> "deleting", req |-> r, leave |-> requests[r].leave]
        OBVIOUS
      <4>2. h.pc = "deleting"
        BY <4>1
      <4> QED BY <3>2, <4>1, <4>2 DEF ReadForDeletion
    <3> QED BY <1>6, <3>1, <3>2
  <2>2. /\ handler'[p] = h /\ \A q \in Procs \ {p} : handler'[q] = handler[q]
        /\ UNCHANGED <<requests, balances, crowded>>
        /\ contentions' = 0 => contentions = 0
    BY <1>1, <2>1 DEF Claim, Goto, TypeOK
  <2>3. \A q \in Procs : Creates(q)' => Creates(q) /\ handler'[q] = handler[q]
    BY <2>1, <2>2 DEF Creates
  <2>4. LoneCreator'
    BY <2>2, <2>3 DEF LoneCreator
  <2>5. CheckedFree'
    BY <2>2, <2>3 DEF CheckedFree, Overlaps, Visible, Intersect
  <2>6. NoOverlap'
    BY <2>2 DEF NoOverlap, Visible, Intersect
  <2>7. BookingFits'
    BY <2>1, <2>2 DEF BookingFits, ToBook, Available
  <2> QED BY <1>1, <2>4, <2>5, <2>6, <2>7
(* A decision moves days from pending to used, or frees them: it takes none.       *)
<1>7. ASSUME NEW p \in Procs,
             CommitDecision(p) \/ CommitDeletion(p)
      PROVE  Creation'
  <2>1. PICK r \in Requests, l \in Leaves, k \in Keys, s \in Statuses :
          /\ Holds(p, r) /\ k = KeyOf(l)
          /\ UNCHANGED <<requests, balances>> \/ Decides(r, l, k, s) \/ Deletes(r, l, k)
    <3>1. "PENDING" \in Statuses
      BY DEF Statuses
    <3> QED BY <1>1, <1>7, <3>1, DecisionEffect, DeletionEffect
  <2>2. Goto(p, Idle) /\ UNCHANGED <<contentions, crowded>>
    BY <1>1, <1>7, DecisionEffect, DeletionEffect
  <2>3. CASE UNCHANGED <<requests, balances>>
    BY <1>2, <2>2, <2>3
  <2>4. CASE Decides(r, l, k, s) \/ Deletes(r, l, k)
    <3>1. \A q \in Requests \ {r} : requests'[q] = requests[q]
      BY <1>1, <2>4 DEF Decides, Deletes, TypeOK
    <3>2. contentions = 0 => \A q \in Requests :
            Blocks(q)' => Blocks(q) /\ requests'[q].leave = requests[q].leave
      <4> SUFFICES ASSUME contentions = 0, Blocks(r)'
                   PROVE  Blocks(r) /\ requests'[r].leave = requests[r].leave
        BY <3>1 DEF Blocks, Visible
      <4>1. IsPending(r)
        BY <2>1 DEF Ledger, HoldsAlone
      <4>2. CASE Decides(r, l, k, s)
        <5>1. requests[r] \in Request /\ requests'[r] = [requests[r] EXCEPT !.status = s]
          BY <1>1, <4>2, StoredType DEF Decides, TypeOK
        <5> QED BY <4>1, <5>1 DEF IsPending, Blocks, Visible, Request
      <4>3. CASE Deletes(r, l, k)
        BY <4>3 DEF Deletes, Blocks, Visible
      <4> QED BY <2>4, <4>2, <4>3
    <3>3. LoneCreator' /\ CheckedFree' /\ NoOverlap'
      BY <2>2, <3>2, NothingNew
    <3>4. \A j \in Keys : /\ balances'[j].row = balances[j].row
                          /\ Available(j)' >= Available(j)
      <4>1. balances[k] \in Balance /\ balances'[k] \in Balance /\ Released(l) \in Nat
        BY <1>1, DaysType DEF TypeOK
      <4>2. balances'[k].row = balances[k].row /\ balances'[k].total = balances[k].total
        BY <2>4 DEF Decides, Deletes
      <4>3. balances'[k].used + balances'[k].pending <= balances[k].used + balances[k].pending
        BY <2>4, <4>1 DEF Decides, Deletes, Balance
      <4>4. Available(k)' >= Available(k)
        BY <4>1, <4>2, <4>3 DEF Available, Balance
      <4>5. \A j \in Keys \ {k} : balances'[j] = balances[j] /\ balances[j] \in Balance
        BY <1>1, <2>4 DEF Decides, Deletes, TypeOK
      <4> QED BY <4>2, <4>4, <4>5 DEF Available, Balance
    <3>5. \A q \in Procs : handler'[q] = handler[q] \/ handler'[q].pc = "idle"
      BY <1>1, <2>2 DEF Goto, Idle, TypeOK
    <3>6. BookingFits'
      BY <1>1, <2>2, <3>4, <3>5, FitsBalances DEF ToBook
    <3> QED BY <1>1, <3>3, <3>6
  <2> QED BY <2>1, <2>3, <2>4
(* HR writes the balances of an employee: who creates a request for another one    *)
(* is not concerned, and otherwise it is crowded.                                  *)
<1>8. ASSUME NEW e \in Employees, HR(e) PROVE Creation'
  <2>1. /\ Quiet /\ UNCHANGED <<requests, handler, contentions>>
        /\ crowded' = (crowded \/ Creating(e))
        /\ \A k \in Keys : k[1] # e => balances'[k] = balances[k]
    BY <1>1, <1>8, HREffect DEF Quiet
  <2>2. ~crowded' => ~crowded /\ \A q \in Procs : Creates(q) => handler[q].leave.emp # e
    BY <2>1 DEF Creating, Creates
  <2>3. LoneCreator' /\ CheckedFree' /\ NoOverlap'
    BY <2>1, <2>2 DEF LoneCreator, CheckedFree, NoOverlap, Creates, Overlaps, Visible, Intersect
  <2>4. BookingFits'
    <3> SUFFICES ASSUME ~crowded', NEW q \in Procs, NEW l \in Leaves, NEW k \in Keys,
                        ToBook(q, l, k)'
                 PROVE  Available(k)' >= Booked(l)
      BY DEF BookingFits
    <3>1. k[1] = l.emp /\ handler[q].leave = l /\ Creates(q)
      BY <2>1 DEF ToBook, KeyOf, Creates
    <3>2. balances'[k] = balances[k]
      BY <2>1, <2>2, <3>1
    <3> QED BY <2>1, <2>2, <3>2 DEF BookingFits, ToBook, Available
  <2> QED BY <1>1, <2>3, <2>4
<1>9. ASSUME UNCHANGED vars PROVE Creation'
  <2>1. CASE \E p \in Procs : TRUE
    BY <1>2, <1>9, <2>1 DEF vars
  <2>2. CASE Procs = {}
    BY <1>1, <1>9, <2>2 DEF vars, LoneCreator, BookingFits, CheckedFree, NoOverlap, Visible,
                            Intersect
  <2> QED BY <2>1, <2>2
<1> QED BY <1>3, <1>4, <1>5, <1>6, <1>7, <1>8, <1>9, Steps

(* createAsync lets no two requests that are not rejected share a day, for all     *)
(* interleavings in which no other createAsync or HR write for the employee runs   *)
(* beside it and no request is decided twice.                                      *)
THEOREM NothingOverlaps == Spec => []NoOverlap
<1>1. Creation => NoOverlap
  BY DEF Creation
<1> QED BY <1>1, CreationInit, CreationStep, PTL DEF Spec

(* Under the same proviso createAsync books no more than what is left: the balance *)
(* it has read can only have grown when its transaction writes.                    *)
THEOREM BookingsFit == Spec => NeverOverbooks
<1> DEFINE Fits == ~crowded =>
             \A k \in Keys :
                balances[k].row = "live" /\ balances'[k].pending > balances[k].pending
                => balances'[k].used + balances'[k].pending <= balances'[k].total
<1>1. Creation /\ [Next]_vars => [Fits]_vars
  <2> SUFFICES ASSUME Creation, [Next]_vars, ~crowded, NEW k \in Keys,
                      balances[k].row = "live",
                      balances'[k].pending > balances[k].pending
               PROVE  balances'[k].used + balances'[k].pending <= balances'[k].total
    OBVIOUS
  <2>1. IInv /\ EmptyRows /\ TypeOK
    BY DEF Creation, Ledger, IInv
  <2>2. balances[k] \in Balance /\ ~(balances[k].pending > balances[k].pending)
    BY <2>1 DEF TypeOK, Balance
  <2>3. PICK p \in Procs : CommitBooking(p)
    <3>1. ASSUME NEW r \in Requests, NEW l \in Leaves, NEW j \in Keys, NEW s \in Statuses,
                 Decides(r, l, j, s) \/ Deletes(r, l, j)
          PROVE  FALSE
      <4>1. Released(l) \in Nat
        BY DaysType
      <4>2. CASE k = j
        BY <2>2, <3>1, <4>1, <4>2 DEF Decides, Deletes, Balance
      <4>3. CASE k # j
        BY <2>2, <3>1, <4>3 DEF Decides, Deletes
      <4> QED BY <4>2, <4>3
    <3>2. \A q \in Procs : ~CommitDecision(q) /\ ~CommitDeletion(q)
      <4>1. "PENDING" \in Statuses
        BY DEF Statuses
      <4> QED BY <2>1, <2>2, <3>1, <4>1, DecisionEffect, DeletionEffect
    <3>3. \A e \in Employees : ~HR(e)
      BY <2>1, <2>2, HREffect DEF Quiet
    <3> QED BY <2>2, <3>2, <3>3, Steps
            DEF vars, CheckOverlap, ReadBalance, ReadForDecision, ReadForDeletion, Claim
  <2>4. PICK l \in Leaves, j \in Keys, r \in Requests :
          l = handler[p].leave /\ j = KeyOf(l) /\ Books(p, r, l, j)
    BY <2>1, <2>2, <2>3, BookingEffect
  <2>5. k = j
    BY <2>2, <2>4 DEF Books
  <2>6. ToBook(p, l, k) /\ balances'[k].total = balances[k].total
    BY <2>3, <2>4, <2>5 DEF Books, ToBook, CommitBooking
  <2>7. Available(k) >= Booked(l) /\ Booked(l) \in Nat
    BY <2>6, DaysType DEF Creation, BookingFits
  <2>8. /\ balances'[k].used = balances[k].used
        /\ balances'[k].pending = balances[k].pending + Booked(l)
    BY <2>4, <2>5 DEF Books
  <2> QED BY <2>2, <2>6, <2>7, <2>8 DEF Available, Balance
<1>2. NeverOverbooks <=> [][Fits]_vars
  BY PTL DEF NeverOverbooks
<1> QED BY <1>1, <1>2, CreationInit, CreationStep, PTL DEF Spec

-----------------------------------------------------------------------------
(* The desk *)

(* Who books without a row books unpaid leave, and the row that was found is live  *)
(* until something else is written for the employee.                              *)
Warranted(p) ==
    handler[p].pc = "booking" =>
        /\ ~handler[p].found => handler[p].leave.type = Unpaid
        /\ handler[p].found /\ ~crowded => balances[KeyOf(handler[p].leave)].row = "live"

Serving == Creation /\ \A p \in Procs : Warranted(p)

(* An idle handler and one that is not booking need no warrant.                    *)
LEMMA StaysWarranted ==
  ASSUME NEW p \in Procs,
         \/ handler'[p].pc # "booking"
         \/ /\ Warranted(p)
            /\ handler'[p] = handler[p]
            /\ handler[p].pc = "booking" /\ ~crowded' =>
                  /\ ~crowded
                  /\ balances[KeyOf(handler[p].leave)].row = "live" =>
                        balances'[KeyOf(handler[p].leave)].row = "live"
  PROVE  Warranted(p)'
<1>1. CASE handler'[p].pc # "booking"
  BY <1>1 DEF Warranted
<1>2. CASE handler'[p].pc = "booking"
  BY <1>2 DEF Warranted, KeyOf
<1> QED BY <1>1, <1>2

LEMMA ServingStep == ASSUME Serving, [Next]_vars PROVE Serving'
<1>1. /\ Creation' /\ Creation /\ TypeOK /\ IInv /\ EmptyRows
      /\ \A q \in Procs : Warranted(q)
  BY CreationStep DEF Serving, Creation, Ledger, IInv
<1> SUFFICES ASSUME NEW q \in Procs PROVE Warranted(q)'
  BY <1>1 DEF Serving
<1>2. ASSUME NEW p \in Procs, NEW h, Goto(p, h), h.pc # "booking",
             ~crowded' => ~crowded,
             \A k \in Keys : balances[k].row = "live" => balances'[k].row = "live"
      PROVE  Warranted(q)'
  <2>1. CASE q = p
    <3>1. handler'[q] = h
      BY <1>1, <1>2, <2>1 DEF Goto, TypeOK
    <3> QED BY <1>2, <3>1, StaysWarranted
  <2>2. CASE q # p
    <3>1. handler'[q] = handler[q]
      BY <1>1, <1>2, <2>2 DEF Goto, TypeOK
    <3>2. handler[q].pc = "booking" => KeyOf(handler[q].leave) \in Keys
      BY <1>1, HandlerFields, KeyOfType DEF Idle
    <3> QED BY <1>1, <1>2, <3>1, <3>2, StaysWarranted
  <2> QED BY <2>1, <2>2
<1>3. ASSUME NEW p \in Procs, NEW l \in Leaves, CheckOverlap(p, l) PROVE Warranted(q)'
  <2>1. PICK h : h = [pc |-> "checked", leave |-> l]
    OBVIOUS
  <2> QED BY <1>2, <1>3, <2>1 DEF CheckOverlap
<1>4. ASSUME NEW p \in Procs, ReadBalance(p) PROVE Warranted(q)'
  <2>1. UNCHANGED <<requests, balances, contentions, crowded>>
    BY <1>4 DEF ReadBalance
  <2>2. CASE Goto(p, Idle)
    BY <1>2, <2>1, <2>2 DEF Idle
  <2>3. CASE ~Goto(p, Idle)
    <3>1. PICK l \in Leaves, k \in Keys : l = handler[p].leave /\ k = KeyOf(l)
      BY <1>1, <1>4, HandlerFields, KeyOfType DEF ReadBalance, Idle
    <3>2. PICK h : h = [pc |-> "booking", leave |-> l, found |-> balances[k].row = "live"]
      OBVIOUS
    <3>3. Goto(p, h) /\ (balances[k].row = "live" \/ l.type = Unpaid)
      BY <1>4, <2>3, <3>1, <3>2 DEF ReadBalance
    <3>4. CASE q = p
      <4>1. handler'[q] = h
        BY <1>1, <3>3, <3>4 DEF Goto, TypeOK
      <4>2. h.leave = l /\ (h.found <=> balances[k].row = "live")
        BY <3>2
      <4> QED BY <2>1, <3>1, <3>3, <4>1, <4>2 DEF Warranted, KeyOf
    <3>5. CASE q # p
      <4>1. handler'[q] = handler[q]
        BY <1>1, <3>3, <3>5 DEF Goto, TypeOK
      <4> QED BY <1>1, <2>1, <4>1, StaysWarranted
    <3> QED BY <3>4, <3>5
  <2> QED BY <2>2, <2>3
<1>5. ASSUME NEW p \in Procs, CommitBooking(p) PROVE Warranted(q)'
  <2>1. Goto(p, Idle) /\ UNCHANGED crowded
    BY <1>5 DEF CommitBooking
  <2>2. PICK l \in Leaves, k \in Keys :
          /\ k = KeyOf(l) /\ l = handler[p].leave
          /\ \/ UNCHANGED balances
             \/ balances' = [balances EXCEPT ![k] = BookedBalance(k, l, handler[p].found)]
    BY <1>1, <1>5, HandlerFields, KeyOfType DEF CommitBooking, Idle
  <2>3. balances[k].row = "live" => BookedBalance(k, l, handler[p].found).row = "live"
    BY <1>1 DEF BookedBalance, TypeOK, Balance
  <2>4. \A j \in Keys : balances[j].row = "live" => balances'[j].row = "live"
    BY <1>1, <2>2, <2>3 DEF TypeOK
  <2> QED BY <1>2, <2>1, <2>4 DEF Idle
<1>6. ASSUME NEW p \in Procs, NEW r \in Requests,
             (\E s \in Statuses : ReadForDecision(p, r, s)) \/ ReadForDeletion(p, r)
      PROVE  Warranted(q)'
  <2>1. CASE \E s \in Statuses : ReadForDecision(p, r, s)
    <3>1. PICK s \in Statuses : ReadForDecision(p, r, s)
      BY <2>1
    <3>2. PICK h : h = [pc |-> "deciding", req |-> r, leave |-> requests[r].leave, to |-> s]
      OBVIOUS
    <3>3. Goto(p, h) /\ UNCHANGED <<balances, crowded>> /\ h.pc # "booking"
      BY <3>1, <3>2 DEF ReadForDecision, Claim
    <3> QED BY <1>2, <3>3
  <2>2. CASE ReadForDeletion(p, r)
    <3>1. PICK h : h = [pc |-> "deleting", req |-> r, leave |-> requests[r].leave]
      OBVIOUS
    <3>2. Goto(p, h) /\ UNCHANGED <<balances, crowded>> /\ h.pc # "booking"
      BY <2>2, <3>1 DEF ReadForDeletion, Claim
    <3> QED BY <1>2, <3>2
  <2> QED BY <1>6, <2>1, <2>2
<1>7. ASSUME NEW p \in Procs, CommitDecision(p) \/ CommitDeletion(p)
      PROVE  Warranted(q)'
  <2>1. PICK r \in Requests, l \in Leaves, k \in Keys, s \in Statuses :
          UNCHANGED <<requests, balances>> \/ Decides(r, l, k, s) \/ Deletes(r, l, k)
    <3>1. "PENDING" \in Statuses
      BY DEF Statuses
    <3> QED BY <1>1, <1>7, <3>1, DecisionEffect, DeletionEffect
  <2>2. Goto(p, Idle) /\ UNCHANGED <<contentions, crowded>>
    BY <1>1, <1>7, DecisionEffect, DeletionEffect
  <2>3. \A j \in Keys : balances[j].row = "live" => balances'[j].row = "live"
    BY <2>1 DEF Decides, Deletes
  <2> QED BY <1>2, <2>2, <2>3 DEF Idle
<1>8. ASSUME NEW e \in Employees, HR(e) PROVE Warranted(q)'
  <2>1. /\ UNCHANGED handler
        /\ crowded' = (crowded \/ Creating(e))
        /\ \A k \in Keys : k[1] # e => balances'[k] = balances[k]
    BY <1>1, <1>8, HREffect
  <2>2. CASE handler[q].pc = "booking"
    <3>1. PICK l \in Leaves, k \in Keys : l = handler[q].leave /\ k = KeyOf(l)
      BY <1>1, <2>2, HandlerFields, KeyOfType DEF Idle
    <3>2. ~crowded' => ~crowded /\ k[1] # e
      BY <2>1, <2>2, <3>1 DEF Creating, KeyOf
    <3>3. ~crowded' => balances'[k] = balances[k]
      BY <2>1, <3>2
    <3> QED BY <1>1, <2>1, <3>1, <3>2, <3>3, StaysWarranted
  <2>3. CASE handler[q].pc # "booking"
    BY <2>1, <2>3, StaysWarranted
  <2> QED BY <2>2, <2>3
<1>9. CASE UNCHANGED vars
  BY <1>1, <1>9, StaysWarranted DEF vars
<1> QED BY <1>3, <1>4, <1>5, <1>6, <1>7, <1>8, <1>9, Steps

LEMMA ServingInit == Init => Serving
<1>1. Init => Creation
  BY CreationInit
<1> QED BY <1>1 DEF Init, Serving, Warranted, Idle

(* A transaction of createAsync is a booking of the desk.                          *)
LEMMA BookingIsServed ==
  ASSUME Serving, NEW p \in Procs, CommitBooking(p)
  PROVE  \/ UNCHANGED <<requests, balances, Contended, crowded>>
         \/ \E r \in Requests, l \in Leaves : Desk!Book(r, l)
<1>1. /\ Creation /\ TypeOK /\ IInv /\ EmptyRows /\ Warranted(p)
  BY DEF Serving, Creation, Ledger, IInv
<1>2. PICK l \in Leaves, k \in Keys :
        /\ l = handler[p].leave /\ k = KeyOf(l)
        /\ \/ UNCHANGED <<requests, balances>>
           \/ \E r \in Requests : Books(p, r, l, k)
  BY <1>1, BookingEffect
<1>3. /\ UNCHANGED <<Contended, crowded>> /\ Creates(p) /\ handler[p].pc = "booking"
  BY <1>1, BookingEffect DEF CommitBooking, Creates, Contended
<1>4. ASSUME NEW r \in Requests, Books(p, r, l, k) PROVE Desk!Book(r, l)
  <2>1. crowded \/ Contended \/ \A s \in Requests : ~Desk!InTheWay(s, l)
    <3>1. contentions \in Nat
      BY <1>1 DEF TypeOK
    <3>2. CASE ~crowded /\ contentions = 0
      <4>1. ~Overlaps(l)
        BY <1>1, <1>2, <1>3, <3>2 DEF Creation, CheckedFree
      <4> QED BY <4>1 DEF Overlaps, Visible, Desk!InTheWay, Desk!Listed
    <3> QED BY <3>1, <3>2 DEF Contended
  <2>2. /\ handler[p].found \/ balances[k].row = "none"
        /\ balances' = [balances EXCEPT ![k] = BookedBalance(k, l, handler[p].found)]
    <3>1. requests'[r] # requests[r]
      BY <1>1, <1>4 DEF Books, TypeOK, NoRequest
    <3> QED BY <1>2, <3>1 DEF CommitBooking
  <2>3. /\ handler[p].found \in BOOLEAN
        /\ handler[p].found => balances[k].row # "none"
        /\ balances[k] \in Balance
    BY <1>1, <1>2, <1>3, HandlerFields DEF Idle, IInv, HandlersKnow, Knows, TypeOK
  <2>4. balances'[k] = BookedBalance(k, l, handler[p].found)
    BY <1>1, <2>2 DEF TypeOK
  <2>5. /\ IF balances[k].row = "none"
           THEN l.type = Unpaid /\ balances'[k].total = 0
           ELSE /\ crowded \/ (balances[k].row = "live" /\ Available(k) >= Booked(l))
                /\ balances'[k].total = balances[k].total
        /\ balances'[k].row = IF balances[k].row = "none" THEN "live" ELSE balances[k].row
    <3>1. CASE handler[p].found
      <4>1. balances'[k] = [balances[k] EXCEPT !.pending = balances[k].pending + Booked(l)]
        BY <2>4, <3>1 DEF BookedBalance
      <4>2. balances'[k].row = balances[k].row /\ balances'[k].total = balances[k].total
        BY <2>3, <4>1 DEF Balance
      <4>3. crowded \/ (balances[k].row = "live" /\ Available(k) >= Booked(l))
        BY <1>1, <1>2, <1>3, <3>1 DEF Warranted, Creation, BookingFits, ToBook
      <4> QED BY <2>3, <3>1, <4>2, <4>3
    <3>2. CASE ~handler[p].found
      <4>1. balances'[k] = [row |-> "live", total |-> 0, used |-> 0, pending |-> Booked(l)]
        BY <2>4, <3>2 DEF BookedBalance
      <4>2. l.type = Unpaid
        BY <1>1, <1>2, <1>3, <3>2 DEF Warranted
      <4> QED BY <2>2, <3>2, <4>1, <4>2
    <3> QED BY <3>1, <3>2
  <2>6. Desk!Moves(k, 0, Booked(l))
    <3>1. balances'[k].used = balances[k].used + 0
      BY <1>4, <2>3 DEF Books, Balance
    <3> QED BY <1>4, <3>1 DEF Desk!Moves, Books
  <2>7. /\ requests[r] = NoRequest
        /\ requests' = [requests EXCEPT ![r] =
                           [row |-> "live", leave |-> l, status |-> "PENDING"]]
    BY <1>4 DEF Books
  <2> QED BY <1>2, <1>3, <2>1, <2>5, <2>6, <2>7 DEF Desk!Book, Available
<1> QED BY <1>2, <1>3, <1>4

(* Who holds a request alone finds it as the desk wants it, and otherwise the     *)
(* request was contended.                                                         *)
LEMMA HeldIsOpen ==
  ASSUME Ledger, NEW p \in Procs, NEW r \in Requests, Holds(p, r), Stored(r)
  PROVE  Desk!Open(r) \/ (Contended /\ Desk!Stored(r))
<1>1. contentions \in Nat
  BY DEF Ledger, IInv, TypeOK
<1>2. contentions = 0 => IsPending(r)
  BY DEF Ledger, HoldsAlone
<1> QED BY <1>1, <1>2
    DEF Contended, Stored, IsPending, Visible, Desk!Open, Desk!Listed, Desk!Stored

(* The transactions of updateStatusAsync and deleteAsync are decisions and         *)
(* deletions of the desk.                                                         *)
LEMMA DecisionIsServed ==
  ASSUME Serving, NEW p \in Procs, CommitDecision(p)
  PROVE  \/ UNCHANGED <<requests, balances, Contended, crowded>>
         \/ \E r \in Requests, s \in Statuses : Desk!Decide(r, s)
<1>1. Ledger /\ IInv /\ TypeOK
  BY DEF Serving, Creation, Ledger, IInv
<1>2. PICK r \in Requests, l \in Leaves, k \in Keys, s \in Statuses :
        /\ k = KeyOf(l) /\ Holds(p, r)
        /\ UNCHANGED <<requests, balances>> \/ Decides(r, l, k, s)
  BY <1>1, DecisionEffect
<1>3. UNCHANGED <<Contended, crowded>>
  BY <1>1, DecisionEffect DEF Contended
<1>4. ASSUME Decides(r, l, k, s) PROVE Desk!Decide(r, s)
  <2>1. l = requests[r].leave /\ Stored(r)
    BY <1>4 DEF Decides
  <2>2. Desk!Open(r) \/ (Contended /\ Desk!Stored(r))
    BY <1>1, <1>2, <2>1, HeldIsOpen
  <2>3. PICK n \in Nat : n = Released(l)
    BY DaysType
  <2>4. Desk!Moves(k, IF s = "APPROVED" THEN Released(l) ELSE 0,
                      IF s \in {"APPROVED", "REJECTED"} THEN -Released(l) ELSE 0)
    <3>1. balances'[k].used = balances[k].used + IF s = "APPROVED" THEN n ELSE 0
      BY <1>4, <2>3 DEF Decides
    <3>2. balances'[k].pending =
             balances[k].pending + IF s \in {"APPROVED", "REJECTED"} THEN -n ELSE 0
      <4>1. PICK m \in Int : m = balances[k].pending
        BY <1>1 DEF TypeOK, Balance
      <4>2. balances'[k].pending = m - IF s \in {"APPROVED", "REJECTED"} THEN n ELSE 0
        BY <1>4, <2>3, <4>1 DEF Decides
      <4> QED BY <4>1, <4>2
    <3> QED BY <1>4, <2>3, <3>1, <3>2 DEF Desk!Moves, Decides
  <2>5. Desk!Settle(r, IF s = "APPROVED" THEN Released(l) ELSE 0,
                       IF s \in {"APPROVED", "REJECTED"} THEN -Released(l) ELSE 0)
    BY <1>2, <1>3, <1>4, <2>1, <2>2, <2>4 DEF Desk!Settle, Decides
  <2> QED BY <1>4, <2>1, <2>5 DEF Desk!Decide, Decides
<1> QED BY <1>2, <1>3, <1>4

LEMMA DeletionIsServed ==
  ASSUME Serving, NEW p \in Procs, CommitDeletion(p)
  PROVE  \/ UNCHANGED <<requests, balances, Contended, crowded>>
         \/ \E r \in Requests : Desk!Delete(r)
<1>1. Ledger /\ IInv /\ TypeOK
  BY DEF Serving, Creation, Ledger, IInv
<1>2. PICK r \in Requests, l \in Leaves, k \in Keys :
        /\ k = KeyOf(l) /\ Holds(p, r)
        /\ UNCHANGED <<requests, balances>> \/ Deletes(r, l, k)
  BY <1>1, DeletionEffect
<1>3. UNCHANGED <<Contended, crowded>>
  BY <1>1, DeletionEffect DEF Contended
<1>4. ASSUME Deletes(r, l, k) PROVE Desk!Delete(r)
  <2>1. l = requests[r].leave /\ Stored(r) /\ r = handler[p].req
    BY <1>2, <1>4 DEF Deletes, Holds
  <2>2. Desk!Open(r) \/ (Contended /\ Desk!Stored(r))
    BY <1>1, <1>2, <2>1, HeldIsOpen
  <2>3. PICK n \in Nat : n = Released(l)
    BY DaysType
  <2>4. Desk!Moves(k, 0, -Released(l))
    <3>1. PICK b \in Balance : b = balances[k]
      BY <1>1 DEF TypeOK
    <3>2. balances'[k].used = b.used + 0 /\ balances'[k].pending = b.pending + (-n)
      BY <1>4, <2>3, <3>1 DEF Deletes, Balance
    <3> QED BY <1>4, <2>3, <3>1, <3>2 DEF Desk!Moves, Deletes
  <2>5. Desk!Settle(r, 0, -Released(l))
    BY <1>2, <1>3, <1>4, <2>1, <2>2, <2>4 DEF Desk!Settle, Deletes
  <2>6. requests' \in {[requests EXCEPT ![r].row = "deleted"], [requests EXCEPT ![r] = Purged]}
    BY <2>1 DEF CommitDeletion
  <2> QED BY <2>1, <2>5, <2>6 DEF Desk!Delete
<1> QED BY <1>2, <1>3, <1>4

(* HR's operations are administration.                                             *)
LEMMA HRIsServed ==
  ASSUME Serving, NEW e \in Employees, HR(e)
  PROVE  Desk!Administer(e)
<1>1. IInv /\ EmptyRows
  BY DEF Serving, Creation, Ledger
<1>2. /\ Quiet
      /\ UNCHANGED <<requests, Contended>>
      /\ crowded => crowded'
      /\ \A k \in Keys : k[1] # e => balances'[k] = balances[k]
  BY <1>1, HREffect DEF Quiet, Contended
<1> QED BY <1>2 DEF Quiet, Desk!Administer

LEMMA StepIsServed ==
  ASSUME Serving, [Next]_vars
  PROVE  [Desk!Next]_(Desk!vars)
<1>1. TypeOK
  BY DEF Serving, Creation, Ledger, IInv
<1>2. ASSUME NEW p \in Procs, NEW l \in Leaves, CheckOverlap(p, l)
      PROVE  [Desk!Next]_(Desk!vars)
  <2>1. UNCHANGED <<requests, balances, Contended>> /\ (crowded' = TRUE \/ crowded' = crowded)
    BY <1>1, <1>2 DEF CheckOverlap, Contended, TypeOK
  <2> QED BY <2>1 DEF Desk!Next, Desk!Crowd, Desk!vars
<1>3. ASSUME NEW p \in Procs, ReadBalance(p) PROVE [Desk!Next]_(Desk!vars)
  BY <1>3 DEF ReadBalance, Contended, Desk!vars
<1>4. ASSUME NEW p \in Procs, CommitBooking(p) PROVE [Desk!Next]_(Desk!vars)
  BY <1>4, BookingIsServed DEF Desk!Next, Desk!vars
<1>5. ASSUME NEW p \in Procs, NEW r \in Requests,
             (\E s \in Statuses : ReadForDecision(p, r, s)) \/ ReadForDeletion(p, r)
      PROVE  [Desk!Next]_(Desk!vars)
  <2>1. PICK h : Claim(p, r, h)
    BY <1>5 DEF ReadForDecision, ReadForDeletion
  <2>2. /\ UNCHANGED <<requests, balances, crowded>>
        /\ contentions' = contentions \/ contentions' = contentions + 1
    BY <2>1 DEF Claim
  <2>3. UNCHANGED Contended \/ Contended' = TRUE
    BY <1>1, <2>2 DEF Contended, TypeOK
  <2> QED BY <2>2, <2>3 DEF Desk!Next, Desk!Contend, Desk!vars
<1>6. ASSUME NEW p \in Procs, CommitDecision(p) PROVE [Desk!Next]_(Desk!vars)
  BY <1>6, DecisionIsServed DEF Desk!Next, Desk!vars
<1>7. ASSUME NEW p \in Procs, CommitDeletion(p) PROVE [Desk!Next]_(Desk!vars)
  BY <1>7, DeletionIsServed DEF Desk!Next, Desk!vars
<1>8. ASSUME NEW e \in Employees, HR(e) PROVE [Desk!Next]_(Desk!vars)
  BY <1>8, HRIsServed DEF Desk!Next
<1>9. ASSUME UNCHANGED vars PROVE [Desk!Next]_(Desk!vars)
  BY <1>9 DEF vars, Contended, Desk!vars
<1> QED BY <1>2, <1>3, <1>4, <1>5, <1>6, <1>7, <1>8, <1>9, Steps

LEMMA DeskInit == Init => Desk!Init
  BY DEF Init, Desk!Init, Contended

(* For all interleavings of any number of handlers, each write of LeavesService    *)
(* and LeaveBalancesService to the tables is one of the atomic operations of the   *)
(* desk, and nothing else is ever written.                                         *)
THEOREM DeskIsServed == Spec => DeskIsKept
<1> QED BY DeskInit, ServingInit, ServingStep, StepIsServed, PTL
    DEF Spec, DeskIsKept, Desk!Spec

-----------------------------------------------------------------------------
(* What the reports tell *)

(* Who is deleted, alone with the request, was still to decide.                   *)
HiddenIsPending ==
    contentions = 0 =>
        \A r \in Requests : requests[r].row = "deleted" => requests[r].status = "PENDING"

LEMMA HiddenStep ==
  ASSUME Ledger, HiddenIsPending, [Next]_vars
  PROVE  HiddenIsPending'
<1>1. ASSUME UNCHANGED requests, contentions' = 0 => contentions = 0 PROVE HiddenIsPending'
  BY <1>1 DEF HiddenIsPending
<1>2. ASSUME NEW p \in Procs, CommitBooking(p) PROVE HiddenIsPending'
  <2>1. UNCHANGED contentions
    BY <1>2, BookingEffect DEF Ledger
  <2>2. ASSUME NEW r \in Requests, NEW l, requests' = [requests EXCEPT ![r] =
                  [row |-> "live", leave |-> l, status |-> "PENDING"]]
        PROVE  HiddenIsPending'
    <3>1. \A q \in Requests : requests'[q] = requests[q] \/ requests'[q].row = "live"
      BY <2>2 DEF Ledger, IInv, TypeOK
    <3> QED BY <2>1, <3>1 DEF HiddenIsPending
  <2> QED BY <1>1, <1>2, <2>1, <2>2, BookingEffect DEF Ledger, Books
<1>3. ASSUME NEW p \in Procs, CommitDecision(p) PROVE HiddenIsPending'
  <2>1. PICK r \in Requests, l \in Leaves, k \in Keys, s \in Statuses :
            /\ Holds(p, r)
            /\ UNCHANGED <<requests, balances>> \/ Decides(r, l, k, s)
    BY <1>3, DecisionEffect DEF Ledger
  <2>2. UNCHANGED contentions
    BY <1>3, DecisionEffect DEF Ledger
  <2>3. CASE contentions = 0 /\ Decides(r, l, k, s)
    <3>1. requests[r].row = "live"
      BY <2>1, <2>3 DEF Ledger, HoldsAlone, IsPending, Visible
    <3>2. requests[r] \in Request
      BY <2>3, StoredType DEF Decides, Ledger, IInv
    <3>3. requests'[r].row = "live" /\ \A q \in Requests \ {r} : requests'[q] = requests[q]
      BY <2>3, <3>1, <3>2 DEF Decides, Ledger, IInv, TypeOK, Request
    <3> QED BY <2>2, <3>3 DEF HiddenIsPending
  <2> QED BY <1>1, <2>1, <2>2, <2>3 DEF HiddenIsPending
<1>4. ASSUME NEW p \in Procs, CommitDeletion(p) PROVE HiddenIsPending'
  <2>1. PICK r \in Requests, l \in Leaves, k \in Keys :
            /\ Holds(p, r)
            /\ UNCHANGED <<requests, balances>> \/ Deletes(r, l, k)
    BY <1>4, DeletionEffect DEF Ledger
  <2>2. UNCHANGED contentions
    BY <1>4, DeletionEffect DEF Ledger
  <2>3. CASE contentions = 0 /\ Deletes(r, l, k)
    <3>1. requests[r].status = "PENDING"
      BY <2>1, <2>3 DEF Ledger, HoldsAlone, IsPending
    <3>2. \A q \in Requests : requests'[q].row = "deleted" =>
              \/ requests'[q] = requests[q]
              \/ q = r /\ requests'[q].status = requests[q].status
      BY <2>3 DEF Deletes, Stored
    <3> QED BY <2>2, <2>3, <3>1, <3>2 DEF HiddenIsPending
  <2> QED BY <1>1, <2>1, <2>2, <2>3 DEF HiddenIsPending
<1>5. ASSUME NEW p \in Procs, NEW r \in Requests, NEW h, Claim(p, r, h) PROVE HiddenIsPending'
  <2>1. contentions \in Nat
    BY DEF Ledger, IInv, TypeOK
  <2> QED BY <1>1, <1>5, <2>1 DEF Claim
<1>6. ASSUME NEW e \in Employees, HR(e) PROVE HiddenIsPending'
  BY <1>1, <1>6, HREffect DEF Quiet, Ledger
<1> QED BY <1>1, <1>2, <1>3, <1>4, <1>5, <1>6, Steps
        DEF vars, CheckOverlap, ReadBalance, ReadForDecision, ReadForDeletion

(* Leaves of different requests are counted apart, so that their days add up.     *)
LEMMA DaysAddUp ==
  ASSUME NEW S \in SUBSET Requests, \A r \in S : requests[r].leave \in Leaves,
         NEW f, \A r \in S : f[r] = TotalDays(requests[r].leave)
  PROVE  SumFunctionOnSet(f, S) = DaysOf(S)
<1> DEFINE Q == {T \in SUBSET S : SumFunctionOnSet(f, T) = DaysOf(T)}
<1>1. ASSUME NEW T \in SUBSET S, \A r \in T : T \ {r} \in Q PROVE T \in Q
  <2>1. CASE T = {}
    <3>1. DaysNamed(requests, {}) = {}
      BY DEF DaysNamed
    <3> QED BY <2>1, <3>1, SumEmpty, FS_EmptySet DEF DaysOf
  <2>2. CASE T # {}
    <3>1. PICK r : r \in T
      BY <2>2
    <3>2. IsFiniteSet(T)
      BY LeavesAssumption, FS_Subset
    <3>3. \A q \in T : f[q] \in Int
      BY DaysType DEF TotalDays, Released
    <3>4. SumFunctionOnSet(f, T) = f[r] + SumFunctionOnSet(f, T \ {r})
      BY <3>1, <3>2, <3>3, SumRemove
    <3>5. DaysOf(T) = DaysOf(T \ {r}) + Released(requests[r].leave)
      <4>1. (T \ {r}) \cup {r} = T /\ r \in Requests \ (T \ {r}) /\ T \ {r} \in SUBSET Requests
        BY <3>1
      <4>2. \A q \in T \ {r} : requests[q].leave = requests[q].leave /\ requests[q].leave \in Leaves
        OBVIOUS
      <4>3. requests[r].leave \in Leaves
        BY <3>1
      <4> QED BY <4>1, <4>2, <4>3, DaysAdded DEF DaysOf
    <3>6. DaysOf(T \ {r}) \in Nat
      <4>1. T \ {r} \in SUBSET Requests /\ \A q \in T \ {r} : requests[q].leave \in Leaves
        OBVIOUS
      <4> QED BY <4>1, DaysFinite DEF DaysOf
    <3>7. /\ f[r] = Released(requests[r].leave) /\ f[r] \in Int
          /\ SumFunctionOnSet(f, T \ {r}) = DaysOf(T \ {r})
      BY <1>1, <3>1, <3>3 DEF TotalDays, Released
    <3>8. SumFunctionOnSet(f, T) = DaysOf(T)
      <4> HIDE DEF Q
      <4> QED BY <3>4, <3>5, <3>6, <3>7
    <3> QED BY <3>8
  <2> QED BY <2>1, <2>2
<1>2. S \in Q
  <2> HIDE DEF Q
  <2> QED BY <1>1, AllSubsets, LeavesAssumption, FS_Subset
<1> QED BY <1>2

LEMMA VisibleType ==
  ASSUME TypeOK, NEW r \in Requests, Visible(r)
  PROVE  /\ requests[r] \in Request
         /\ requests[r].leave \in Leaves /\ requests[r].status \in Statuses
         /\ requests[r].leave.emp \in Employees /\ requests[r].leave.type \in LeaveTypes
         /\ YearOf[requests[r].leave.from] \in Years
         /\ KeyOf(requests[r].leave)
              = <<requests[r].leave.emp, requests[r].leave.type, YearOf[requests[r].leave.from]>>
         /\ TotalDays(requests[r].leave) \in Int
<1>1. requests[r] \in Request
  BY StoredType DEF Stored, Visible
<1>2. requests[r].leave \in Leaves /\ requests[r].status \in Statuses
  BY <1>1 DEF Request
<1>3. TotalDays(requests[r].leave) = Released(requests[r].leave)
  BY DEF TotalDays, Released
<1>4. PICK l : l = requests[r].leave
  OBVIOUS
<1>5. l.emp \in Employees /\ l.type \in LeaveTypes /\ l.from \in Days
  BY <1>2, <1>4 DEF Leaves
<1>6. YearOf[l.from] \in Years
  BY <1>5 DEF Years
<1>7. KeyOf(l) = <<l.emp, l.type, YearOf[l.from]>>
  BY DEF KeyOf
<1>8. TotalDays(l) \in Int
  BY <1>2, <1>3, <1>4, DaysType
<1> QED BY <1>1, <1>2, <1>4, <1>5, <1>6, <1>7, <1>8

(* The requests that are recorded with a balance are those it is charged for.     *)
LEMMA RecordedAre ==
  ASSUME Ledger, NEW e \in Employees, NEW t \in LeaveTypes, NEW y \in Years,
         NEW S \in SUBSET Statuses,
         NEW T, T = {r \in OnKey(<<e, t, y>>, S) : Visible(r)}
  PROVE  RecordedDays(e, t, y, S) = DaysOf(T)
<1> DEFINE records == MyLeaveRequests(e, Statuses).records
<1> DEFINE counted == {r \in DOMAIN records : /\ records[r].leave_type = t
                                              /\ records[r].year = y
                                              /\ records[r].status \in S}
<1>1. TypeOK
  BY DEF Ledger, IInv
<1>2. /\ DOMAIN records = FindAll({e}, LeaveTypes, Statuses)
      /\ \A r \in DOMAIN records :
            /\ records[r].leave_type = requests[r].leave.type
            /\ records[r].year = YearOf[requests[r].leave.from]
            /\ records[r].total_days = TotalDays(requests[r].leave)
            /\ records[r].status = requests[r].status
  BY DEF MyLeaveRequests
<1>3. counted = T
  <2>1. \A r \in Requests : Visible(r) => Stored(r)
    BY DEF Visible, Stored
  <2>2. \A r \in Requests : r \in DOMAIN records <=> Visible(r) /\ requests[r].leave.emp = e
    BY <1>1, <1>2, VisibleType DEF FindAll
  <2>3. ASSUME NEW r \in Requests, Visible(r)
        PROVE  r \in counted <=> r \in T
    <3>1. r \in T <=> KeyOf(requests[r].leave) = <<e, t, y>> /\ requests[r].status \in S
      BY <2>1, <2>3 DEF OnKey
    <3>2. KeyOf(requests[r].leave) = <<e, t, y>> <=>
              /\ requests[r].leave.emp = e
              /\ requests[r].leave.type = t
              /\ YearOf[requests[r].leave.from] = y
      BY DEF KeyOf
    <3>3. r \in DOMAIN records <=> requests[r].leave.emp = e
      BY <2>2, <2>3
    <3>4. r \in DOMAIN records =>
              /\ records[r].leave_type = requests[r].leave.type
              /\ records[r].year = YearOf[requests[r].leave.from]
              /\ records[r].status = requests[r].status
      BY <1>2
    <3>5. r \in counted <=>
              r \in DOMAIN records /\ records[r].leave_type = t
                /\ records[r].year = y /\ records[r].status \in S
      OBVIOUS
    <3> HIDE DEF counted, records
    <3> QED BY <3>1, <3>2, <3>3, <3>4, <3>5
  <2>4. counted \subseteq Requests /\ \A r \in counted : Visible(r)
    BY <1>2 DEF FindAll
  <2>5. T \subseteq Requests /\ \A r \in T : Visible(r)
    BY DEF OnKey
  <2> HIDE DEF counted
  <2> QED BY <2>3, <2>4, <2>5
<1>4. PICK f : f = [r \in counted |-> records[r].total_days]
  OBVIOUS
<1>5. DOMAIN f = T /\ \A r \in T : f[r] = TotalDays(requests[r].leave)
  BY <1>2, <1>3, <1>4
<1>6. T \in SUBSET Requests /\ \A r \in T : requests[r].leave \in Leaves
  BY <1>1, VisibleType DEF OnKey
<1>7. SumFunctionOnSet(f, T) = DaysOf(T)
  BY <1>5, <1>6, DaysAddUp
<1>8. RecordedDays(e, t, y, S) = SumFunction(f)
  BY <1>4 DEF RecordedDays
<1> QED BY <1>5, <1>7, <1>8 DEF SumFunction

(* Each balance shows the days of its requests.                                   *)
LEMMA BalancesExplained ==
  ASSUME PartDays = {0}, Ledger, HiddenIsPending, contentions = 0,
         NEW e \in Employees, NEW y \in Years, NEW t \in DOMAIN MyLeaveBalances(e, y)
  PROVE  /\ MyLeaveBalances(e, y)[t].used_days = RecordedDays(e, t, y, {"APPROVED"})
         /\ MyLeaveBalances(e, y)[t].pending_days =
               RecordedDays(e, t, y, Statuses \ {"APPROVED", "REJECTED"})
         /\ MyLeaveBalances(e, y)[t].available_days =
               FindBalances({e}, {t}, {y})[<<e, t, y>>].availableDays
         /\ MyLeaveBalances(e, y)[t].available_days = LeaveUtilization[<<e, t, y>>].remaining
<1>1. PICK k : k = <<e, t, y>>
  OBVIOUS
<1>2. t \in LeaveTypes /\ balances[k].row = "live" /\ k \in Keys
  BY <1>1 DEF MyLeaveBalances, Keys
<1>3. /\ MyLeaveBalances(e, y)[t].used_days = balances[k].used
      /\ MyLeaveBalances(e, y)[t].pending_days = balances[k].pending
      /\ MyLeaveBalances(e, y)[t].available_days = AvailableDays(balances[k])
  BY <1>1 DEF MyLeaveBalances
<1>4. SumsAt(k)
  BY <1>2 DEF Ledger, Sums
<1>5. balances[k].used = RecordedDays(e, t, y, {"APPROVED"})
  <2>1. Approved(k) = {r \in OnKey(k, {"APPROVED"}) : Visible(r)}
    <3>1. \A r \in Requests : Stored(r) /\ requests[r].status = "APPROVED" => Visible(r)
      BY DEF HiddenIsPending, Stored, Visible
    <3> QED BY <3>1 DEF Approved, OnKey
  <2>2. {"APPROVED"} \in SUBSET Statuses
    BY DEF Statuses
  <2>3. RecordedDays(e, t, y, {"APPROVED"}) = DaysOf(Approved(k))
    BY <1>1, <1>2, <2>1, <2>2, RecordedAre
  <2> QED BY <1>4, <2>3 DEF SumsAt
<1>6. balances[k].pending = RecordedDays(e, t, y, Statuses \ {"APPROVED", "REJECTED"})
  <2>1. RecordedDays(e, t, y, Statuses \ {"APPROVED", "REJECTED"}) = DaysOf(Undecided(k))
    BY <1>1, <1>2, RecordedAre DEF Undecided
  <2> QED BY <1>4, <2>1 DEF SumsAt
<1>7. FindBalances({e}, {t}, {y})[k].availableDays = AvailableDays(balances[k])
  <2>1. k[1] = e /\ k[2] = t /\ k[3] = y
    BY <1>1
  <2> QED BY <1>2, <2>1 DEF FindBalances
<1>8. LeaveUtilization[k].remaining = AvailableDays(balances[k])
  BY <1>2 DEF LeaveUtilization, AvailableDays
<1> QED BY <1>1, <1>3, <1>5, <1>6, <1>7, <1>8

LEMMA LiveFinite == ASSUME NEW S \in SUBSET Keys PROVE IsFiniteSet(S)
<1>1. IsFiniteSet(Keys)
  BY TriplesFinite, LeaveReportsAssumption DEF Keys
<1> QED BY <1>1, FS_Subset

(* The requests that a query finds, counted by what it does not ask for.          *)
LEMMA FoundAre ==
  ASSUME NEW E, NEW T, NEW S, NEW all, all = FindAll(E, T, S)
  PROVE  /\ all \in SUBSET Requests /\ IsFiniteSet(all)
         /\ \A r \in all : Visible(r)
<1>1. all \in SUBSET Requests /\ \A r \in all : Visible(r)
  BY DEF FindAll
<1> QED BY <1>1, FS_Subset, LeavesAssumption

(* The days of the approved requests are those used on all the balances.          *)
LEMMA AverageExplained ==
  ASSUME Ledger, HiddenIsPending, contentions = 0,
         \A k \in Keys : balances[k].row # "deleted",
         NEW all, all = FindBalances(Employees, LeaveTypes, Years)
  PROVE  LeaveReport.totalLeaveDays = SumFunction([k \in DOMAIN all |-> all[k].usedDays])
<1>1. TypeOK
  BY DEF Ledger, IInv
<1>2. PICK S : S = FindAll(Employees, LeaveTypes, {"APPROVED"})
  OBVIOUS
<1>3. PICK f : f = [r \in S |-> TotalDays(requests[r].leave)]
  OBVIOUS
<1>4. PICK h : h = [r \in S |-> KeyOf(requests[r].leave)]
  OBVIOUS
<1>5. PICK part : part = [k \in DOMAIN all |-> all[k].usedDays]
  OBVIOUS
<1>6. /\ S \in SUBSET Requests /\ IsFiniteSet(S)
      /\ \A r \in S : Visible(r) /\ Stored(r) /\ requests[r].status = "APPROVED"
  <2>1. \A r \in S : requests[r].status = "APPROVED"
    BY <1>2 DEF FindAll
  <2> QED BY <1>2, <2>1, FoundAre DEF Visible, Stored
<1>7. \A r \in Requests : Visible(r) /\ requests[r].status = "APPROVED" => r \in S
  <2>1. \A r \in Requests : Visible(r) =>
            requests[r].leave.emp \in Employees /\ requests[r].leave.type \in LeaveTypes
    BY <1>1, VisibleType
  <2> QED BY <1>2, <2>1 DEF FindAll
<1>8. DOMAIN all = {k \in Keys : balances[k].row = "live"}
  BY DEF FindBalances, Keys
<1>9. \A k \in DOMAIN all : part[k] = balances[k].used
  BY <1>5 DEF FindBalances
<1>10. IsFiniteSet(DOMAIN all)
  <2>1. DOMAIN all \in SUBSET Keys
    BY <1>8
  <2> QED BY <2>1, LiveFinite
<1>11. \A r \in S : f[r] \in Int /\ f[r] = TotalDays(requests[r].leave)
                    /\ requests[r].leave \in Leaves
  BY <1>1, <1>3, <1>6, VisibleType
<1>12. ASSUME NEW r \in S PROVE h[r] \in DOMAIN all
  <2>1. h[r] \in Keys
    BY <1>4, <1>11, KeyOfType
  <2>2. balances[h[r]].row # "none"
    BY <1>4, <1>6 DEF Ledger, IInv, RequestsHaveBalance
  <2>3. balances[h[r]].row \in {"none", "live", "deleted"}
    <3>1. balances[h[r]] \in Balance
      BY <1>1, <2>1 DEF TypeOK
    <3> QED BY <3>1 DEF Balance
  <2> QED BY <1>8, <2>1, <2>2, <2>3
<1>13. ASSUME NEW k \in DOMAIN all PROVE part[k] = SumFunctionOnSet(f, Part(S, h, k))
  <2>1. Part(S, h, k) = Approved(k)
    <3>1. \A r \in Requests : Stored(r) /\ requests[r].status = "APPROVED" => Visible(r)
      BY DEF HiddenIsPending, Stored, Visible
    <3>2. \A r : r \in Part(S, h, k) <=> r \in S /\ KeyOf(requests[r].leave) = k
      BY <1>4 DEF Part
    <3>3. \A r : r \in Approved(k) <=> r \in S /\ KeyOf(requests[r].leave) = k
      BY <1>6, <1>7, <3>1 DEF Approved, OnKey
    <3> QED BY <3>2, <3>3
  <2>2. Part(S, h, k) \in SUBSET Requests /\ \A r \in Part(S, h, k) :
            requests[r].leave \in Leaves /\ f[r] = TotalDays(requests[r].leave)
    BY <1>6, <1>11 DEF Part
  <2>3. SumFunctionOnSet(f, Part(S, h, k)) = DaysOf(Approved(k))
    BY <2>1, <2>2, DaysAddUp
  <2>4. balances[k].used = DaysOf(Approved(k))
    BY <1>8 DEF Ledger, Sums, SumsAt
  <2> QED BY <1>9, <2>3, <2>4
<1>14. SumFunctionOnSet(f, S) = SumFunctionOnSet(part, DOMAIN all)
  BY <1>6, <1>10, <1>11, <1>12, <1>13, SumOfParts
<1>15. LeaveReport.totalLeaveDays = SumFunction(f)
  BY <1>2, <1>3 DEF LeaveReport
<1>16. SumFunction(f) = SumFunctionOnSet(f, S) /\ SumFunction(part) = SumFunctionOnSet(part, DOMAIN all)
  BY <1>3, <1>5 DEF SumFunction
<1> QED BY <1>5, <1>14, <1>15, <1>16

(* The report and the employees' lists find the same requests.                    *)
LEMMA CountsExplained ==
  ASSUME TypeOK
  PROVE  /\ LeaveReport.totalRequests = SumFunction(LeaveReport.leaveTypeBreakdown)
         /\ LeaveReport.pendingRequests =
               SumFunction([e \in Employees |->
                               MyLeaveRequests(e, Statuses).summary.pending_count])
<1>1. PICK all : all = FindAll(Employees, LeaveTypes, Statuses)
  OBVIOUS
<1>2. IsFiniteSet(all) /\ all \in SUBSET Requests /\ \A r \in all : Visible(r)
  BY <1>1, FoundAre
<1>3. \A r \in Requests : Visible(r) =>
          /\ requests[r].leave.emp \in Employees
          /\ requests[r].leave.type \in LeaveTypes
          /\ requests[r].status \in Statuses
  BY VisibleType
<1>4. LeaveReport.totalRequests = SumFunction(LeaveReport.leaveTypeBreakdown)
  <2>1. PICK part : part = LeaveReport.leaveTypeBreakdown
    OBVIOUS
  <2>2. part = [t \in LeaveTypes |-> Cardinality({r \in all : requests[r].leave.type = t})]
    BY <1>1, <2>1 DEF LeaveReport
  <2>3. PICK h : h = [r \in all |-> requests[r].leave.type]
    OBVIOUS
  <2>4. \A t \in LeaveTypes : part[t] = Cardinality(Part(all, h, t))
    <3>1. \A t : Part(all, h, t) = {r \in all : requests[r].leave.type = t}
      BY <2>3 DEF Part
    <3> QED BY <2>2, <3>1
  <2>5. \A r \in all : h[r] \in LeaveTypes
    BY <1>2, <1>3, <2>3
  <2>6. Cardinality(all) = SumFunctionOnSet(part, LeaveTypes)
    BY <1>2, <2>4, <2>5, CountOfParts, LeaveReportsAssumption
  <2>7. SumFunction(part) = SumFunctionOnSet(part, LeaveTypes)
    BY <2>2 DEF SumFunction
  <2>8. LeaveReport.totalRequests = Cardinality(all)
    BY <1>1 DEF LeaveReport
  <2> QED BY <2>1, <2>6, <2>7, <2>8
<1>5. LeaveReport.pendingRequests =
        SumFunction([e \in Employees |-> MyLeaveRequests(e, Statuses).summary.pending_count])
  <2>1. PICK part : part = [e \in Employees |->
                               MyLeaveRequests(e, Statuses).summary.pending_count]
    OBVIOUS
  <2>2. PICK S : S = {r \in all : requests[r].status = "PENDING"}
    OBVIOUS
  <2>3. PICK h : h = [r \in S |-> requests[r].leave.emp]
    OBVIOUS
  <2>4. ASSUME NEW e \in Employees PROVE part[e] = Cardinality(Part(S, h, e))
    <3>1. part[e] = Cardinality({r \in FindAll({e}, LeaveTypes, Statuses) :
                                    requests[r].status = "PENDING"})
      BY <2>1 DEF MyLeaveRequests, LeaveSummary, CountIn
    <3>2. Part(S, h, e) = {r \in FindAll({e}, LeaveTypes, Statuses) :
                              requests[r].status = "PENDING"}
      <4>1. \A r : r \in Part(S, h, e) <=>
                r \in all /\ requests[r].status = "PENDING" /\ requests[r].leave.emp = e
        BY <2>2, <2>3 DEF Part
      <4>2. \A r : r \in FindAll({e}, LeaveTypes, Statuses) <=>
                r \in all /\ requests[r].leave.emp = e
        BY <1>1 DEF FindAll
      <4> QED BY <4>1, <4>2
    <3> QED BY <3>1, <3>2
  <2>5. IsFiniteSet(S) /\ \A r \in S : h[r] \in Employees
    <3>1. S \in SUBSET all /\ \A r \in S : h[r] \in Employees
      BY <1>2, <1>3, <2>2, <2>3
    <3> QED BY <1>2, <3>1, FS_Subset
  <2>6. Cardinality(S) = SumFunctionOnSet(part, Employees)
    BY <2>4, <2>5, CountOfParts, LeaveReportsAssumption
  <2>7. SumFunction(part) = SumFunctionOnSet(part, Employees)
    BY <2>1 DEF SumFunction
  <2>8. LeaveReport.pendingRequests = Cardinality(S)
    BY <1>1, <2>2 DEF LeaveReport, CountIn
  <2> QED BY <2>1, <2>6, <2>7, <2>8
<1> QED BY <1>4, <1>5

(* Theorem: the lists of requests, the balances and the leave report, which count *)
(* the days of a request in code of their own, tell the same story as long as no  *)
(* two handlers hold one request (createAsync counts a day more than the others   *)
(* for a request that ends later in the day than it starts).                      *)
THEOREM ReportsExplainBalances ==
  ASSUME PartDays = {0} PROVE Spec => []RequestsExplainBalances
<1>1. Init => HiddenIsPending
  BY DEF Init, HiddenIsPending, NoRequest
<1>2. Ledger /\ HiddenIsPending /\ [Next]_vars => Ledger' /\ HiddenIsPending'
  BY LedgerStep, HiddenStep
<1>3. Ledger /\ HiddenIsPending => RequestsExplainBalances
  <2> SUFFICES ASSUME Ledger, HiddenIsPending, contentions = 0
               PROVE  RequestsExplainBalances
    BY DEF RequestsExplainBalances
  <2>1. TypeOK
    BY DEF Ledger, IInv
  <2>2. (\A k \in Keys : balances[k].row # "deleted") =>
            LET all == FindBalances(Employees, LeaveTypes, Years)
            IN  LeaveReport.totalLeaveDays = SumFunction([k \in DOMAIN all |-> all[k].usedDays])
    BY AverageExplained
  <2> QED BY <2>1, <2>2, BalancesExplained, CountsExplained DEF RequestsExplainBalances
<1> QED BY <1>1, <1>2, <1>3, LedgerInit, PTL DEF Spec
=============================================================================
