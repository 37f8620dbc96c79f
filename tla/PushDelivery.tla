---------------------------- MODULE PushDelivery ----------------------------
(***************************************************************************)
(* What the notification service promises: a notification is stored, then  *)
(* handed to the queue, pushed to the device a bounded number of times if  *)
(* at all, and settled.  Nothing is pushed before it is stored or after it *)
(* is settled, and whatever has reached the queue is settled in the end.   *)
(***************************************************************************)
EXTENDS Naturals

CONSTANTS
    Notes,
    MaxPushes

VARIABLES
    phase,      \* of each notification: "new", "stored", "queued" or "settled"
    pushes      \* how often each was accepted for delivery

vars == <<phase, pushes>>

Init ==
    /\ phase = [n \in Notes |-> "new"]
    /\ pushes = [n \in Notes |-> 0]

Move(n, from, to) ==
    /\ phase[n] = from
    /\ phase' = [phase EXCEPT ![n] = to]
    /\ UNCHANGED pushes

Store(n) == Move(n, "new", "stored")
Enqueue(n) == Move(n, "stored", "queued")
Settle(n) == Move(n, "queued", "settled")

Push(n) ==
    /\ phase[n] = "queued"
    /\ pushes[n] < MaxPushes
    /\ pushes' = [pushes EXCEPT ![n] = @ + 1]
    /\ UNCHANGED phase

Next == \E n \in Notes : Store(n) \/ Enqueue(n) \/ Push(n) \/ Settle(n)

\* The safety part of the promise.
Safe == Init /\ [][Next]_vars

Spec == Safe /\ \A n \in Notes : WF_vars(Settle(n))
=============================================================================
