---------------------------- MODULE MCGeneration ----------------------------
(* Generation for TLC: a progressive table in the other currency, 5 per cent *)
(* up to 100 and 10 per cent less 5 above, and a flat fee of 2 for everybody *)
(* in the payroll's own.                                                     *)
EXTENDS Generation, TLC

CONSTANTS e1, e2, g1, g2

MCBracket ==
    "low" :> [min |-> 0, max |-> 100, pct |-> 5, fixed |-> 0, foreign |-> TRUE] @@
    "high" :> [min |-> 100, max |-> 0, pct |-> 10, fixed |-> 5, foreign |-> TRUE] @@
    "fee" :> [min |-> 0, max |-> 0, pct |-> 0, fixed |-> 2, foreign |-> FALSE]
MCIncome == e1 :> 99 @@ e2 :> 100
MCOpening ==
    {[brackets |-> {"low", "high"}, latest |-> [direct |-> 0, inverse |-> 1]],
     [brackets |-> {"fee"}, latest |-> [direct |-> 0, inverse |-> 0]]}
MCSelected == g1 :> {e1, e2} @@ g2 :> {e2}
MCPeriod == [from |-> 1, to |-> 3]
MCApproved ==
    {[emp |-> e, type |-> "UNPAID_LEAVE", from |-> 2, to |-> 4] : e \in Employees}

\* The table is one that MoreGrossMoreNet is about.
ASSUME TableIsProgressive == Progressive
=============================================================================
