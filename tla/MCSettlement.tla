---------------------------- MODULE MCSettlement ----------------------------
(* Instances of Settlement for TLC: one user with a booking and a deposit. *)
EXTENDS Settlement, TLC

CONSTANTS c1, c2, c3, svc, dep, out, customer, p1, p2

MCOwner == [t \in Transactions |-> customer]
MCPurpose == [t \in Transactions |-> CASE t = svc -> "Service Payment"
                                       [] t = dep -> "Fund Deposit"
                                       [] OTHER -> "Fund Withdrawal"]
MCAmount == [t \in Transactions |-> IF t = svc THEN 2 ELSE 3]

Symmetry == Permutations(Calls) \cup Permutations(Providers)
=============================================================================
